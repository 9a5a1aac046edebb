# TLA+ specifications of EMF Camptions

These modules specify the parts of Camptions in which order and timing matter: the life of
a venue's caption session, its connection to WhisperLive, the way from audio to captions,
the distribution to viewers, what a viewer's page makes of it, the history and the limiter in
front of it, the schedule, and the client on the Pi. TLC checks them on small instances; TLAPS
proves every safety property of a passing run for all instances, without a hypothesis on the
environment, and that the connection to WhisperLive implements its abstract specification.
Liveness is model-checked. Where the code does not keep a promise, the property says under
which condition it does, and section 4 what happens otherwise.
Paths below are relative to the repository's root.

## 1. The system

| Component | State | Operations | Source |
|---|---|---|---|
| Ingest handler | position in its coroutine, the flag it read | accept, read the venue's flag, start a session, feed audio, end the session | `src/camptions/routers/audio.py` |
| Transcription manager | `venues`: at most one session per venue | `start_session`, `end_session`, `stop`, `process_audio`, `set_paused`, `is_live`, `_on_wl_state_change` | `src/camptions/services/transcription.py` |
| WhisperLive connection | `_ws`, `_lock`, `wl_ready`, the stop event | `ensure`, `drop`, `close`, `await_or_cancel`, `sleep_or_stop` | `src/camptions/services/session.py` |
| Audio streamer | audio queue, replay ring | `_send_loop` | `src/camptions/services/audio_streamer.py` |
| Transcription processor | `committed_starts`, `sequence`, `last_tentative`, flush task | handshake, `_recv_loop`, `_broadcast`, `_store`, `_emit_tentative` | `src/camptions/services/transcription.py` |
| Venue administration | `venues.transcription_enabled` | `update_venue` | `src/camptions/routers/venues.py` |
| Caption distribution | subscribed WebSockets and SSE queues per venue | `subscribe`, `unsubscribe`, `broadcast` | `src/camptions/services/distribution.py` |
| Caption streams | one handler per viewer, places per address | `caption_stream`, the SSE generator, `WSConnectionLimiter` | `src/camptions/routers/captions.py`, `services/rate_limit.py` |
| Caption history | sessions and segments tables | keyset pagination with cursors, cleanup of old data | `src/camptions/routers/captions.py`, `admin.py` |
| HTTP rate limiter | recent requests per address | sliding window | `src/camptions/services/rate_limit.py` |
| Schedule service | cached schedule, last now/next | poll loop | `src/camptions/services/schedule.py` |
| Browser caption client | socket, reconnect timer, status, segments on screen | connect, reconnect, dispatch, history | `static/captions-client.js` |
| Stream player | peer connection, retry timer | connect, retry | `static/stream-player.js` |
| Pi capture client | capture process, socket, backoff | capture, connect, reconnect | `raspberry-pi/capture_client.py` |

The server is one asyncio process, so interleaving happens only at awaits. A Pi's handler
calls the manager; the manager creates a session with two tasks, which share a
`WLConnection`; the connection calls back into the manager, which broadcasts
`venue_live`/`venue_offline`; the receive task broadcasts captions and stores them; an admin's
PATCH changes a row, then the session, then tells viewers. The dictionary of sessions is keyed
by venue, not by connection, and that is where most of the difficulty lies: two connections of
one venue act on each other's session across their awaits.

What is hard, and what makes each part correct:

* **Session life cycle.** Takeover by a reconnecting Pi, end of the old handler, server
  shutdown, toggles and database errors in any order. Each session must be torn down once, by
  one actor, to its end; no audio or status of a stopped session may reach anybody; the status
  viewers show must be that of the current session, or it must be known whose doing it is.
* **WhisperLive connection.** Two tasks race to connect, one drops what the other uses, a
  cancelled task may hold the lock. One socket at a time, nobody's live socket dropped,
  `wl_ready` in step with the socket, nothing left behind.
* **Pipeline.** Reconnects replay audio, WhisperLive numbers time from each connection's
  start. Nothing shown twice, nothing held back that was never shown, the history complete, a
  pause effective, and where the code cannot do that, nothing worse than it must.
* **Distribution.** The subscribers change while a broadcast waits for them.
* **History and limiter.** Captions are stored, several at one time and committed late, and
  deleted by two different timestamps, between two pages of a walk. The walk must be complete,
  no caption may outlive its session's row; the window must never hold too many requests, and
  who waits as told must get through.
* **A viewer's page.** It loads the history, then streams, and reconnects by timers nobody
  cancels; the server reads a status, awaits, and sends it. No caption twice, out of order or
  missing within a connection; when all is quiet, the page must say what is true.
* **Schedule.** Viewers get snapshots on connecting and broadcasts on changes only; fetches
  fail, the server restarts. Every page must come to the talk that is on.
* **Pi.** A process and a socket, each failing, wedging or being stopped at any await. Neither
  may be left behind, audio must flow again, and a stop must come to its end.

`PROJECT.json` lists every hazard at its line with the properties that cover it.

## 2. The modules

    WlLink              what a session promises about its link (abstract)
      ^ refined by
    WLConnection        two tasks, a lock, sockets, cancellation      MCWLConnection
    SessionLifecycle    handlers, manager, rows, toggle, one viewer   MCSessionLifecycle
    CaptionPipeline     audio queue, ring, WhisperLive, captions      MCCaptionPipeline
    Distribution        viewers, SSE queues, broadcasts, limiter      MCDistribution
    RateLimit           the sliding window of one address
    History             sessions and segments, the query of a page
      ^ composed by (one clock)
    HistoryWalk         a client that walks through the history       MCHistoryWalk
    Viewer              the page and its caption_stream handler
    Schedule            poll loop, cache, snapshots and broadcasts    MCSchedule
    CaptureClient       the Pi's process, socket and stop requests

The theorems about a module `M` are in `MProofs`, those about `HistoryWalk` in `HistoryProofs`.

In all of them a step is the code between two awaits that can suspend; where the code awaits
something that is ready (an uncontended lock, `put_nowait`), there is no step boundary.
Operators named in a comment "Mutant: ..." are wrong versions of the definition that follows
them; they are used only to confirm that a property notices such a bug.

### SessionLifecycle

One venue: venues share only the dictionary. `pc[a]` says at which await each actor is: a
handler goes `idle`, `reading` (the flag), `flagged`, perhaps the end of an older session
(`stopSend`, `stopRecv`, `closeWl`, `endRow`, `ended`), `insert`, `install`, `streaming`, again
the four stages of `end_session` when the Pi is gone, `done`; `dead` if a database call raised.
A handler creates at most one session, so it names its session. `current` is
`manager.venues.get(venue_id)`, `victim[a]` the session that actor `a` popped, `loops[s]` the
running tasks of `s`, `row[s]` its database row, `viewer` the status shown by a viewer that
stays subscribed (`CaptionsClient._handleMessage`). `Pop` takes *whatever session the venue
has*, as the code does; `Chunk` and `ApplyToSession` look the session up again, as the code
does. `WlUp`/`WlDown` are the callbacks of a running session, current or not. `loops[s]` has
the two tasks and `"flush"`, the delayed tentative text: `StopSend` ends with the cancellation
at the head of `processor.stop()`, and the receive task may schedule another while that waits.
`CommitVenue` has the three ends of `commit()` and `refresh()`.

Nothing restricts how connections, shutdowns and toggles overlap; `DbMayFail` says whether a
database call may raise. Three history variables name what the code does not avoid: `overwritten`
(sessions that an overlapping start replaced unended), `crossed` (the last toggle met another
one or a start, or its `refresh()` raised) and `misled` (who last made the status on screen
untrue). The properties except exactly those, and so show that there is nothing else.

### WlLink and WLConnection

`WlLink` is the contract `SessionLifecycle` relies on: the link goes up and down only while a
task runs, subscribers are told unless the session is over, `end_session` waits for the send
task, the receive task, then closes. `WLConnection` is the code: `pc[t]` of each task, the lock
(held across connect, handshake and backoff, and across `ws.close()`), the socket each has in
hand, `stage` of `end_session`. `ImplementsLink` says that it refines `WlLink`; `loops` is
mapped to the tasks `end_session` has not yet waited for.

A cancelled task leaves a socket in its handshake open (`cut`), as the code does. The sender
notices a dead socket only when it sends (`SendFails`), or when `old`, the clock it looks at
every 30 s, has run out (`Expire`). `calm` is a ghost: from some moment on WhisperLive answers
and nothing else fails.

### CaptionPipeline

Chunks of audio are numbers; those in `speech` are one segment each, whose text is the chunk's
number. `heard` is what WhisperLive got on this connection, so a segment's `start` is its
index there and starts again at 1 on a reconnect, exactly the ambiguity the code faces.
`Proceed` is the loop of `_broadcast` up to its next await: the earliest segment of the message
that is not known (`Fresh`) is broadcast, the later ones wait in `todo`; `Store` is the insertion
and what follows; `Tentative` and `FlushFires` the throttled in-progress text, its half second a
nondeterministic choice. The receive task may be behind: `Source` is the connection it reads
from, the current one or what is left (`last`) of an older one, of which it still handles what
had arrived. History variables: `sent` is all audio that went through the ring, `replayed` the
chunks replayed from a ring that had by then dropped some, `mark` the number of captions there
were when the receive task took up its socket.

### Distribution

`sockets` is the set of WebSockets in Python's iteration order, since the code pairs two
iterations over it; `cast[c]` is a broadcast under way: the sockets it began with, those whose
send returned, those that raised. `SendReturns` may return normally for a client that is gone
(nobody has noticed) but raises only for such. `Blamed` is the `zip`, `Discard` an `unsubscribe`
in the middle of that order. `AcceptFails` is the way out of the handler
before its `try` block, which keeps the place under the limit. One address, the limiter
being a counter per address.

### RateLimit, History and HistoryWalk

`RateLimit` is `RateLimitMiddleware` for one address. `log` keeps all admitted requests, and the
deque is what is left of it from `first` on, so that `NeverTooMany` can be about any window of
time and not only the one the deque describes. A request is one step: nothing is awaited under
the lock.

`History` has the two tables and their writers. A row's `created_at` is fixed at the flush
(`Flush`), it is visible from the commit (`EndWrite`, which may also be a rollback), its id is
any unused one. `EndSession` waits for the receive task as `end_session` does
(`SessionLifecycle` shows that it does); `Cleanup` is one transaction over both tables. `Fetched`,
`Page` and `NextCursor` are the query with its cursor and its one row too many. `Fetched` is the
set of results the query may give, of which there is one, since ids are unique.

`HistoryWalk` is a client that follows `next_cursor` in either direction and waits for
`Retry-After`, with `Other` clients of its address. `inVain` counts the refusals in a row
between which nobody else was let through.

### Viewer

One page and one `caption_stream` handler, with the venue's captions, status and toggle. `wire`
is the stream, first in first out. `stage` follows the handler through its two awaits before
`connected`; `known` is what it read. `sock`, `timers` (a count: the code forgets handles) and
`loading` are the page; `Add` is what `_seenCommitted` lets through, of a message or of the
history, oldest first. The venue's session is taken out (`Pop`, which ends `live` and tells
nobody), its end announced by `session_end`, or not if the commit fails, and then comes
`venue_offline` (`Offline`), or not after a takeover; captions may go out after `Pop`, tentative
texts at any time. `untrue` says that what was last broadcast of `live` is not true, or not any
more. `OnClose` starts a timer whatever timers run, `Visible` reconnects
whatever is under way, as the code does. Ghosts: `starts` holds the captions before which a gap
is accepted (the page was not connected), `early` and `outdated` say that one of two known
disagreements happened (section 4). Left out is the `transcription_disabled` that an ingest
handler sends when it starts a paused session: that repeats what was said before, unless it
crosses a toggle, which is the matter of `SessionLifecycle`.

### Schedule

The poll loop with its request and response apart (the schedule upstream changes meanwhile),
the cached entry, `SendSnapshot` after `connected` and `Broadcast` on change. Talks have a
start and an end on a clock. `BadResponse` is an exception outside the `try`, which ends the task, or `start()`.

### CaptureClient

`run_capture` by its awaits: `opening` the device, `dial`, `greeting`, `read`, `send`, then
`stopAudio` and `closeWs` of the `finally`, `pause` for the backoff. `strays` collects processes
and sockets that are open while nothing refers to them any more. `ForceExit` is the second
signal, which cancels the task wherever it is.

## 3. Runs

| Run | Instance | Shows |
|---|---|---|
| `session_races` | 2 handlers, a shutdown, database may fail; fairness | exclusive and complete teardown, no audio after stop, every teardown ends, every Pi gets its session |
| `session_toggles` | 2 handlers, 2 PATCHes, database may fail | status, row and pause agree with the session, but for what `misled`, `overwritten` and `crossed` name; no late live status |
| `session_stale_handler` | 2 handlers that overlap | **violation** of `PiIsHeard` |
| `wl_connection` | 3 socket names; fairness | one socket, right drops, status in step, recovery (also without audio), termination with at most one socket left, refinement of `WlLink` |
| `caption_pipeline` | 4 chunks, ring of 2, queue of 2, 2 segments per message | what may be shown twice or held back, and nothing else; history, pause, end |
| `caption_ring_overflow` | the same | **violation** of `NoCaptionTwice` |
| `distribution` | 3 viewers (limit 2), 1 SSE client with a queue of 2, two broadcasting tasks with 2 and 1 messages | subscriptions, limiter, order, drops |
| `distribution_zip` | the same | **violation** of `HealthyStaySubscribed` |
| `history_walk` | limit of 1, window of 3, 2 ticks a second, time 5; 2 sessions, 2 ids, retention 2, pages of 1; 1 request by others | the window, the walk, no orphans, waiting helps |
| `capture_client` | no bounds | nothing left open, audio flows again, a stop ends |
| `viewer` | history of 1, 3 events (captions, tentative texts, session changes, toggles), 2 losses, 1 visit; fairness | what is shown, what the page says, one connection for good |
| `schedule` | 3 talks, time 4, 2 changes, 2 failures; fairness | the page comes to the current talks |

Bounds. Two handlers and a shutdown give every pair of actors that can meet in a teardown
(takeover against disconnect, either against shutdown); for the safety properties TLAPS removes
these bounds, here and below. Two handlers with two
PATCHes let toggles cross each other and a start, and handlers take over from, overwrite and
outlive each other; handlers, and PATCHes, are interchangeable, so `session_toggles`, which
checks no liveness, uses that symmetry (`distribution` that of its viewers). Two tasks hold at most two sockets, and a third name lets a new one be made while both old ones are
still in hand. Four chunks with a ring of two are the smallest instance in which a segment moves to another
start, and behaviours with two chunks are those of a ring that keeps all audio.
Two segments per message let a message be interrupted between two captions. Two subscribed
viewers are enough to shift results; the third meets the limit, or joins late. Queues of 2 do
fill. In `history_walk` two sessions let one end and be deleted while the other stores; two ids
let two rows share a `created_at` or come in either order, and with pages of one row the cursor
points between them; ids are free again after a deletion. A window of 3 with 2 ticks a second
makes `Retry-After` round down, and a request by another client makes the wait longer. In
`viewer` three events of any kind let captions be out of order, doubled or have a gap between
them, a session end while a caption or a toggle is on its way, and an old one's `venue_offline`
come after the new one is live; with two losses a second timer overwrites the handle of the first; a visit adds one more
connection in the middle of either. In `schedule` two of the talks overlap, and two failures
allow a restart followed by a failed fetch. `CaptureClient` is finite as it is.

Deadlock is not checked: handlers, PATCH requests and sessions are one-shot, chunks and
messages, clocks and failures are bounded or come to an end (a capture client that has stopped),
so every run ends in states without a successor. Progress is stated by `EndingCompletes`,
`PiGetsSession`, `BothServed`, `StopCompletes`, `StreamsAgain`, `StaysConnected` and
`PageCatchesUp`.

Fairness. In `SessionLifecycle`: the event loop resumes what is ready, database calls return,
and the two waits of `end_session` are bounded by `await_or_cancel`; nothing is asked of a Pi,
an admin or WhisperLive. In `WLConnection`: connect, handshake and the waits of `end_session`
have time limits, and the receiver notices a dead socket by the keepalive ping. The sender
need not: it takes a chunk, and none comes while the venue is paused or silent, so `SendFails`
has no fairness. What brings it back then is the clock of the proactive reconnect (`Age`, up to
55 minutes), which `BothServed` rests on; once all is calm it is slower than all other steps.
`asyncio.Lock` is first come, first served, hence strong fairness for a task that waits for it.
In `CaptureClient` every await of the task ends: reads have `READ_TIMEOUT_S`, the process is
killed after 2 s, connecting and closing have limits, a send fails when the pings do; only the
greeting has no limit of its own, and relies on a server that greets or closes. Liveness there
assumes nothing of devices, network or user but, for `StreamsAgain`, that failures stop. In
`Viewer` the handler's reads and sends return, timers fire, and a lost connection is noticed in
the end (by TCP: the page has no watchdog); losses and visits are finitely many. In `Schedule`
the poller sleeps and fetches with a timeout, and the page reconnects. The other runs check
safety only.

## 4. What the violations say

* **A stale handler ends the new session** (`audio.py:128`, `transcription.py:369`). The
  `finally` block ends the venue's session, not its own. A Pi that reconnects before its old
  connection has timed out loses its new session; its audio is discarded until it reconnects.
* **Captions again after a reconnect** (`transcription.py:187`): `start` is relative to the
  connection, so the dedupe works only while the ring (some 5 s) holds all audio of the session.
  `RepeatsAreReplays` says that nothing else repeats. The opposite failure comes of the same
  cause: speech that was never shown is held back because its start is known
  (`OnlyShownIsSuppressed` fails without `replayed = {}`).
* **A healthy viewer dropped for another** (`distribution.py:76`): results of `gather()` are
  paired with the set as it is afterwards.

Seen while modelling, without a run of their own. In the server:

* A late `venue_offline` (`audio.py:129`) of an old handler hides that the new session is live:
  `StatusIsTrue` fails without the exception in its second conjunct. A takeover leaves viewers
  "live" until the new link is up, and a failed commit in `end_session` until the venue's next
  session; the first conjunct excepts these.
* A lost toggle (`audio.py:65`): the flag is read, then `start_session` awaits for up to seconds,
  then the value is used. Two PATCHes may be committed in one order and applied in the other. If
  `refresh()` raises after the commit (`venues.py:154`), nobody is told. `PauseHonoured` fails
  without `~crossed`; the next toggle that crosses nothing sets it right.
* Two `start_session` calls that overlap: the later one overwrites the other's session, whose
  tasks then run on unowned, and no property covers what they do (`OpenRowIsActive` fails without
  `overwritten`). A Pi's old handler also feeds the session of the new one.
* A flush of tentative text that was scheduled while `processor.stop()` waited for the receiver
  (`transcription.py:64`) may go out after `session_end`, up to half a second later.
* A sender without audio keeps a dead socket until the proactive reconnect; nothing is lost but
  the time to connect when audio comes again.
* A normal close before `SERVER_READY` ends the iteration like success (`transcription.py:88`)
  and the link counts as ready.
* `ensure` does not close a socket whose handshake is cancelled (30 s against 3 s): one socket
  is left at WhisperLive, never two (`NothingLeftBehind` fails without `cut`).
* A failed commit in `end_session` leaves the row open and viewers "live"; its tasks are gone
  (`EndAnnouncedLast`). `NotAbandoned` and `EndingCompletes` except an actor that died.
* From the pop of a session to `venue_offline`, about 3 s on an ordinary disconnect, viewers show
  "live" for a venue that is not; after a takeover or a failed commit for as long as nothing
  changes. `PageAgrees` fails without `~untrue`.
* `connected` may be overtaken (`captions.py:95`): its `is_live` is read before an await, a
  `venue_live` broadcast meanwhile is older news when `connected` arrives. `PageAgrees` fails
  without `~outdated`.
* An SSE client that goes away before its generator is entered leaves its queue in the list
  (`EndStream`). A place under the limiter is lost if `accept()` itself raises
  (`captions.py:92`): `PlacesAreExact` counts those handlers too, and fails if it does not.
* A caption committed behind the cursor of a walk through the history is not delivered, nor owed
  by `WalkIsComplete`.
* `Retry-After` is rounded down to whole seconds, and a request exactly one window old still
  counts (`rate_limit.py:67`): a client that waits as told may be refused once more
  (`inVain <= 1` fails), but not twice (`RetrySucceeds`).
* A response of the schedule that is JSON but not of the expected form (`schedule.py:104`) raises
  outside the `try`: the poll task ends for good, or `start()` fails. Awaiting the dead task in
  `stop()` raises its exception again, so that `close_db()` (`main.py:55`) is skipped. A
  venue that vanishes from the schedule keeps its last entry (`schedule.py:117`).

In the clients:

* A page that becomes visible while it loads its history connects at once
  (`captions-client.js:106`), and the history is then shown below newer captions:
  `ShownIsFaithful` fails without `~early`.
* A client that is destroyed while it loads still renders the history
  (`captions-client.js:479`), into the container the next venue's client uses (`viewer.html:928`).
  `Viewer` has the step, but one client only.
* The page has no keepalive of its own (`captions-client.js:172`): a half-open connection is
  noticed when TCP notices it. The capture client's wait for the greeting has no timeout.
* The stream player's retry timer is not cancelled when the peer connection recovers
  (`stream-player.js:73`): it then replaces a connection that works.

## 5. Proofs

### The session life cycle

`SessionLifecycleProofs` proves, for any finite or infinite sets of handlers, stoppers and
admins, and every choice of the environment, from `ConstantsAssumption` (handlers and stoppers
are disjoint, "no session" is no handler, `DbMayFail` is a Boolean):

| Theorem | Property |
|---|---|
| `TypeCorrect` | `TypeOK` |
| `TeardownExclusive` | `EndIsExclusive` |
| `CurrentSessionRuns` | `CurrentIsRunning` |
| `AnnouncedLast` | `EndAnnouncedLast` |
| `NeverAbandoned` | `NotAbandoned` |
| `NoLateAudio` | `NoAudioAfterStop` |
| `LiveNeverStale` | `LiveIsTrue` |
| `OpenRowsAreActive` | `OpenRowIsActive` |
| `PauseIsHonoured` | `PauseHonoured` |
| `StatusIsAlwaysTrue` | `StatusIsTrue` |

None of the invariants is inductive alone. `IInv` adds `TeardownInv`, which ties the stage of an
actor to its victim (the victim of an actor in `end_session` is stopped, not announced, its row open, and nobody
else's victim; from each stage on certain of its tasks are gone), and
`RowInv`, which ties a session's row to how far its handler is. The step of `Next` is proved by
groups: lemma `CoreStutter` for actions that leave the teardown alone, `CorePop` for the three
callers of `Pop`, `CoreMove` for changes of `pc` outside it, `CoreTeardown` for the four stages;
`NextIInv` assembles them, one case per action. The two action properties follow from `IInv`
in the state before the step: `NoLateAudio` because the session a chunk goes to is the current
one, which `CurrentIsRunning` says is not stopped.

The last three rest on `IInv` and on the history variables. *Rows*: each action either leaves an
open row its reason or gives it another (`OpenRowKept`). *Pause*: `PauseInv` says of a flag whose
last change crossed nothing that at most one PATCH is about to apply it, that whoever has read it
has read its value, and that the session has it when nothing is to be applied; a change that
crosses nothing establishes this, whatever was before. *Status*: `FreshInv` says that a session's
link is down until it is installed, so an install never makes a venue live; then each step that
changes `IsLive` or the status either keeps them in agreement or enters its actor in `misled`.

### The connection to WhisperLive

`WLConnectionProofs`, for any set of sockets, from `ConnsAssumption` ("no socket" is no socket):

| Theorem | Property |
|---|---|
| `OneSocket` | `SingleSocket` |
| `ReadyFollowsSocket` | `ReadyMatchesSocket` |
| `CleanEnd` | `NothingLeftBehind` |
| `LateDropsAreHarmless` | `DropsOnlyItsOwn` |
| `LinkImplemented` | `ImplementsLink` |

`WLInv` says that a task has the lock exactly while it connects, shakes hands, backs off or closes,
and that there is no current socket while somebody has it (`LockInv`): this is why two tasks never
make two. Every established socket is the current one or in the hand of the one task that greets
or closes it, but for one whose handshake was cancelled; there is no second such socket because
nobody connects any more once the session is stopped and a handshake cut off (`OwnerInv`).
`StageInv` orders `end_session`. The refinement maps `loops` to the tasks that
`end_session` has not waited for: the end of a handshake is `Up`, letting go of the current socket
`Down`, the waits and the close of `end_session` the steps of the same names, and all else a stutter.

### From audio to captions

`CaptionPipelineProofs`, for any numbers of chunks, queue and message sizes, from
`BoundsAssumption` (they are positive):

| Theorem | Property |
|---|---|
| `HistoryFollows` | `HistoryKeepsUp` |
| `NothingAfterEnd` | `EndIsFinal` |
| `NoTextWhilePaused` | `TentativeRespectsPause` |
| `OnlyReplaysRepeat` | `RepeatsAreReplays` |
| `UniquePerConnection` | `OncePerConnection` |
| `NothingHeldBack` | `OnlyShownIsSuppressed` |

None assumes that the ring holds the session's audio. Chunks the queue had no room for are lost
before the ring and do not matter. `SentInv` and `RingInv`: what was sent is in order and before the queue,
and the ring is the end of it. `ConnInv`: what a connection has heard is a stretch of what was
sent, from its beginning until a ring that had dropped audio is replayed. `ShownInv`: until
then the known starts are the places in `sent` of the captions shown, hence `NothingHeldBack`.
`PlaceInv`: a chunk that was not so replayed has the same place on the connection that the
receive task reads and on the current one; `RepeatInv`: once shown, that place is a known start,
hence `OnlyReplaysRepeat`. `EpochInv`: the captions of the receive task's connection since `mark`
are known by their places on it, hence `UniquePerConnection`. `NothingAfterEnd` is about committed
captions; a tentative text may follow `session_end`.

### Distribution

`DistributionProofs`, for any clients, broadcasting tasks and sizes, from `DistributionAssumption`
(a WebSocket is no SSE client, limit and queues are positive):

| Theorem | Property |
|---|---|
| `NobodyComesBack` | `NoGhostViewers` |
| `LimiterIsExact` | `PlacesAreExact` |
| `StreamsAreOrdered` | `SseKeepsOrder` |
| `BroadcastDropsTheFailed` | `DropsTheFailed` |

The limiter's counter is the cardinality of the handlers that run or were ended by `accept()`
(`PlacesInv`), and the set of
sockets, kept in iteration order, has no socket twice (`SocketsInv`): whoever leaves is then in it
no more. For the queues the bound is `Put(c)`, the number of the last message of task `c` that
has been put: what a client has read and what its queue holds is not above it (`OrderInv`), and a
task broadcasts one message after the other (`CastInv`). `DropsTheFailed` is the case in which the
`zip` of results and sockets is right: same sockets, none twice.

### A viewer's page

`ViewerProofs`, for any bounds, from `ViewerAssumption` (they are numbers):

| Theorem | Property |
|---|---|
| `CaptionsAreFaithful` | `ShownIsFaithful` |
| `PageIsRight` | `PageAgrees` |

*Captions.* `AddCaptions` says what `Add` does to a page that may have some of the captions. Messages
on the wire are in order and each is above what is shown or shown already (`OrderInv`); that
rests on `LoadInv`: unless the page became visible meanwhile, it has no connection and shows
nothing before its history is there. `GapInv` says of each caption, shown or on its way, that the one
before it is shown, on its way before it, or a gap is accepted there; and that the next
caption of a connection will find the last one.

*What the page says.* The page is told of the venue by several kinds of messages, one of them with
what its sender had read earlier. `Chain` gives what is known of the venue after each of the
messages on the wire; `Truthful` says that the first of these views is what the page shows (the
status only once it has been greeted), and the last is what is true (the toggle only once it has
been broadcast, the status while what was last broadcast of it is true). Every broadcast appends
a view, true or entered in `untrue`, every receipt takes one off, `connected` appends a true one
or is `outdated`; with an empty wire the first and the last are the same. The hint `is_live` in a
toggle's broadcast is used by the page or not: if it says something else than the chain, which
happens between a pop and `venue_offline`, the view is "unsure" until the next status message.

### The Pi

`NothingIsLeftOpen` of `CaptureClientProofs` is `NothingLeftOpen`, from nothing but what each stretch
of `run_capture` may hold (`HeldInv`).

### The limiter and the history

From `RateAssumption` (the limit and the second are positive) and `HistoryAssumption` (ids are
numbers, retention and page size positive), for any sets of sessions and ids:

| Theorem | Module | Property |
|---|---|---|
| `WindowKept` | `RateLimitProofs` | `NeverTooMany` of the limiter by itself |
| `WalkKeepsWindow` | `HistoryProofs` | `NeverTooMany` of the composition |
| `RowsKeepTheirSession` | `HistoryProofs` | `NoOrphans` |
| `WaitingHelps` | `HistoryProofs` | `RetrySucceeds` |
| `WalkLosesNothing` | `HistoryProofs` | `WalkIsComplete` |

*The window.* `NeverTooMany` is about requests the deque has forgotten, so the invariant adds
that the log is in order and not ahead of the clock, that all before `first` is older than the
window, and that the deque holds at most `Limit`. A step of `HistoryWalk` is a step of
`RateLimit` or leaves it alone (`NextIsRateStep`), so the composition needs no second proof.

*The rows.* `NoOrphans` holds because a session's captions are not younger than its end, and
the cleanup deletes with one cutoff. `TablesInv` says so (`RowsBeforeEnd`), and that a row is only
being written while its session is alive (`WritesWhileAlive`), without which a commit after the
end could break it: that `end_session` stops the receive task first is what the proof rests on.

*The wait.* `WaitInv` relates the promise to the log: while the client waits and nobody has been
let through since its last refusal (`seen = Len(log)`), the oldest request that counted then
(`Oldest`) leaves the window less than one second after `notBefore`. A second refusal is given for
that same request (`RefusedByOldest`) and asks for at least one second more, after which it is
out of the window (`WholeSeconds`, `RefusedStep`).

*The walk.* `WalkInv` says that what has been received is in order and not beyond the cursor, and
that what is owed and still stored has been received or comes after it (`GotInv`). A page is the
beginning of the ordered list of all rows after the cursor (`Listed`, `PageBegins`), so adding it
keeps both (`PageAdded`). Two facts about the tables are needed: a row is only found through its
session's row, so the walk would lose captions without `NoOrphans`; and a new row with the id of a
deleted one is a later row, since it was written after the deletion, so it is not taken for the one
that was owed (`IdsInv`).

### Only model-checked

Liveness under fairness, which TLAPS does not prove: `EndingCompletes`, `PiGetsSession`,
`BothServed`, both `StopCompletes`, `StreamsAgain`, `StaysConnected` and `PageCatchesUp`. The last
is the only property of `Schedule`, which has no theorem.

## 6. Not modelled, and the plan

Not modelled by choice:

* Schemas, settings and token comparison: no state. Session and admin listings: read-only; that
  of sessions pages as `History` does.
* The filters `since`, `until` and `session_id` of the history, which only make the set smaller, and
  the encoding of a cursor, which is taken as lossless.
* The layout of lines on the page, the trimming of old ones, and the display's inline mode; drop
  statistics and keepalives of the streams.
* The stream player. Its attempts form one chain: a start under way, a timer, or a connection.
  A peer connection has no state changes to report before the answer is set, after which its
  start is over, and closing it reports none; so no two starts overlap, and most of its state is
  the browser's peer connection.
* Two venues at once (they share only dictionaries keyed by venue), two pages in one browser.
* Deployment files, and the WhisperLive server beyond what it may do to a connection.

Next: a theorem for `Schedule`, that an open page was told what the cache holds; and `WlLink` in place
of the callbacks of `SessionLifecycle`, so that both halves of the composition are one specification.
