--------------------------- MODULE WLConnection ---------------------------
(***************************************************************************)
(* One session's WebSocket to WhisperLive (services/session.py), as its    *)
(* send task (services/audio_streamer.py) and its receive task             *)
(* (services/transcription.py) share it, and as end_session stops the two, *)
(* cancels the one that does not return in time, and closes it.            *)
(*                                                                         *)
(* A step is the code between two suspensions.  The lock of WLConnection   *)
(* is held across the whole connect, handshake and backoff loop and across *)
(* ws.close(); on_state_change runs right after its release, with nothing  *)
(* in between, so wl_ready changes in the same step.  WhisperLive is the   *)
(* environment: a connection may be refused, turned away in the handshake, *)
(* or closed at any time.                                                  *)
(***************************************************************************)
CONSTANTS
    Conns,   \* names for sockets; a name is reused once forgotten
    NoConn   \* Python's None

ASSUME ConnsAssumption == NoConn \notin Conns

Tasks == {"send", "recv"}

VARIABLES
    ws,        \* WLConnection._ws
    lock,      \* the task that holds WLConnection._lock, or "free"
    pc,        \* where each task is suspended
    local,     \* the socket each task has in hand
    after,     \* where a task goes when its drop() returns
    conn,      \* each socket: "none", "up", or "shut" by the other side
    served,    \* sockets on which SERVER_READY was received
    wlReady,   \* VenueSession.wl_ready
    told,      \* was the last status broadcast of this session venue_live?
    stage,     \* how far end_session is
    old,       \* ws_opened_at is more than wl_reconnect_interval ago
    calm,      \* from here on WL answers and no caption fails
    cut        \* history: sockets whose handshake was cancelled

vars == <<ws, lock, pc, local, after, conn, served, wlReady, told, stage, old, calm, cut>>

Stopped == stage # "run"       \* stop_event.is_set()

Init ==
    /\ ws = NoConn
    /\ lock = "free"
    /\ pc = [t \in Tasks |-> "top"]
    /\ local = [t \in Tasks |-> NoConn]
    /\ after = [t \in Tasks |-> "top"]
    /\ conn = [c \in Conns |-> "none"]
    /\ served = {}
    /\ wlReady = FALSE
    /\ told = FALSE
    /\ stage = "run"
    /\ old = FALSE
    /\ calm = FALSE
    /\ cut = {}

Goto(t, p) == pc' = [pc EXCEPT ![t] = p]
Alive(c) == c # NoConn /\ conn[c] = "up"

\* Mutant: the guard "is not venue" is lost.
FireUnguarded(ready) == wlReady' = ready /\ told' = ready

\* on_state_change: wl_ready always, the broadcast only for a session that is
\* still in the dictionary.
Fire(ready) ==
    /\ wlReady' = ready
    /\ told' = IF Stopped THEN told ELSE ready

Unfired == UNCHANGED <<wlReady, told>>

-----------------------------------------------------------------------------
(* ensure()                                                                *)

\* With the lock in hand: the socket that is there, or a connect loop.
EnsureLocked(t) ==
    \/ /\ ws # NoConn
       /\ local' = [local EXCEPT ![t] = ws]
       /\ Goto(t, "use")
       /\ UNCHANGED lock
    \/ /\ ws = NoConn
       /\ lock' = t
       /\ Goto(t, "connecting")
       /\ UNCHANGED local

\* Head of either task's loop.
Top(t) ==
    /\ pc[t] = "top"
    /\ \/ Stopped /\ Goto(t, "exited") /\ UNCHANGED <<lock, local>>
       \/ ~Stopped /\ lock = "free" /\ EnsureLocked(t)
       \/ ~Stopped /\ lock # "free" /\ Goto(t, "waitLock") /\ UNCHANGED <<lock, local>>
    /\ UNCHANGED <<ws, after, conn, served, wlReady, told, stage, old, calm, cut>>

\* Mutant: the socket made by the other task is not looked for again once the
\* lock is there.
GetLockConnects(t) ==
    /\ pc[t] = "waitLock"
    /\ lock = "free"
    /\ \/ Stopped /\ Goto(t, "exited") /\ UNCHANGED lock
       \/ ~Stopped /\ lock' = t /\ Goto(t, "connecting")
    /\ UNCHANGED <<ws, local, after, conn, served, wlReady, told, stage, old, calm, cut>>

\* The lock after a wait: an existing socket is returned even after stop, a
\* new one is not made.
GetLock(t) ==
    /\ pc[t] = "waitLock"
    /\ lock = "free"
    /\ \/ (ws # NoConn \/ ~Stopped) /\ EnsureLocked(t)
       \/ /\ ws = NoConn /\ Stopped
          /\ Goto(t, "exited")
          /\ UNCHANGED <<lock, local>>
    /\ UNCHANGED <<ws, after, conn, served, wlReady, told, stage, old, calm, cut>>

\* websockets.connect() returns a socket or raises.
Connect(t) ==
    /\ pc[t] = "connecting"
    /\ \/ \E c \in Conns \ {local[u] : u \in Tasks} :
             /\ conn[c] = "none"
             /\ conn' = [conn EXCEPT ![c] = "up"]
             /\ served' = served \ {c}
             /\ local' = [local EXCEPT ![t] = c]
             /\ Goto(t, "handshake")
       \/ /\ ~calm
          /\ Goto(t, "backoff")
          /\ UNCHANGED <<conn, served, local>>
    /\ UNCHANGED <<ws, lock, after, stage, old, calm, cut>> /\ Unfired

\* SERVER_READY: the socket becomes current.  The same happens, without
\* SERVER_READY, when WL closes the socket normally first: the message loop of
\* _wait_for_ready then just ends.
HandshakeDone(t) ==
    /\ pc[t] = "handshake"
    /\ \/ /\ conn[local[t]] = "up"
          /\ served' = served \cup {local[t]}
          /\ UNCHANGED conn
       \/ /\ ~calm
          /\ conn' = [conn EXCEPT ![local[t]] = "shut"]
          /\ UNCHANGED served
    /\ ws' = local[t]
    /\ lock' = "free"
    /\ Fire(TRUE)
    /\ old' = FALSE
    /\ Goto(t, "use")
    /\ UNCHANGED <<local, after, stage, calm, cut>>

\* WAIT, ERROR, a lost socket or the 30 s limit: the socket is closed.
HandshakeFail(t) ==
    /\ pc[t] = "handshake"
    /\ ~calm \/ conn[local[t]] = "shut"
    /\ conn' = [conn EXCEPT ![local[t]] = "none"]
    /\ local' = [local EXCEPT ![t] = NoConn]
    /\ Goto(t, "backoff")
    /\ UNCHANGED <<ws, lock, after, served, stage, old, calm, cut>> /\ Unfired

\* sleep_or_stop() inside the connect loop, the lock still held.
BackoffOver(t) ==
    /\ pc[t] = "backoff"
    /\ \/ ~Stopped /\ Goto(t, "connecting") /\ UNCHANGED lock
       \/ Stopped /\ Goto(t, "exited") /\ lock' = "free"
    /\ UNCHANGED <<ws, local, after, conn, served, stage, old, calm, cut>> /\ Unfired

-----------------------------------------------------------------------------
(* Use of the socket                                                       *)

\* A task turns to drop(), and will then go to `next`.
GiveUp(t, next) ==
    /\ Goto(t, "drop")
    /\ after' = [after EXCEPT ![t] = next]

\* Sender: send() raises on a dead socket, in the replay of the ring ("top":
\* reconnect at once) or later ("rest": sleep a second first).  It takes a
\* chunk to notice, and none comes while the venue is paused or silent.
SendFails ==
    /\ pc["send"] = "use"
    /\ ~Alive(local["send"])
    /\ \E next \in {"top", "rest"} : GiveUp("send", next)
    /\ UNCHANGED <<ws, lock, local, conn, served, stage, old, calm, cut>> /\ Unfired

\* The last connection made reaches wl_reconnect_interval (an hour or so).
\* Once calm, nothing else takes that long: the tasks have done by then what
\* they can do, and only a sender without audio still has a socket of before.
Age ==
    /\ ~old
    /\ calm => /\ pc = [t \in Tasks |-> "use"]
               /\ local["recv"] = ws /\ local["send"] # ws
    /\ old' = TRUE
    /\ UNCHANGED <<ws, lock, pc, local, after, conn, served, stage, calm, cut>> /\ Unfired

\* Mutant: the clock is looked at for the current socket only.
ExpireOfCurrent ==
    /\ pc["send"] = "use"
    /\ ~Stopped /\ old /\ local["send"] = ws
    /\ GiveUp("send", "top")
    /\ UNCHANGED <<ws, lock, local, conn, served, stage, old, calm, cut>> /\ Unfired

\* Sender: the proactive reconnect, before WL's own limit on a connection.
\* The clock is that of the last connection, which may not be the sender's.
Expire ==
    /\ pc["send"] = "use"
    /\ ~Stopped /\ old
    /\ GiveUp("send", "top")
    /\ UNCHANGED <<ws, lock, local, conn, served, stage, old, calm, cut>> /\ Unfired

\* Sender after stop: it sends END_OF_AUDIO and returns, or sees the stop
\* event at the head of its loop.
SendEnds ==
    /\ pc["send"] = "use"
    /\ Stopped
    /\ Goto("send", "exited")
    /\ UNCHANGED <<ws, lock, local, after, conn, served, stage, old, calm, cut>> /\ Unfired

\* Receiver: the message loop ends with the socket, closed by either side.
RecvEnds ==
    /\ pc["recv"] = "use"
    /\ ~Alive(local["recv"])
    /\ GiveUp("recv", "top")
    /\ UNCHANGED <<ws, lock, local, conn, served, stage, old, calm, cut>> /\ Unfired

\* Receiver: handling a message raised (a failed database write): the socket
\* is dropped though nothing is wrong with it.
RecvRaises ==
    /\ pc["recv"] = "use"
    /\ ~calm
    /\ GiveUp("recv", "rest")
    /\ UNCHANGED <<ws, lock, local, conn, served, stage, old, calm, cut>> /\ Unfired

\* Mutant: drop() discards whatever socket is current.
DropAny(t) ==
    /\ pc[t] = "drop"
    /\ lock = "free"
    /\ \/ /\ ws # NoConn
          /\ ws' = NoConn
          /\ local' = [local EXCEPT ![t] = ws]
          /\ lock' = t
          /\ Goto(t, "closing")
       \/ /\ ws = NoConn
          /\ local' = [local EXCEPT ![t] = NoConn]
          /\ Goto(t, after[t])
          /\ UNCHANGED <<ws, lock>>
    /\ UNCHANGED <<after, conn, served, stage, old, calm, cut>> /\ Unfired

\* drop(ws): only if ws is still the current socket.
Drop(t) ==
    /\ pc[t] = "drop"
    /\ lock = "free"
    /\ \/ /\ ws = local[t]
          /\ ws' = NoConn
          /\ lock' = t
          /\ Goto(t, "closing")
          /\ UNCHANGED local
       \/ /\ ws # local[t]
          /\ local' = [local EXCEPT ![t] = NoConn]
          /\ Goto(t, after[t])
          /\ UNCHANGED <<ws, lock>>
    /\ UNCHANGED <<after, conn, served, stage, old, calm, cut>> /\ Unfired

\* Mutant: drop() tells nobody.
DroppedSilently(t) ==
    /\ pc[t] = "closing"
    /\ conn' = [conn EXCEPT ![local[t]] = "none"]
    /\ local' = [local EXCEPT ![t] = NoConn]
    /\ lock' = "free"
    /\ Goto(t, after[t])
    /\ UNCHANGED <<ws, after, served, stage, old, calm, cut>> /\ Unfired

\* ws.close() returned: the lock is released and on_state_change fired.
Dropped(t) ==
    /\ pc[t] = "closing"
    /\ conn' = [conn EXCEPT ![local[t]] = "none"]
    /\ local' = [local EXCEPT ![t] = NoConn]
    /\ lock' = "free"
    /\ Fire(FALSE)
    /\ Goto(t, after[t])
    /\ UNCHANGED <<ws, after, served, stage, old, calm, cut>>

\* sleep_or_stop(1) after an error.
RestOver(t) ==
    /\ pc[t] = "rest"
    /\ Goto(t, IF Stopped THEN "exited" ELSE "top")
    /\ UNCHANGED <<ws, lock, local, after, conn, served, stage, old, calm, cut>> /\ Unfired

-----------------------------------------------------------------------------
(* end_session                                                             *)

Stop ==
    /\ stage = "run"
    /\ stage' = "stopSend"
    /\ UNCHANGED <<ws, lock, pc, local, after, conn, served, old, calm, cut>> /\ Unfired

\* Mutant: a cancelled task never lets go of the lock.
CancelKeepsLock(t) ==
    /\ cut' = IF pc[t] = "handshake" THEN cut \cup {local[t]} ELSE cut
    /\ conn' = IF pc[t] = "closing" THEN [conn EXCEPT ![local[t]] = "none"] ELSE conn
    /\ UNCHANGED lock

\* CancelledError unwinds the task from where it is suspended: the lock is
\* released; the library finishes a connect or a close that it interrupts, but
\* nobody closes a socket in its handshake ("except Exception" does not catch
\* it), and on_state_change does not run.
Cancel(t) ==
    /\ cut' = IF pc[t] = "handshake" THEN cut \cup {local[t]} ELSE cut
    /\ conn' = IF pc[t] = "closing" THEN [conn EXCEPT ![local[t]] = "none"] ELSE conn
    /\ lock' = IF lock = t THEN "free" ELSE lock

\* await_or_cancel(): the task returned, or 3 s passed and it is cancelled.
AwaitTask(t, here, next) ==
    /\ stage = here
    /\ \/ pc[t] = "exited" /\ UNCHANGED <<conn, lock, pc, cut>>
       \/ pc[t] # "exited" /\ Cancel(t) /\ Goto(t, "exited")
    /\ stage' = next
    /\ UNCHANGED <<ws, local, after, served, old, calm>> /\ Unfired

AwaitSend == AwaitTask("send", "stopSend", "stopRecv")
AwaitRecv == AwaitTask("recv", "stopRecv", "closeWl")

\* Mutant: the final close() is forgotten.
ForgetClose ==
    /\ stage = "closeWl"
    /\ stage' = "closed"
    /\ UNCHANGED <<ws, lock, pc, local, after, conn, served, old, calm, cut>> /\ Unfired

\* wl.close()
Close ==
    /\ stage = "closeWl"
    /\ lock = "free"
    /\ stage' = "closed"
    /\ \/ ws = NoConn /\ UNCHANGED <<ws, conn>> /\ Unfired
       \/ /\ ws # NoConn
          /\ ws' = NoConn
          /\ conn' = [conn EXCEPT ![ws] = "none"]
          /\ Fire(FALSE)
    /\ UNCHANGED <<lock, pc, local, after, served, old, calm, cut>>

-----------------------------------------------------------------------------
(* WhisperLive                                                             *)

\* WL closes a socket, or the network loses it.
Shut(c) ==
    /\ conn[c] = "up"
    /\ ~calm
    /\ conn' = [conn EXCEPT ![c] = "shut"]
    /\ UNCHANGED <<ws, lock, pc, local, after, served, stage, old, calm, cut>> /\ Unfired

Calm ==
    /\ ~calm
    /\ calm' = TRUE
    /\ UNCHANGED <<ws, lock, pc, local, after, conn, served, stage, old, cut>> /\ Unfired

-----------------------------------------------------------------------------
\* What a task does by itself, once what it waits for is there.
TaskStep(t) ==
    \/ Top(t) \/ GetLock(t) \/ Connect(t) \/ HandshakeDone(t) \/ HandshakeFail(t)
    \/ BackoffOver(t) \/ Drop(t) \/ Dropped(t) \/ RestOver(t)
    \/ t = "send" /\ (Expire \/ SendEnds)
    \/ t = "recv" /\ RecvEnds

EndStep == AwaitSend \/ AwaitRecv \/ Close

Next ==
    \/ \E t \in Tasks : TaskStep(t)
    \/ Age \/ SendFails \/ RecvRaises
    \/ Stop \/ EndStep
    \/ \E c \in Conns : Shut(c)
    \/ Calm

Spec == Init /\ [][Next]_vars

\* connect(), the handshake and the waits of end_session have time limits; the
\* receiver notices a dead socket by the keepalive ping; asyncio.Lock serves
\* its waiters in order, hence strong fairness.  Nothing makes audio come, so
\* SendFails has none: without a chunk the sender leaves a dead socket only
\* when the clock it looks at every 30 s has run out.
Fairness ==
    /\ \A t \in Tasks : SF_vars(TaskStep(t))
    /\ WF_vars(Age)
    /\ WF_vars(EndStep)

FairSpec == Spec /\ Fairness

-----------------------------------------------------------------------------
(* Properties                                                              *)

\* WLConnection "owns a single WebSocket": until the session is told to stop,
\* the tasks never have more than one established at WhisperLive between them.
SingleSocket ==
    ~Stopped => \A c, d \in Conns : conn[c] # "none" /\ conn[d] # "none" => c = d

\* While the session runs, wl_ready and what viewers were last told agree with
\* the socket, except while the socket that was just let go is being closed.
ReadyMatchesSocket ==
    ~Stopped =>
        /\ told = wlReady
        /\ wlReady <=> (ws # NoConn \/ \E t \in Tasks : pc[t] = "closing")

\* A task lets go of no socket but the one it was using itself: a drop() that
\* comes late leaves the other task's new connection alone.
DropsOnlyItsOwn ==
    [][\A t \in Tasks : pc[t] = "drop" /\ ws # NoConn /\ ws # local[t] /\ pc'[t] # "drop"
          => ws' = ws]_vars

\* Once end_session is through nobody has the lock, and the session has no
\* socket left at WhisperLive (where it would use up one of a few client
\* slots), except when end_session cancelled a task in its handshake, which
\* may last 30 s against the 3 s of await_or_cancel: that one socket is
\* nobody's from then on, but there is never a second one.
NothingLeftBehind ==
    stage = "closed" =>
        /\ lock = "free"
        /\ \A c \in Conns : conn[c] # "none" => c \in cut
        /\ \A c, d \in cut : c = d

\* Whatever happened before, once WhisperLive is well again both tasks get
\* onto one and the same live, handshaked socket, unless the session ends:
\* the sender too when it gets no audio to notice a dead socket by.
BothServed ==
    calm ~> \/ Stopped
            \/ /\ pc = [t \in Tasks |-> "use"]
               /\ local["send"] = local["recv"] /\ Alive(local["send"])
               /\ local["send"] \in served /\ ~old

\* end_session gets to its end although the tasks may be anywhere, even in a
\* long backoff with the lock held.
StopCompletes == Stopped ~> stage = "closed"

-----------------------------------------------------------------------------
\* The link as SessionLifecycle sees it.
Link == INSTANCE WlLink WITH
    loops <- IF stage \in {"run", "stopSend"} THEN Tasks
             ELSE IF stage = "stopRecv" THEN {"recv"} ELSE {},
    stopped <- Stopped

\* The two tasks, their shared socket and the cancellations implement it.
ImplementsLink == Link!Spec
=============================================================================
