--------------------------- MODULE Distribution ---------------------------
(***************************************************************************)
(* The subscribers of one venue: DistributionManager (services/            *)
(* distribution.py), the handlers of caption_stream and of the SSE route   *)
(* that subscribe to it (routers/captions.py), the per-address limit on    *)
(* viewers (services/rate_limit.py) and the tasks that call broadcast().   *)
(*                                                                         *)
(* The manager's and the limiter's locks are never contended, for nothing  *)
(* is awaited while they are held; they are left out.  A set of WebSockets *)
(* is a sequence here, the order in which Python iterates over the set:    *)
(* any order after an insertion or a -=, the old one after a discard.      *)
(***************************************************************************)
EXTENDS Naturals, FiniteSets, SequencesExt

CONSTANTS
    Viewers,     \* WebSocket clients, all of one address
    Streams,     \* SSE clients
    Callers,     \* tasks that broadcast, each one message at a time
    MaxPerIp,    \* ws_connections_per_ip
    QueueMax,    \* maxsize of an SSE queue
    MaxCasts     \* how many messages each caller broadcasts (bound of the model)

ASSUME DistributionAssumption ==
    /\ Viewers \cap Streams = {}
    /\ {MaxPerIp, QueueMax} \subseteq Nat \ {0}
    /\ MaxCasts \in [Callers -> Nat]

Clients == Viewers \cup Streams
Idle == [n |-> 0, to |-> <<>>, back |-> {}, failed |-> {}]   \* no broadcast

VARIABLES
    pc,        \* where the handler of each client is
    gone,      \* clients that have closed, or lost, their connection
    places,    \* WSConnectionLimiter._counts of the address
    sockets,   \* VenueSubscribers.websockets
    queues,    \* VenueSubscribers.sse_queues
    queue,     \* what is in each SSE queue: <<caller, number>>
    read,      \* the last message of each caller that each SSE client was sent
    cast,      \* the broadcast each caller is in: its number, the sockets it
               \* sends to, those whose send has returned, and those that raised
    casts      \* how many messages each caller has broadcast

viewerVars == <<places, sockets>>
streamVars == <<queues, queue, read>>
castVars   == <<cast, casts>>
vars == <<pc, gone, viewerVars, streamVars, castVars>>

Init ==
    /\ pc = [x \in Clients |-> "idle"]
    /\ gone = {}
    /\ places = 0
    /\ sockets = <<>>
    /\ queues = {}
    /\ queue = [s \in Streams |-> <<>>]
    /\ read = [s \in Streams |-> [c \in Callers |-> 0]]
    /\ cast = [c \in Callers |-> Idle]
    /\ casts = [c \in Callers |-> 0]

Goto(x, stage) == pc' = [pc EXCEPT ![x] = stage]

-----------------------------------------------------------------------------
(* caption_stream                                                          *)

Acquire(v) ==
    /\ pc[v] = "idle"
    /\ \/ places >= MaxPerIp /\ Goto(v, "refused") /\ UNCHANGED places
       \/ places < MaxPerIp /\ Goto(v, "admitted") /\ places' = places + 1
    /\ UNCHANGED <<gone, sockets, streamVars, castVars>>

\* accept() raised (the client was gone again, or the server shuts down).  It
\* stands before the try, so this handler ends without release().
AcceptFails(v) ==
    /\ pc[v] = "admitted"
    /\ gone' = gone \cup {v}
    /\ Goto(v, "unaccepted")
    /\ UNCHANGED <<viewerVars, streamVars, castVars>>

\* accept() returned; the viewer is subscribed before it is told anything.
Subscribe(v) ==
    /\ pc[v] = "admitted"
    /\ sockets' \in SetToSeqs(ToSet(sockets) \cup {v})
    /\ Goto(v, "connecting")
    /\ UNCHANGED <<gone, places, streamVars, castVars>>

\* The venue's flag was read from the database, and `connected` is sent.
Greet(v) ==
    /\ pc[v] = "connecting"
    /\ Goto(v, "open")
    /\ UNCHANGED <<gone, places, sockets, streamVars, castVars>>

\* WSConnectionLimiter.release(), which never counts below zero.
Release == places' = IF places > 0 THEN places - 1 ELSE 0

\* set.discard(), which leaves the others in their order.
Discard(v) ==
    IF v \notin ToSet(sockets) THEN UNCHANGED sockets
    ELSE \E i \in DOMAIN sockets : sockets[i] = v /\ sockets' = RemoveAt(sockets, i)

\* Mutant: a handler whose viewer was dropped by a broadcast returns early.
LeaveKeepsPlace(v) ==
    /\ pc[v] \in {"connecting", "open"}
    /\ v \in gone \/ pc[v] = "connecting"
    /\ IF v \in ToSet(sockets) THEN Release ELSE UNCHANGED places
    /\ Discard(v)
    /\ gone' = gone \cup {v}
    /\ Goto(v, "done")
    /\ UNCHANGED <<streamVars, castVars>>

\* The finally block, after the client's disconnection was noticed or after
\* the database read raised (which makes the server close the connection).
Leave(v) ==
    /\ pc[v] \in {"connecting", "open"}
    /\ v \in gone \/ pc[v] = "connecting"
    /\ Release
    /\ Discard(v)
    /\ gone' = gone \cup {v}
    /\ Goto(v, "done")
    /\ UNCHANGED <<streamVars, castVars>>

-----------------------------------------------------------------------------
(* caption_stream_sse                                                      *)

SubscribeSse(s) ==
    /\ pc[s] = "idle"
    /\ queues' = queues \cup {s}
    /\ Goto(s, "subscribed")
    /\ UNCHANGED <<gone, viewerVars, queue, read, castVars>>

\* The generator is entered and yields its own `connected`.
StartStream(s) ==
    /\ pc[s] = "subscribed"
    /\ Goto(s, "open")
    /\ UNCHANGED <<gone, viewerVars, streamVars, castVars>>

PullStream(s) ==
    /\ pc[s] = "open"
    /\ queue[s] # <<>>
    /\ LET msg == Head(queue[s]) IN read' = [read EXCEPT ![s][msg[1]] = msg[2]]
    /\ queue' = [queue EXCEPT ![s] = Tail(@)]
    /\ UNCHANGED <<pc, gone, viewerVars, queues, castVars>>

\* Cancelled because the client is gone: the finally block of the generator
\* unsubscribes, but not when the generator was never entered.
EndStream(s) ==
    /\ s \in gone
    /\ pc[s] \in {"subscribed", "open"}
    /\ queues' = IF pc[s] = "open" THEN queues \ {s} ELSE queues
    /\ Goto(s, "done")
    /\ UNCHANGED <<gone, viewerVars, queue, read, castVars>>

\* A client closes or loses its connection.
Depart(x) ==
    /\ pc[x] \in {"admitted", "connecting", "subscribed", "open"}
    /\ x \notin gone
    /\ gone' = gone \cup {x}
    /\ UNCHANGED <<pc, viewerVars, streamVars, castVars>>

-----------------------------------------------------------------------------
(* broadcast                                                               *)

\* put_nowait() into every SSE queue; a full one misses the message.
PutAll(msg) ==
    queue' = [s \in Streams |-> IF s \in queues /\ Len(queue[s]) < QueueMax
                                THEN Append(queue[s], msg) ELSE queue[s]]

\* Mutant: the SSE queues are filled before the sends, and after them again.
BeginPutsToo(c) ==
    /\ cast[c] = Idle
    /\ casts[c] < MaxCasts[c]
    /\ casts' = [casts EXCEPT ![c] = @ + 1]
    /\ PutAll(<<c, casts'[c]>>)
    /\ IF sockets = <<>> THEN UNCHANGED cast
       ELSE cast' = [cast EXCEPT ![c] = [n |-> casts'[c], to |-> sockets, back |-> {}, failed |-> {}]]
    /\ UNCHANGED <<pc, gone, places, sockets, queues, read>>

\* One send_text() per subscriber of this moment is started.  Without any,
\* there is no await, and the SSE queues are filled at once.
Begin(c) ==
    /\ cast[c] = Idle
    /\ casts[c] < MaxCasts[c]
    /\ casts' = [casts EXCEPT ![c] = @ + 1]
    /\ \/ /\ sockets = <<>>
          /\ PutAll(<<c, casts'[c]>>)
          /\ UNCHANGED cast
       \/ /\ sockets # <<>>
          /\ cast' = [cast EXCEPT ![c] =
                         [n |-> casts'[c], to |-> sockets, back |-> {}, failed |-> {}]]
          /\ UNCHANGED queue
    /\ UNCHANGED <<pc, gone, places, sockets, queues, read>>

\* One of the sends returns; it raises only if the viewer is gone.
SendReturns(c, v) ==
    /\ v \in ToSet(cast[c].to) \ cast[c].back
    /\ \E raised \in {{}, {v} \cap gone} :
           cast' = [cast EXCEPT ![c] = [n |-> cast[c].n, to |-> cast[c].to,
                                        back |-> cast[c].back \cup {v},
                                        failed |-> cast[c].failed \cup raised]]
    /\ UNCHANGED <<pc, gone, viewerVars, streamVars, casts>>

\* zip(subs.websockets, results): the results are those of the subscribers
\* there were when the sends began, the sockets those there are now.
Blamed(c) ==
    LET to == cast[c].to IN
    {sockets[i] : i \in {i \in DOMAIN sockets \cap DOMAIN to : to[i] \in cast[c].failed}}

AllReturned(c) == cast[c] # Idle /\ cast[c].back = ToSet(cast[c].to)

\* Mutant: the subscribers become those of the beginning, less the dead.
SettleResurrects(c) ==
    /\ AllReturned(c)
    /\ sockets' \in SetToSeqs(ToSet(cast[c].to) \ cast[c].failed)
    /\ PutAll(<<c, cast[c].n>>)
    /\ cast' = [cast EXCEPT ![c] = Idle]
    /\ UNCHANGED <<pc, gone, places, queues, read, casts>>

\* Mutant: the first result that is an exception is taken for everybody's.
SettleBlamesAll(c) ==
    /\ AllReturned(c)
    /\ sockets' = IF Blamed(c) = {} THEN sockets ELSE <<>>
    /\ PutAll(<<c, cast[c].n>>)
    /\ cast' = [cast EXCEPT ![c] = Idle]
    /\ UNCHANGED <<pc, gone, places, queues, read, casts>>

\* gather() returned: the blamed are dropped, then the SSE queues are filled.
Settle(c) ==
    /\ AllReturned(c)
    /\ IF Blamed(c) = {} THEN UNCHANGED sockets
       ELSE sockets' \in SetToSeqs(ToSet(sockets) \ Blamed(c))
    /\ PutAll(<<c, cast[c].n>>)
    /\ cast' = [cast EXCEPT ![c] = Idle]
    /\ UNCHANGED <<pc, gone, places, queues, read, casts>>

-----------------------------------------------------------------------------
ViewerStep(v) == Acquire(v) \/ AcceptFails(v) \/ Subscribe(v) \/ Greet(v) \/ Leave(v)
StreamStep(s) == SubscribeSse(s) \/ StartStream(s) \/ PullStream(s) \/ EndStream(s)

Next ==
    \/ \E v \in Viewers : ViewerStep(v)
    \/ \E s \in Streams : StreamStep(s)
    \/ \E x \in Clients : Depart(x)
    \/ \E c \in Callers : Begin(c) \/ Settle(c)
    \/ \E c \in Callers, v \in Viewers : SendReturns(c, v)

Spec == Init /\ [][Next]_vars

-----------------------------------------------------------------------------
(* Properties                                                              *)

\* A broadcast drops exactly the viewers it failed to reach, unless somebody
\* came or went while it was waiting for them.
DropsTheFailed ==
    [][\A c \in Callers :
          cast[c] # Idle /\ cast'[c] = Idle /\ sockets = cast[c].to
              => ToSet(sockets') = ToSet(sockets) \ cast[c].failed]_vars

\* Only viewers whose handler runs are subscribed: none comes back through a
\* broadcast that was under way when its handler unsubscribed it.
NoGhostViewers == \A v \in ToSet(sockets) : pc[v] \in {"connecting", "open"}

\* The limiter counts the handlers of the address that run, also those whose
\* viewer a broadcast has dropped, and besides them only the handlers that
\* accept() ended, whose places stay taken until the server restarts; together
\* they are never too many.
PlacesAreExact ==
    /\ places = Cardinality({v \in Viewers :
                                pc[v] \in {"admitted", "connecting", "open", "unaccepted"}})
    /\ places <= MaxPerIp

\* What one task broadcasts reaches an SSE client in order and at most once,
\* though the queues are filled after an await: captions, which all come from
\* the receive task of a session, keep the order of their sequence numbers.
SseKeepsOrder ==
    \A s \in Streams : \A i \in DOMAIN queue[s] :
        LET msg == queue[s][i] IN
        /\ read[s][msg[1]] < msg[2]
        /\ \A j \in 1..i - 1 : queue[s][j][1] = msg[1] => queue[s][j][2] < msg[2]

-----------------------------------------------------------------------------
(* A property the code's documentation states, which the code violates     *)

\* distribution.py: a message goes to all subscribers of a venue; a viewer
\* whose connection is open and well is one.
HealthyStaySubscribed ==
    \A v \in Viewers : pc[v] = "open" /\ v \notin gone => v \in ToSet(sockets)
=============================================================================
