--------------------------- MODULE CaptureClient ---------------------------
(***************************************************************************)
(* The Pi's capture client (raspberry-pi/capture_client.py): run_capture   *)
(* with AudioCapture, which owns an arecord process, and CaptionClient,    *)
(* which owns the WebSocket to the ingest endpoint.  One task, so its      *)
(* state is the await it is at; the device, the process, the network, the  *)
(* server and the signals of the user act between its steps.               *)
(*                                                                         *)
(* How long the client waits (1 s, doubled up to 15 s) is left out.        *)
(***************************************************************************)
EXTENDS Naturals

VARIABLES
    pc,         \* the await run_capture is at
    proc,       \* audio.proc: "none", or its process "running", "wedged" (no
                \* more data) or "exited"
    ws,         \* client.ws: "none", "open", "dead" (the peer is gone)
    strays,     \* processes and sockets that are open and nobody refers to
    stopping,   \* stop_event
    forced,     \* sys.exit has cancelled the task
    calm        \* ghost: nothing outside fails any more

vars == <<pc, proc, ws, strays, stopping, forced, calm>>
outside == <<stopping, forced, calm>>

\* Where the task has nothing open, and where the finally clause covers it.
Idle == {"outer", "retryAudio", "pause", "done"}
Covered == {"dial", "greeting", "read", "send"}

Init ==
    /\ pc = "outer" /\ proc = "none" /\ ws = "none" /\ strays = {}
    /\ stopping = FALSE /\ forced = FALSE /\ calm = FALSE

Goto(place) == pc' = place
Fail == Goto("stopAudio")

-----------------------------------------------------------------------------
(* _wait_for_audio and AudioCapture.start                                  *)

\* The loop heads of run_capture and _wait_for_audio.  A process starts; only
\* one at a time can have the device.
StartAudio ==
    /\ pc \in {"outer", "retryAudio"} /\ ~stopping
    /\ \/ /\ "arecord" \notin strays
          /\ proc' = "running"
          /\ strays' = IF proc \in {"running", "wedged"} THEN strays \cup {"arecord"} ELSE strays
       \/ /\ ~calm \/ "arecord" \in strays
          /\ proc' = "exited"
          /\ UNCHANGED strays
    /\ Goto("opening")
    /\ UNCHANGED <<ws, outside>>

\* No device listed: start() raises before there is a process.
NoDevice ==
    /\ pc \in {"outer", "retryAudio"} /\ ~stopping /\ ~calm
    /\ Goto("retryAudio")
    /\ UNCHANGED <<proc, ws, strays, outside>>

\* After 0.15 s.  stop_event is not looked at again before the connection.
Opened ==
    /\ pc = "opening"
    /\ IF proc = "exited" THEN proc' = "none" /\ Goto("retryAudio")
                          ELSE proc' = proc /\ Goto("dial")
    /\ UNCHANGED <<ws, strays, outside>>

Leave ==
    /\ pc \in {"outer", "retryAudio", "pause"} /\ stopping
    /\ Goto("done")
    /\ UNCHANGED <<proc, ws, strays, outside>>

-----------------------------------------------------------------------------
(* CaptionClient.connect and the streaming loop                            *)

Connect ==
    /\ pc = "dial"
    /\ \/ /\ ws' = "open" /\ Goto("greeting")
          /\ strays' = IF ws = "open" THEN strays \cup {"socket"} ELSE strays
       \/ /\ ~calm /\ Fail
          /\ UNCHANGED <<ws, strays>>
    /\ UNCHANGED <<proc, outside>>

\* session_started, or something else, or the connection is closed.
Greeted ==
    /\ pc = "greeting"
    /\ \/ ws = "open" /\ Goto(IF stopping THEN "stopAudio" ELSE "read")
       \/ ws = "open" /\ ~calm /\ Fail
       \/ ws = "dead" /\ Fail
    /\ UNCHANGED <<proc, ws, strays, outside>>

\* A whole chunk; EOFError when the process is gone; TimeoutError after
\* READ_TIMEOUT_S without data.
ReadAudio ==
    /\ pc = "read"
    /\ Goto(IF proc = "running" THEN "send" ELSE "stopAudio")
    /\ UNCHANGED <<proc, ws, strays, outside>>

\* Mutant: the loop does not look at stop_event.
SendAudioOn ==
    /\ pc = "send"
    /\ Goto(IF ws = "dead" THEN "stopAudio" ELSE "read")
    /\ UNCHANGED <<proc, ws, strays, outside>>

SendAudio ==
    /\ pc = "send"
    /\ Goto(IF ws = "dead" \/ stopping THEN "stopAudio" ELSE "read")
    /\ UNCHANGED <<proc, ws, strays, outside>>

\* Mutant: a process that still runs is forgotten, not terminated.
ForgetAudio ==
    /\ pc = "stopAudio"
    /\ proc' = "none" /\ Goto("closeWs")
    /\ strays' = IF proc \in {"running", "wedged"} THEN strays \cup {"arecord"} ELSE strays
    /\ UNCHANGED <<ws, outside>>

\* AudioCapture.stop: terminate, and kill after 2 s.
StopAudio ==
    /\ pc = "stopAudio"
    /\ proc' = "none" /\ Goto("closeWs")
    /\ UNCHANGED <<ws, strays, outside>>

\* Mutant: a connection that failed is not closed.
KeepWs ==
    /\ pc = "closeWs"
    /\ ws' = (IF ws = "dead" THEN "none" ELSE ws)
    /\ Goto(IF forced THEN "done" ELSE IF stopping THEN "outer" ELSE "pause")
    /\ UNCHANGED <<proc, strays, outside>>

\* close() gives up waiting for the peer after 5 s.
CloseWs ==
    /\ pc = "closeWs"
    /\ ws' = "none"
    /\ Goto(IF forced THEN "done" ELSE IF stopping THEN "outer" ELSE "pause")
    /\ UNCHANGED <<proc, strays, outside>>

\* The time of the backoff is over.
Reconnect ==
    /\ pc = "pause"
    /\ Goto("outer")
    /\ UNCHANGED <<proc, ws, strays, outside>>

-----------------------------------------------------------------------------
(* The world                                                               *)

\* The microphone or its process fails; the network or the server closes the
\* connection, which the pings notice if nothing else does.
AudioFails ==
    /\ ~calm /\ proc \in {"running", "wedged"}
    /\ \/ proc = "running" /\ proc' = "wedged"
       \/ proc' = "exited"
    /\ UNCHANGED <<pc, ws, strays, outside>>

ConnectionFails ==
    /\ ~calm /\ ws = "open"
    /\ ws' = "dead"
    /\ UNCHANGED <<pc, proc, strays, outside>>

\* request_stop: SIGINT, SIGTERM, end of stdin.
RequestStop ==
    /\ ~stopping /\ pc # "done"
    /\ stopping' = TRUE
    /\ UNCHANGED <<pc, proc, ws, strays, forced, calm>>

\* A second request: the task is cancelled.  What it has not released by then
\* goes with the program unless the finally clause has yet to run.
ForceExit ==
    /\ stopping /\ pc # "done"
    /\ forced' = TRUE
    /\ IF pc \in Covered THEN Fail /\ UNCHANGED <<proc, ws, strays>>
                         ELSE Goto("done") /\ proc' = "none" /\ ws' = "none" /\ strays' = {}
    /\ UNCHANGED <<stopping, calm>>

CalmDown ==
    /\ ~calm /\ calm' = TRUE
    /\ UNCHANGED <<pc, proc, ws, strays, stopping, forced>>

Step ==
    \/ StartAudio \/ NoDevice \/ Opened \/ Leave
    \/ Connect \/ Greeted \/ ReadAudio \/ SendAudio
    \/ StopAudio \/ CloseWs \/ Reconnect

Next == Step \/ AudioFails \/ ConnectionFails \/ RequestStop \/ ForceExit \/ CalmDown

\* Each await of the task ends: all but the one for the greeting are bounded
\* by a timeout or by the pings, and the server greets or closes.
Spec == Init /\ [][Next]_vars /\ WF_vars(Step)

-----------------------------------------------------------------------------
\* Between two attempts, and at the end, nothing of the last attempt is left,
\* whichever of its steps failed: a process left behind keeps the device, and
\* a connection left behind keeps a session of the venue alive.
NothingLeftOpen ==
    /\ strays = {}
    /\ pc \in Idle => proc = "none" /\ ws = "none"

\* Once device, network and server are well, audio flows again and again,
\* unless the client is asked to stop.
StreamsAgain == (<>calm) => []<>(pc = "send" \/ stopping)

\* A client that is asked to stop comes to its end, even if everything else
\* goes on failing.
StopCompletes == stopping ~> pc = "done"
=============================================================================
