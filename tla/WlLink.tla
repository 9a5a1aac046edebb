------------------------------ MODULE WlLink ------------------------------
(***************************************************************************)
(* What TranscriptionManager relies on in one session's link to            *)
(* WhisperLive, and all that SessionLifecycle knows of it: while a task of *)
(* the session runs, the link may come up and go down, each change being   *)
(* told through on_state_change; end_session waits for the send task, then *)
(* for the receive task, then closes the link, after which nothing brings  *)
(* it up again.                                                            *)
(***************************************************************************)

VARIABLES
    loops,     \* tasks that end_session has not yet seen the end of
    wlReady,   \* VenueSession.wl_ready
    told,      \* the last venue_live / venue_offline of this session
    stopped    \* the stop event is set and the session out of the dictionary

vars == <<loops, wlReady, told, stopped>>

Init ==
    /\ loops = {"send", "recv"}
    /\ wlReady = FALSE
    /\ told = FALSE
    /\ stopped = FALSE

\* Subscribers are told of a change of the link unless the session is over.
Tell(ready) ==
    /\ wlReady' = ready
    /\ told' = IF stopped THEN told ELSE ready

Up ==
    /\ loops # {}
    /\ ~wlReady
    /\ Tell(TRUE)
    /\ UNCHANGED <<loops, stopped>>

Down ==
    /\ loops # {}
    /\ wlReady
    /\ Tell(FALSE)
    /\ UNCHANGED <<loops, stopped>>

Stop ==
    /\ ~stopped
    /\ stopped' = TRUE
    /\ UNCHANGED <<loops, wlReady, told>>

StopSend ==
    /\ stopped
    /\ loops = {"send", "recv"}
    /\ loops' = {"recv"}
    /\ UNCHANGED <<wlReady, told, stopped>>

StopRecv ==
    /\ stopped
    /\ loops = {"recv"}
    /\ loops' = {}
    /\ UNCHANGED <<wlReady, told, stopped>>

CloseWl ==
    /\ stopped
    /\ loops = {}
    /\ wlReady' \in {FALSE, wlReady}
    /\ UNCHANGED <<loops, told, stopped>>

Next == Up \/ Down \/ Stop \/ StopSend \/ StopRecv \/ CloseWl

Spec == Init /\ [][Next]_vars
=============================================================================
