------------------------ MODULE WLConnectionProofs ------------------------
(***************************************************************************)
(* The safety of WLConnection for any sockets and any order of its tasks,  *)
(* and that it implements WlLink.                                          *)
(***************************************************************************)
EXTENDS WLConnection, TLAPS

-----------------------------------------------------------------------------
(* The invariant                                                           *)

Places == {"top", "waitLock", "connecting", "handshake", "backoff", "use",
           "drop", "closing", "rest", "exited"}
Stages == {"run", "stopSend", "stopRecv", "closeWl", "closed"}

WLTypeOK ==
    /\ ws \in Conns \cup {NoConn}
    /\ lock \in Tasks \cup {"free"}
    /\ pc \in [Tasks -> Places]
    /\ local \in [Tasks -> Conns \cup {NoConn}]
    /\ after \in [Tasks -> {"top", "rest"}]
    /\ conn \in [Conns -> {"none", "up", "shut"}]
    /\ wlReady \in BOOLEAN /\ told \in BOOLEAN
    /\ stage \in Stages
    /\ cut \subseteq Conns

\* Who is in the middle of connecting or closing has the lock, and while
\* somebody has it there is no current socket.
LockInv ==
    /\ \A t \in Tasks :
           lock = t <=> pc[t] \in {"connecting", "handshake", "backoff", "closing"}
    /\ lock # "free" => ws = NoConn

\* The socket a task has in hand is one, and while it is being greeted or
\* closed it is established; so is the current one.
HandInv ==
    /\ \A t \in Tasks : pc[t] \in {"handshake", "use", "drop", "closing"} => local[t] \in Conns
    /\ \A t \in Tasks : pc[t] \in {"handshake", "closing"} => conn[local[t]] # "none"
    /\ ws # NoConn => conn[ws] # "none"

\* Every established socket has somebody who will close it, but for the one
\* whose handshake was cancelled, after which no other handshake takes place.
Owned(c) == c = ws \/ \E t \in Tasks : pc[t] \in {"handshake", "closing"} /\ local[t] = c
OwnerInv ==
    /\ \A c \in Conns : conn[c] # "none" => Owned(c) \/ c \in cut
    /\ cut # {} => Stopped /\ \A t \in Tasks : pc[t] \notin {"connecting", "handshake"}
    /\ \A c, d \in cut : c = d

\* end_session goes on only when the task it waits for has ended, and is
\* through only when there is no current socket.
StageInv ==
    /\ stage \in {"stopRecv", "closeWl", "closed"} => pc["send"] = "exited"
    /\ stage \in {"closeWl", "closed"} => pc["recv"] = "exited"
    /\ stage = "closed" => ws = NoConn

WLInv == WLTypeOK /\ LockInv /\ HandInv /\ OwnerInv /\ StageInv /\ ReadyMatchesSocket

-----------------------------------------------------------------------------
(* It is inductive                                                         *)

LEMMA InitWLInv ==
    ASSUME Init
    PROVE  WLInv
BY ConnsAssumption DEF Init, WLInv, WLTypeOK, Places, Stages, LockInv, HandInv, OwnerInv,
   StageInv, ReadyMatchesSocket, Stopped, Tasks

\* Taking the lock, or the socket that is there.
LEMMA TopStep ==
    ASSUME WLInv, NEW t \in Tasks, Top(t) \/ GetLock(t)
    PROVE  WLInv'
BY ConnsAssumption DEF Top, GetLock, EnsureLocked, Goto, WLInv, WLTypeOK, Places, LockInv,
   HandInv, OwnerInv, Owned, StageInv, ReadyMatchesSocket, Stopped, Tasks, Stages

LEMMA ConnectStep ==
    ASSUME WLInv, NEW t \in Tasks, Connect(t)
    PROVE  WLInv'
BY ConnsAssumption DEF Connect, Goto, Unfired, WLInv, WLTypeOK, Places, LockInv,
   HandInv, OwnerInv, Owned, StageInv, ReadyMatchesSocket, Stopped, Tasks, Stages

\* The greeted socket, which its task alone has owned, becomes current.
LEMMA HandshakeDoneStep ==
    ASSUME WLInv, NEW t \in Tasks, HandshakeDone(t)
    PROVE  WLInv'
<1>1. /\ pc[t] = "handshake" /\ pc' = [pc EXCEPT ![t] = "use"]
      /\ lock = t /\ lock' = "free" /\ ws = NoConn /\ ws' = local[t]
      /\ local[t] \in Conns /\ conn[local[t]] # "none"
      /\ UNCHANGED <<local, after, stage, cut>>
      /\ wlReady' = TRUE /\ told' = IF Stopped THEN told ELSE TRUE
  BY DEF WLInv, WLTypeOK, LockInv, HandInv, HandshakeDone, Goto, Fire, Tasks
<1>2. /\ conn' \in [Conns -> {"none", "up", "shut"}]
      /\ \A c \in Conns : conn'[c] # "none" <=> conn[c] # "none"
  BY <1>1 DEF WLInv, WLTypeOK, HandshakeDone
<1>3. \A u \in Tasks : u # t => pc[u] \notin {"connecting", "handshake", "backoff", "closing"}
  BY <1>1 DEF WLInv, LockInv
<1>4. WLTypeOK'
  BY <1>1, <1>2 DEF WLInv, WLTypeOK, Places
<1>5. LockInv'
  BY <1>1, <1>3 DEF WLInv, WLTypeOK, LockInv, Tasks
<1>6. HandInv'
  BY <1>1, <1>2, <1>3, ConnsAssumption DEF WLInv, WLTypeOK, HandInv
<1>7. OwnerInv'
  BY <1>1, <1>2, <1>3, ConnsAssumption DEF WLInv, WLTypeOK, OwnerInv, Owned, Stopped
<1>8. StageInv'
  BY <1>1 DEF WLInv, WLTypeOK, StageInv, Tasks
<1>9. ReadyMatchesSocket'
  BY <1>1, ConnsAssumption DEF WLInv, ReadyMatchesSocket, Stopped
<1>10. QED
  BY <1>4, <1>5, <1>6, <1>7, <1>8, <1>9 DEF WLInv

LEMMA HandshakeFailStep ==
    ASSUME WLInv, NEW t \in Tasks, HandshakeFail(t) \/ BackoffOver(t)
    PROVE  WLInv'
BY ConnsAssumption DEF HandshakeFail, BackoffOver, Goto, Unfired, WLInv, WLTypeOK, Places,
   LockInv, HandInv, OwnerInv, Owned, StageInv, ReadyMatchesSocket, Stopped, Tasks, Stages

\* Using the socket, and resting after an error.
LEMMA UseStep ==
    ASSUME WLInv,
           \/ SendFails \/ Age \/ Expire \/ SendEnds \/ RecvEnds \/ RecvRaises
           \/ \E t \in Tasks : RestOver(t)
    PROVE  WLInv'
BY ConnsAssumption DEF SendFails, Age, Expire, SendEnds, RecvEnds, RecvRaises, RestOver, GiveUp,
   Goto, Unfired, WLInv, WLTypeOK, Places, LockInv, HandInv, OwnerInv, Owned, StageInv,
   ReadyMatchesSocket, Stopped, Tasks, Stages

\* The current socket is let go: from now on its task owns it.
LEMMA DropStep ==
    ASSUME WLInv, NEW t \in Tasks, Drop(t)
    PROVE  WLInv'
<1>1. /\ pc[t] = "drop" /\ lock = "free" /\ local[t] \in Conns
      /\ UNCHANGED <<after, conn, stage, wlReady, told, cut>>
      /\ after[t] \in {"top", "rest"}
      /\ \A u \in Tasks : pc[u] \notin {"connecting", "handshake", "backoff", "closing"}
  BY DEF WLInv, WLTypeOK, LockInv, HandInv, Drop, Unfired, Tasks
<1>2. CASE ws = local[t]
  <2>1. /\ ws' = NoConn /\ lock' = t /\ local' = local
        /\ pc' = [pc EXCEPT ![t] = "closing"]
        /\ ws \in Conns /\ conn[ws] # "none"
    BY <1>1, <1>2, ConnsAssumption DEF Drop, Goto, WLInv, HandInv
  <2>2. WLTypeOK' /\ LockInv' /\ StageInv'
    BY <1>1, <2>1 DEF WLInv, WLTypeOK, Places, LockInv, StageInv, Tasks
  <2>3. HandInv'
    BY <1>1, <1>2, <2>1 DEF WLInv, WLTypeOK, HandInv
  <2>4. OwnerInv'
    BY <1>1, <1>2, <2>1 DEF WLInv, WLTypeOK, OwnerInv, Owned, Stopped
  <2>5. ReadyMatchesSocket'
    BY <1>1, <2>1, ConnsAssumption DEF WLInv, WLTypeOK, ReadyMatchesSocket, Stopped
  <2>6. QED
    BY <2>2, <2>3, <2>4, <2>5 DEF WLInv
<1>3. CASE ws # local[t]
  <2>1. /\ UNCHANGED <<ws, lock>>
        /\ local' = [local EXCEPT ![t] = NoConn]
        /\ pc' = [pc EXCEPT ![t] = after[t]]
    BY <1>3 DEF Drop, Goto
  <2>2. WLTypeOK' /\ LockInv' /\ StageInv'
    BY <1>1, <2>1 DEF WLInv, WLTypeOK, Places, LockInv, StageInv, Tasks
  <2>3. HandInv'
    BY <1>1, <2>1 DEF WLInv, WLTypeOK, HandInv
  <2>4. OwnerInv' /\ ReadyMatchesSocket'
    BY <1>1, <2>1 DEF WLInv, WLTypeOK, OwnerInv, Owned, ReadyMatchesSocket, Stopped
  <2>5. QED
    BY <2>2, <2>3, <2>4 DEF WLInv
<1>4. QED
  BY <1>2, <1>3

LEMMA DroppedStep ==
    ASSUME WLInv, NEW t \in Tasks, Dropped(t)
    PROVE  WLInv'
<1>1. /\ pc[t] = "closing" /\ lock = t /\ lock' = "free" /\ ws = NoConn
      /\ local[t] \in Conns /\ after[t] \in {"top", "rest"}
      /\ UNCHANGED <<ws, after, stage, cut>>
      /\ conn' = [conn EXCEPT ![local[t]] = "none"]
      /\ local' = [local EXCEPT ![t] = NoConn]
      /\ pc' = [pc EXCEPT ![t] = after[t]]
      /\ wlReady' = FALSE /\ told' = IF Stopped THEN told ELSE FALSE
  BY DEF WLInv, WLTypeOK, LockInv, HandInv, Dropped, Goto, Fire, Tasks
<1>2. \A u \in Tasks : u # t => pc[u] \notin {"connecting", "handshake", "backoff", "closing"}
  BY <1>1 DEF WLInv, LockInv
<1>3. WLTypeOK'
  BY <1>1 DEF WLInv, WLTypeOK, Places
<1>4. LockInv' /\ StageInv'
  BY <1>1, <1>2 DEF WLInv, WLTypeOK, LockInv, StageInv, Tasks
<1>5. HandInv'
  BY <1>1, <1>2 DEF WLInv, WLTypeOK, HandInv
<1>6. OwnerInv'
  BY <1>1, <1>2, ConnsAssumption DEF WLInv, WLTypeOK, OwnerInv, Owned, Stopped
<1>7. ReadyMatchesSocket'
  BY <1>1, <1>2, ConnsAssumption DEF WLInv, WLTypeOK, ReadyMatchesSocket, Stopped
<1>8. QED
  BY <1>3, <1>4, <1>5, <1>6, <1>7 DEF WLInv

LEMMA StopStep ==
    ASSUME WLInv, Stop
    PROVE  WLInv'
BY DEF Stop, Unfired, WLInv, WLTypeOK, LockInv, HandInv, OwnerInv, Owned, StageInv,
   ReadyMatchesSocket, Stopped, Stages

\* A task that is waited for returned, or is cancelled wherever it is.
LEMMA AwaitStep ==
    ASSUME WLInv, NEW t \in Tasks, NEW here, NEW next,
           \/ t = "send" /\ here = "stopSend" /\ next = "stopRecv"
           \/ t = "recv" /\ here = "stopRecv" /\ next = "closeWl",
           AwaitTask(t, here, next)
    PROVE  WLInv'
<1>1. /\ stage = here /\ stage' = next
      /\ here \in {"stopSend", "stopRecv"} /\ next \in {"stopRecv", "closeWl"}
      /\ UNCHANGED <<ws, local, after, wlReady, told>>
      /\ pc' = [pc EXCEPT ![t] = "exited"]
  BY DEF AwaitTask, Goto, Unfired, WLInv, WLTypeOK
<1>2. /\ conn' = IF pc[t] = "closing" THEN [conn EXCEPT ![local[t]] = "none"] ELSE conn
      /\ lock' = IF lock = t THEN "free" ELSE lock
      /\ cut' = IF pc[t] = "handshake" THEN cut \cup {local[t]} ELSE cut
  BY DEF AwaitTask, Cancel, WLInv, LockInv
<1>3. WLTypeOK'
  <2>1. pc[t] = "handshake" => local[t] \in Conns
    BY DEF WLInv, HandInv, Tasks
  <2>2. cut' \subseteq Conns
    BY <1>2, <2>1 DEF WLInv, WLTypeOK
  <2>3. QED
    BY <1>1, <1>2, <2>2 DEF WLInv, WLTypeOK, Places, Stages
<1>4. LockInv'
  BY <1>1, <1>2 DEF WLInv, WLTypeOK, LockInv, Tasks
<1>5. HandInv'
  BY <1>1, <1>2 DEF WLInv, WLTypeOK, HandInv, LockInv, Tasks
<1>6. OwnerInv'
  <2>1. /\ t \in Tasks /\ Stopped /\ Stopped'
        /\ pc \in [Tasks -> Places] /\ conn \in [Conns -> {"none", "up", "shut"}]
    BY <1>1 DEF WLInv, WLTypeOK, Stopped, Tasks
  <2>2. CASE pc[t] = "handshake"
    <3>1. cut = {} /\ cut' = {local[t]} /\ conn' = conn
      BY <1>2, <2>1, <2>2 DEF WLInv, OwnerInv
    <3>2. \A u \in Tasks : pc'[u] \notin {"connecting", "handshake"}
      BY <1>1, <2>1, <2>2 DEF WLInv, LockInv
    <3>3. \A c \in Conns : conn[c] # "none" => c = ws \/ c = local[t]
                              \/ \E u \in Tasks : u # t /\ pc[u] \in {"handshake", "closing"} /\ local[u] = c
      BY <3>1 DEF WLInv, OwnerInv, Owned
    <3>4. \A c \in Conns : conn'[c] # "none" => Owned(c)' \/ c \in cut'
      BY <1>1, <2>1, <3>1, <3>3 DEF Owned
    <3>5. QED
      BY <2>1, <3>1, <3>2, <3>4 DEF OwnerInv
  <2>3. CASE pc[t] # "handshake"
    <3>1. cut' = cut
      BY <1>2, <2>3
    <3>2. \A c \in Conns : conn'[c] # "none" => Owned(c)' \/ c \in cut'
      BY <1>1, <1>2, <2>1, <2>3, <3>1 DEF WLInv, OwnerInv, Owned
    <3>3. cut # {} => \A u \in Tasks : pc'[u] \notin {"connecting", "handshake"}
      BY <1>1, <2>1 DEF WLInv, OwnerInv
    <3>4. QED
      BY <2>1, <3>1, <3>2, <3>3 DEF WLInv, OwnerInv
  <2>4. QED
    BY <2>2, <2>3
<1>7. StageInv'
  BY <1>1 DEF WLInv, WLTypeOK, StageInv, Tasks
<1>8. ReadyMatchesSocket'
  BY <1>1 DEF ReadyMatchesSocket, Stopped
<1>9. QED
  BY <1>3, <1>4, <1>5, <1>6, <1>7, <1>8 DEF WLInv

LEMMA CloseStep ==
    ASSUME WLInv, Close
    PROVE  WLInv'
<1>1. /\ stage = "closeWl" /\ stage' = "closed" /\ lock = "free" /\ ws' = NoConn
      /\ \A t \in Tasks : pc[t] = "exited"
      /\ UNCHANGED <<lock, pc, local, after, cut>>
  BY DEF Close, WLInv, StageInv, Tasks
<1>2. /\ conn' = IF ws = NoConn THEN conn ELSE [conn EXCEPT ![ws] = "none"]
      /\ wlReady' \in BOOLEAN /\ told' \in BOOLEAN
  BY DEF Close, Fire, Unfired, WLInv, WLTypeOK
<1>3. WLTypeOK' /\ LockInv' /\ HandInv'
  BY <1>1, <1>2 DEF WLInv, WLTypeOK, Stages, LockInv, HandInv
<1>4. OwnerInv'
  BY <1>1, <1>2, ConnsAssumption DEF WLInv, WLTypeOK, OwnerInv, Owned, Stopped
<1>5. StageInv' /\ ReadyMatchesSocket'
  BY <1>1 DEF StageInv, ReadyMatchesSocket, Stopped, Tasks
<1>6. QED
  BY <1>3, <1>4, <1>5 DEF WLInv

LEMMA OutsideStep ==
    ASSUME WLInv, Calm \/ (\E c \in Conns : Shut(c)) \/ UNCHANGED vars
    PROVE  WLInv'
BY DEF Calm, Shut, vars, Unfired, WLInv, WLTypeOK, LockInv, HandInv, OwnerInv, Owned,
   StageInv, ReadyMatchesSocket, Stopped

LEMMA NextWLInv ==
    ASSUME WLInv, [Next]_vars
    PROVE  WLInv'
<1>1. ASSUME NEW t \in Tasks, TaskStep(t)
      PROVE  WLInv'
  BY <1>1, TopStep, ConnectStep, HandshakeDoneStep, HandshakeFailStep, UseStep, DropStep,
     DroppedStep DEF TaskStep
<1>2. CASE EndStep
  <2>1. "send" \in Tasks /\ "recv" \in Tasks
    BY DEF Tasks
  <2>2. CASE AwaitSend
    BY <2>1, <2>2, AwaitStep DEF AwaitSend
  <2>3. CASE AwaitRecv
    BY <2>1, <2>3, AwaitStep DEF AwaitRecv
  <2>4. QED
    BY <1>2, <2>2, <2>3, CloseStep DEF EndStep
<1>3. QED
  BY <1>1, <1>2, UseStep, StopStep, OutsideStep DEF Next

THEOREM WLInvariant == Spec => []WLInv
<1>1. Init => WLInv
  BY InitWLInv
<1>2. WLInv /\ [Next]_vars => WLInv'
  BY NextWLInv
<1>3. QED
  BY <1>1, <1>2, PTL DEF Spec

-----------------------------------------------------------------------------
(* What follows                                                            *)

\* "owns a single WebSocket" (session.py): until the session is told to stop,
\* the two tasks never have more than one socket between them, however their
\* connects, drops and reconnects interleave.
THEOREM OneSocket == Spec => []SingleSocket
<1>1. WLInv => SingleSocket
  <2>1. SUFFICES ASSUME WLInv, ~Stopped,
                        NEW c \in Conns, NEW d \in Conns, conn[c] # "none", conn[d] # "none"
                 PROVE  c = d
    BY DEF SingleSocket
  <2>2. Owned(c) /\ Owned(d)
    BY <2>1 DEF WLInv, OwnerInv
  <2>3. CASE ws # NoConn
    <3>1. \A t \in Tasks : pc[t] \notin {"handshake", "closing"}
      BY <2>1, <2>3 DEF WLInv, LockInv, Tasks
    <3>2. QED
      BY <2>2, <3>1 DEF Owned
  <2>4. CASE ws = NoConn
    <3>1. \A t, u \in Tasks :
              pc[t] \in {"handshake", "closing"} /\ pc[u] \in {"handshake", "closing"} => t = u
      BY <2>1 DEF WLInv, LockInv
    <3>2. QED
      BY <2>2, <2>4, <3>1, ConnsAssumption DEF Owned
  <2>5. QED
    BY <2>3, <2>4
<1>2. QED
  BY <1>1, WLInvariant, PTL

\* wl_ready and the status viewers were told follow the socket
\* (transcription.py, _on_wl_state_change).
THEOREM ReadyFollowsSocket == Spec => []ReadyMatchesSocket
<1>1. WLInv => ReadyMatchesSocket
  BY DEF WLInv
<1>2. QED
  BY <1>1, WLInvariant, PTL

\* end_session leaves no held lock and no socket, wherever the tasks were when
\* they returned or were cancelled, but for one whose handshake it cut off.
THEOREM CleanEnd == Spec => []NothingLeftBehind
<1>1. WLInv => NothingLeftBehind
  <2>1. SUFFICES ASSUME WLInv, stage = "closed"
                 PROVE  /\ lock = "free"
                        /\ \A c \in Conns : conn[c] # "none" => c \in cut
                        /\ \A c, d \in cut : c = d
    BY DEF NothingLeftBehind
  <2>2. ws = NoConn /\ \A t \in Tasks : pc[t] = "exited"
    BY <2>1 DEF WLInv, StageInv, Tasks
  <2>3. lock = "free"
    BY <2>1, <2>2 DEF WLInv, WLTypeOK, LockInv
  <2>4. \A c \in Conns : ~Owned(c)
    BY <2>2, ConnsAssumption DEF Owned
  <2>5. QED
    BY <2>1, <2>3, <2>4 DEF WLInv, OwnerInv
<1>2. QED
  BY <1>1, WLInvariant, PTL

\* drop() of a socket that is no longer the current one leaves the current
\* one alone (session.py).
THEOREM LateDropsAreHarmless == Spec => DropsOnlyItsOwn
<1>1. ASSUME WLInv, [Next]_vars, NEW t \in Tasks,
             pc[t] = "drop", ws # NoConn, ws # local[t], pc'[t] # "drop"
      PROVE  ws' = ws
  <2>1. CASE UNCHANGED vars
    BY <2>1 DEF vars
  <2>2. ASSUME NEW u \in Tasks, TaskStep(u)
        PROVE  ws' = ws
    <3>1. CASE u = t
      BY <1>1, <2>2, <3>1 DEF TaskStep, Top, GetLock, Connect, HandshakeDone, HandshakeFail,
         BackoffOver, Drop, Dropped, RestOver, Expire, SendEnds, RecvEnds
    <3>2. CASE u # t
      <4>1. pc'[t] = pc[t]
        BY <1>1, <2>2, <3>2 DEF TaskStep, Top, GetLock, EnsureLocked, Connect, HandshakeDone,
           HandshakeFail, BackoffOver, Drop, Dropped, RestOver, Expire, SendEnds, RecvEnds,
           GiveUp, Goto, WLInv, WLTypeOK
      <4>2. QED
        BY <1>1, <4>1
    <3>3. QED
      BY <3>1, <3>2
  <2>3. CASE \/ Age \/ SendFails \/ RecvRaises \/ Stop \/ AwaitSend \/ AwaitRecv \/ Calm
             \/ \E c \in Conns : Shut(c)
    BY <2>3 DEF Age, SendFails, RecvRaises, Stop, AwaitSend, AwaitRecv, AwaitTask, Calm, Shut
  <2>4. CASE Close
    BY <1>1, <2>4 DEF Close
  <2>5. QED
    BY <1>1, <2>1, <2>2, <2>3, <2>4 DEF Next, EndStep
<1>2. WLInv /\ [Next]_vars =>
         [\A t \in Tasks : pc[t] = "drop" /\ ws # NoConn /\ ws # local[t] /\ pc'[t] # "drop"
             => ws' = ws]_vars
  BY <1>1
<1>3. QED
  BY <1>2, WLInvariant, PTL DEF Spec, DropsOnlyItsOwn

-----------------------------------------------------------------------------
(* It implements WlLink                                                    *)

\* The tasks that end_session has not yet seen the end of.
Loops == IF stage \in {"run", "stopSend"} THEN Tasks
         ELSE IF stage = "stopRecv" THEN {"recv"} ELSE {}

LEMMA LinkInit ==
    ASSUME Init
    PROVE  Link!Init
BY DEF Init, Link!Init, Stopped, Tasks

LEMMA LinkStutter ==
    ASSUME UNCHANGED <<stage, wlReady, told>>
    PROVE  UNCHANGED Link!vars
BY DEF Link!vars, Stopped

\* A task that may bring the link up or down has not been waited for.
LEMMA TaskInLoops ==
    ASSUME WLInv, NEW t \in Tasks, pc[t] # "exited"
    PROVE  Loops # {}
BY DEF WLInv, WLTypeOK, StageInv, Stages, Loops, Tasks

LEMMA LinkStep ==
    ASSUME WLInv, [Next]_vars
    PROVE  [Link!Next]_Link!vars
<1>1. CASE UNCHANGED vars
  BY <1>1, LinkStutter DEF vars
<1>2. ASSUME NEW t \in Tasks, HandshakeDone(t)
      PROVE  Link!Up \/ UNCHANGED Link!vars
  <2>1. /\ pc[t] = "handshake" /\ lock = t /\ ws = NoConn
        /\ stage' = stage
        /\ wlReady' = TRUE /\ told' = IF Stopped THEN told ELSE TRUE
    BY <1>2 DEF WLInv, LockInv, HandshakeDone, Fire, Tasks
  <2>2. ~Stopped => ~wlReady
    BY <2>1 DEF WLInv, WLTypeOK, LockInv, ReadyMatchesSocket
  <2>3. CASE wlReady
    BY <2>1, <2>2, <2>3 DEF WLInv, WLTypeOK, Link!vars, Stopped
  <2>4. CASE ~wlReady
    BY <2>1, <2>4, TaskInLoops DEF WLInv, WLTypeOK, Link!Up, Link!Tell, Stopped, Loops
  <2>5. QED
    BY <2>3, <2>4
<1>3. ASSUME NEW t \in Tasks, Dropped(t)
      PROVE  Link!Down \/ UNCHANGED Link!vars
  <2>1. /\ pc[t] = "closing"
        /\ stage' = stage
        /\ wlReady' = FALSE /\ told' = IF Stopped THEN told ELSE FALSE
    BY <1>3 DEF Dropped, Fire
  <2>2. ~Stopped => told = wlReady
    BY DEF WLInv, ReadyMatchesSocket
  <2>3. CASE wlReady
    BY <2>1, <2>3, TaskInLoops DEF WLInv, WLTypeOK, Link!Down, Link!Tell, Stopped, Loops
  <2>4. CASE ~wlReady
    BY <2>1, <2>2, <2>4 DEF WLInv, WLTypeOK, Link!vars, Stopped
  <2>5. QED
    BY <2>3, <2>4
<1>4. ASSUME NEW t \in Tasks, TaskStep(t), ~HandshakeDone(t), ~Dropped(t)
      PROVE  UNCHANGED Link!vars
  BY <1>4, LinkStutter DEF TaskStep, Top, GetLock, Connect, HandshakeFail, BackoffOver, Drop,
     RestOver, Expire, SendEnds, RecvEnds, Unfired
<1>5. CASE Age \/ SendFails \/ RecvRaises \/ Calm \/ \E c \in Conns : Shut(c)
  BY <1>5, LinkStutter DEF Age, SendFails, RecvRaises, Calm, Shut, Unfired
<1>6. CASE Stop
  BY <1>6 DEF Stop, Unfired, Link!Next, Link!Stop, Stopped
<1>7. CASE AwaitSend
  BY <1>7 DEF AwaitSend, AwaitTask, Unfired, Link!Next, Link!StopSend, Stopped, Tasks
<1>8. CASE AwaitRecv
  BY <1>8 DEF AwaitRecv, AwaitTask, Unfired, Link!Next, Link!StopRecv, Stopped
<1>9. CASE Close
  BY <1>9 DEF Close, Fire, Unfired, Link!Next, Link!CloseWl, Stopped
<1>10. QED
  BY <1>1, <1>2, <1>3, <1>4, <1>5, <1>6, <1>7, <1>8, <1>9 DEF Next, EndStep, Link!Next

\* SessionLifecycle relies on WlLink; the two tasks with their lock, socket and
\* cancellations implement it (session.py, transcription.py).
THEOREM LinkImplemented == Spec => ImplementsLink
<1>1. Init => Link!Init
  BY LinkInit
<1>2. WLInv /\ [Next]_vars => [Link!Next]_Link!vars
  BY LinkStep
<1>3. QED
  BY <1>1, <1>2, WLInvariant, PTL DEF Spec, ImplementsLink, Link!Spec
=============================================================================
