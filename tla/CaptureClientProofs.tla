----------------------- MODULE CaptureClientProofs -----------------------
(***************************************************************************)
(* The capture client leaves nothing open, whatever fails and whenever.    *)
(***************************************************************************)
EXTENDS CaptureClient, TLAPS

CaptureTypeOK ==
    /\ pc \in Idle \cup Covered \cup {"opening", "stopAudio", "closeWs"}
    /\ proc \in {"none", "running", "wedged", "exited"}
    /\ ws \in {"none", "open", "dead"}
    /\ stopping \in BOOLEAN /\ forced \in BOOLEAN /\ calm \in BOOLEAN

\* What each stretch of run_capture may hold: a process from its start to
\* AudioCapture.stop, a socket from the connection to CaptionClient.close.
HeldInv ==
    /\ pc \in {"opening", "dial"} => ws = "none"
    /\ pc = "closeWs" => proc = "none"

CaptureInv == CaptureTypeOK /\ HeldInv /\ NothingLeftOpen

LEMMA InitCapture ==
    ASSUME Init
    PROVE  CaptureInv
BY DEF Init, CaptureInv, CaptureTypeOK, HeldInv, NothingLeftOpen, Idle, Covered

LEMMA CaptureKept ==
    ASSUME CaptureInv, [Next]_vars
    PROVE  CaptureInv'
<1> USE DEF CaptureInv, CaptureTypeOK, HeldInv, NothingLeftOpen, Idle, Covered, Goto, Fail, outside
<1>1. CASE StartAudio
  BY <1>1 DEF StartAudio
<1>2. CASE NoDevice
  BY <1>2 DEF NoDevice
<1>3. CASE Opened
  BY <1>3 DEF Opened
<1>4. CASE Leave
  BY <1>4 DEF Leave
<1>5. CASE Connect
  BY <1>5 DEF Connect
<1>6. CASE Greeted
  BY <1>6 DEF Greeted
<1>7. CASE ReadAudio
  BY <1>7 DEF ReadAudio
<1>8. CASE SendAudio
  BY <1>8 DEF SendAudio
<1>9. CASE StopAudio
  BY <1>9 DEF StopAudio
<1>10. CASE CloseWs
  BY <1>10 DEF CloseWs
<1>11. CASE Reconnect
  BY <1>11 DEF Reconnect
<1>12. CASE AudioFails \/ ConnectionFails
  BY <1>12 DEF AudioFails, ConnectionFails
<1>13. CASE RequestStop \/ CalmDown
  BY <1>13 DEF RequestStop, CalmDown
<1>14. CASE ForceExit
  BY <1>14 DEF ForceExit
<1>15. CASE UNCHANGED vars
  BY <1>15 DEF vars
<1>16. QED
  BY <1>1, <1>2, <1>3, <1>4, <1>5, <1>6, <1>7, <1>8, <1>9, <1>10, <1>11, <1>12, <1>13,
     <1>14, <1>15 DEF Next, Step

\* Between two attempts, and at the end, no process and no connection is left.
THEOREM NothingIsLeftOpen == Spec => []NothingLeftOpen
<1>1. Init => CaptureInv
  BY InitCapture
<1>2. CaptureInv /\ [Next]_vars => CaptureInv'
  BY CaptureKept
<1>3. CaptureInv => NothingLeftOpen
  BY DEF CaptureInv
<1>4. QED
  BY <1>1, <1>2, <1>3, PTL DEF Spec
=============================================================================
