---------------------------- MODULE ViewerProofs ----------------------------
(***************************************************************************)
(* The safety of Viewer, for histories of any length and any number of     *)
(* captions, changes of the venue, lost connections and visits.            *)
(***************************************************************************)
EXTENDS Viewer, FiniteSetTheorems, FunctionTheorems, SequenceTheorems, TLAPS

-----------------------------------------------------------------------------
(* Types                                                                   *)

View == [live : BOOLEAN, enabled : BOOLEAN]

Msg ==
    [type : {"committed"}, n : Nat]
    \cup [type : {"tentative", "venue_live", "venue_offline", "session_end"}]
    \cup [type : {"transcription", "connected"}, enabled : BOOLEAN, live : BOOLEAN]

IsCaption(m) == m.type = "committed"
WireOK ==
    /\ wire \in Seq(Msg)
    /\ \A i \in 1..Len(wire) : IsCaption(wire[i]) => wire[i].n \in 1..said

ViewerTypeOK ==
    /\ said \in Nat /\ stored \in 0..said /\ answer \subseteq 1..said
    /\ live \in BOOLEAN /\ enabled \in BOOLEAN /\ untold \in BOOLEAN /\ untrue \in BOOLEAN
    /\ stage \in {"none", "subscribed", "read", "open"}
    /\ known \in View
    /\ WireOK
    /\ shown \in Seq(Nat) /\ ToSet(shown) \subseteq 1..said
    /\ loading \in {"fetch", "answer", "done"}
    /\ sock \in {"none", "connecting", "open", "closed"}
    /\ timers \in Nat
    /\ paused \in BOOLEAN /\ tentative \in BOOLEAN
    /\ early \in BOOLEAN /\ outdated \in BOOLEAN /\ destroyed \in BOOLEAN

\* No caption is shown twice; a connection that is not open for the page has no
\* handler and no messages.
BaseInv ==
    /\ ViewerTypeOK
    /\ IsInjective(shown)
    /\ sock # "open" => stage = "none" /\ wire = <<>>

LEMMA MsgFields ==
    ASSUME NEW m \in Msg
    PROVE  /\ m.type = "committed" => m.n \in Nat
           /\ m.type \in {"transcription", "connected"} => m.live \in BOOLEAN /\ m.enabled \in BOOLEAN
           /\ m.type \in {"committed", "tentative", "venue_live", "venue_offline",
                          "session_end", "transcription", "connected"}
BY DEF Msg

\* What a page does with captions that it may have already.
LEMMA AddCaptions ==
    ASSUME shown \in Seq(Nat), IsInjective(shown), NEW C \in SUBSET Nat, IsFiniteSet(C), Add(C)
    PROVE  /\ shown' \in Seq(Nat)
           /\ ToSet(shown') = ToSet(shown) \cup C
           /\ IsInjective(shown')
           /\ (/\ Ascending(shown)
               /\ \A m \in ToSet(shown), n \in C : n \in ToSet(shown) \/ m < n)
              => Ascending(shown')
<1> DEFINE N == C \ ToSet(shown)
<1>1. PICK new \in SetToSeqs(N) : Ascending(new) /\ shown' = shown \o new
  BY DEF Add
<1> DEFINE k == Cardinality(N)
           l == Len(shown)
<1>2. IsFiniteSet(N) /\ k \in Nat
  BY FS_Subset, FS_CardinalityType
<1>3. /\ new \in [1..k -> N] /\ \A i, j \in 1..k : i # j => new[i] # new[j]
  BY <1>1 DEF SetToSeqs
<1>4. \A n \in N : \E i \in 1..k : new[i] = n
  <2>1. new \in Injection(1..k, N)
    BY <1>3, Fun_IsInj
  <2>2. Cardinality(1..k) = k
    BY <1>2, FS_Interval
  <2>3. new \in Surjection(1..k, N)
    BY <1>2, <2>1, <2>2, FS_Injection
  <2>4. QED
    BY <2>3 DEF Surjection
<1>5. new \in Seq(Nat) /\ Len(new) = k /\ DOMAIN new = 1..k
  <2>1. new \in [1..k -> Nat]
    BY <1>3
  <2>2. new \in Seq(Nat)
    BY <1>2, <2>1, SeqDef, Zenon
  <2>3. QED
    BY <1>2, <2>1, <2>2, LenProperties
<1> HIDE DEF k, N
<1>6. l \in Nat /\ DOMAIN shown = 1..l /\ \A i \in 1..l : shown[i] \in Nat
  BY LenProperties, ElementOfSeq
<1>7. /\ shown' \in Seq(Nat) /\ Len(shown') = l + k /\ DOMAIN shown' = 1..l + k
      /\ \A i \in 1..l : shown'[i] = shown[i]
      /\ \A i \in 1..k : shown'[l + i] = new[i]
  <2>1. shown' \in Seq(Nat) /\ Len(shown') = l + k
    BY <1>1, <1>5, ConcatProperties
  <2>2. \A i \in 1..l + k : shown'[i] = IF i <= l THEN shown[i] ELSE new[i - l]
    BY <1>1, <1>5, ConcatProperties
  <2>3. \A i \in 1..k : l + i \in 1..l + k /\ ~(l + i <= l) /\ l + i - l = i
    BY <1>2, <1>6
  <2>4. \A i \in 1..l : i \in 1..l + k /\ i <= l
    BY <1>2, <1>6
  <2>5. QED
    BY <2>1, <2>2, <2>3, <2>4, LenProperties
<1>8. \A i \in 1..l + k : i \in 1..l \/ \E j \in 1..k : i = l + j
  <2>1. TAKE i \in 1..l + k
  <2>2. CASE i <= l
    BY <1>6, <2>2
  <2>3. CASE ~(i <= l)
    <3>1. i - l \in 1..k /\ i = l + (i - l)
      BY <1>2, <1>6, <2>3
    <3>2. QED
      BY <3>1
  <2>4. QED
    BY <2>2, <2>3
<1>9. \A i \in 1..l, j \in 1..k : i \in 1..l + k /\ l + j \in 1..l + k
  BY <1>2, <1>6
<1>10. ToSet(shown') = ToSet(shown) \cup C
  <2>1. \A x \in ToSet(shown') : x \in ToSet(shown) \cup C
    <3>1. TAKE x \in ToSet(shown')
    <3>2. PICK i \in 1..l + k : x = shown'[i]
      BY <1>7 DEF ToSet
    <3>3. CASE i \in 1..l
      BY <1>6, <1>7, <3>2, <3>3 DEF ToSet
    <3>4. ASSUME NEW j \in 1..k, i = l + j
          PROVE  x \in C
      BY <1>3, <1>7, <3>2, <3>4 DEF N
    <3>5. QED
      BY <1>8, <3>3, <3>4
  <2>2. \A x \in ToSet(shown) : x \in ToSet(shown')
    <3>1. TAKE x \in ToSet(shown)
    <3>2. PICK i \in 1..l : x = shown[i]
      BY <1>6 DEF ToSet
    <3>3. i \in 1..l + k /\ shown'[i] = x
      BY <1>2, <1>6, <1>7, <3>2
    <3>4. QED
      BY <1>7, <3>3 DEF ToSet
  <2>3. \A x \in N : x \in ToSet(shown')
    <3>1. TAKE x \in N
    <3>2. PICK i \in 1..k : x = new[i]
      BY <1>4
    <3>3. l + i \in 1..l + k /\ shown'[l + i] = x
      BY <1>2, <1>6, <1>7, <3>2
    <3>4. QED
      BY <1>7, <3>3 DEF ToSet
  <2>4. QED
    BY <2>1, <2>2, <2>3 DEF N
<1>11. \A i \in 1..l, j \in 1..k : shown[i] # new[j]
  BY <1>3, <1>6 DEF N, ToSet
<1>12. IsInjective(shown')
  <2>1. ASSUME NEW i \in 1..l + k, NEW j \in 1..l + k, shown'[i] = shown'[j]
        PROVE  i = j
    <3>1. CASE i \in 1..l /\ j \in 1..l
      BY <1>6, <1>7, <2>1, <3>1 DEF IsInjective
    <3>2. CASE i \in 1..l /\ \E m \in 1..k : j = l + m
      BY <1>7, <1>11, <2>1, <3>2
    <3>3. CASE j \in 1..l /\ \E m \in 1..k : i = l + m
      BY <1>7, <1>11, <2>1, <3>3
    <3>4. CASE (\E m \in 1..k : i = l + m) /\ \E m \in 1..k : j = l + m
      BY <1>3, <1>7, <2>1, <3>4
    <3>5. QED
      BY <1>8, <3>1, <3>2, <3>3, <3>4
  <2>2. QED
    BY <1>7, <2>1 DEF IsInjective
<1>13. ASSUME Ascending(shown), \A m \in ToSet(shown), n \in C : n \in ToSet(shown) \/ m < n
       PROVE  Ascending(shown')
  <2>1. ASSUME NEW i \in 1..l + k, NEW j \in 1..l + k, i < j
        PROVE  shown'[i] < shown'[j]
    <3>1. CASE i \in 1..l /\ j \in 1..l
      BY <1>6, <1>7, <1>13, <2>1, <3>1 DEF Ascending
    <3>2. ASSUME i \in 1..l, NEW m \in 1..k, j = l + m
          PROVE  shown'[i] < shown'[j]
      <4>1. shown[i] \in ToSet(shown) /\ new[m] \in C /\ new[m] \notin ToSet(shown)
        BY <1>3, <1>6, <3>2 DEF ToSet, N
      <4>2. QED
        BY <1>7, <1>13, <3>2, <4>1
    <3>3. ASSUME NEW m \in 1..k, i = l + m, j \in 1..l
          PROVE  FALSE
      BY <1>2, <1>6, <2>1, <3>3
    <3>4. ASSUME NEW m \in 1..k, i = l + m, NEW p \in 1..k, j = l + p
          PROVE  shown'[i] < shown'[j]
      <4>1. m < p
        BY <1>2, <1>6, <2>1, <3>4
      <4>2. new[m] < new[p]
        BY <1>1, <1>5, <4>1 DEF Ascending
      <4>3. QED
        BY <1>7, <3>4, <4>2
    <3>5. QED
      BY <1>8, <3>1, <3>2, <3>3, <3>4
  <2>2. QED
    BY <1>7, <2>1 DEF Ascending
<1>14. QED
  BY <1>7, <1>10, <1>12, <1>13

-----------------------------------------------------------------------------
(* Messages on the wire                                                    *)

LEMMA Appended ==
    ASSUME wire \in Seq(Msg), NEW m \in Msg, wire' = Append(wire, m)
    PROVE  /\ wire' \in Seq(Msg) /\ Len(wire) \in Nat /\ Len(wire') = Len(wire) + 1
           /\ \A i \in 1..Len(wire) : wire'[i] = wire[i] /\ i \in 1..Len(wire')
           /\ wire'[Len(wire) + 1] = m
           /\ \A i \in 1..Len(wire') : i \in 1..Len(wire) \/ i = Len(wire) + 1
<1>1. Len(wire) \in Nat
  BY LenProperties
<1>2. /\ wire' \in Seq(Msg) /\ Len(wire') = Len(wire) + 1
      /\ \A i \in 1..Len(wire) : wire'[i] = wire[i]
      /\ wire'[Len(wire) + 1] = m
  BY AppendProperties
<1>3. QED
  BY <1>1, <1>2

LEMMA Taken ==
    ASSUME wire \in Seq(Msg), wire # <<>>, wire' = Tail(wire)
    PROVE  /\ Head(wire) = wire[1] /\ Head(wire) \in Msg /\ 1 \in 1..Len(wire)
           /\ wire' \in Seq(Msg) /\ Len(wire) \in Nat /\ Len(wire') = Len(wire) - 1
           /\ \A i \in 1..Len(wire') : wire'[i] = wire[i + 1] /\ i + 1 \in 1..Len(wire)
<1>1. Len(wire) \in Nat /\ Len(wire) # 0
  BY LenProperties, EmptySeq
<1>2. /\ Head(wire) = wire[1] /\ Head(wire) \in Msg
      /\ wire' \in Seq(Msg) /\ Len(wire') = Len(wire) - 1
      /\ \A i \in 1..Len(wire') : wire'[i] = wire[i + 1]
  BY <1>1, HeadTailProperties
<1>3. QED
  BY <1>1, <1>2

LEMMA WireBroadcast ==
    ASSUME WireOK, said \in Nat, said' \in Nat, said <= said', NEW m \in Msg,
           IsCaption(m) => m.n \in 1..said', Broadcast(m)
    PROVE  WireOK'
<1>1. CASE wire' = wire
  BY <1>1 DEF WireOK
<1>2. CASE wire' = Append(wire, m)
  <2>1. /\ wire' \in Seq(Msg) /\ wire'[Len(wire) + 1] = m
        /\ \A i \in 1..Len(wire) : wire'[i] = wire[i]
        /\ \A i \in 1..Len(wire') : i \in 1..Len(wire) \/ i = Len(wire) + 1
    BY <1>2, Appended DEF WireOK
  <2>2. \A i \in 1..Len(wire) : IsCaption(wire[i]) => wire[i].n \in 1..said'
    BY DEF WireOK
  <2>3. QED
    BY <2>1, <2>2 DEF WireOK
<1>3. QED
  BY <1>1, <1>2 DEF Broadcast

LEMMA WireTaken ==
    ASSUME WireOK, wire # <<>>, wire' = Tail(wire), UNCHANGED said
    PROVE  WireOK'
<1>1. /\ wire' \in Seq(Msg)
      /\ \A i \in 1..Len(wire') : wire'[i] = wire[i + 1] /\ i + 1 \in 1..Len(wire)
  BY Taken DEF WireOK
<1>2. QED
  BY <1>1 DEF WireOK

LEMMA WireCut ==
    ASSUME wire' = <<>>
    PROVE  WireOK'
<1>1. wire' \in Seq(Msg) /\ Len(wire') = 0
  OBVIOUS
<1>2. QED
  BY <1>1 DEF WireOK

LEMMA InitBase ==
    ASSUME Init
    PROVE  BaseInv
<1>1. /\ wire = <<>> /\ shown = <<>> /\ Len(wire) = 0 /\ wire \in Seq(Msg) /\ shown \in Seq(Nat)
      /\ DOMAIN shown = {}
  BY DEF Init
<1>2. IsInjective(shown) /\ ToSet(shown) = {} /\ WireOK
  BY <1>1 DEF IsInjective, ToSet, WireOK
<1>3. /\ said = 0 /\ stored \in 0..said /\ answer \subseteq 1..said /\ ToSet(shown) \subseteq 1..said
      /\ stage = "none"
  BY <1>2 DEF Init
<1>4. known \in View
  BY DEF Init, View, Unread
<1>5. /\ live \in BOOLEAN /\ enabled \in BOOLEAN /\ untold \in BOOLEAN
      /\ untrue \in BOOLEAN
      /\ loading \in {"fetch", "answer", "done"} /\ sock \in {"none", "connecting", "open", "closed"}
      /\ timers \in Nat /\ paused \in BOOLEAN /\ tentative \in BOOLEAN
      /\ early \in BOOLEAN /\ outdated \in BOOLEAN /\ destroyed \in BOOLEAN
  BY DEF Init
<1>6. QED
  BY <1>1, <1>2, <1>3, <1>4, <1>5 DEF BaseInv, ViewerTypeOK

\* The venue's events.
LEMMA VenueBase ==
    ASSUME BaseInv, Venue, UNCHANGED <<loadVars, sockVars, textVars, saysVars, destroyed>>
    PROVE  BaseInv'
<1> USE DEF BaseInv, ViewerTypeOK, loadVars, sockVars, textVars, saysVars, venueVars, connVars,
            liveVars, flagVars
<1>1. said \in Nat /\ stored \in 0..said /\ answer \subseteq 1..said /\ WireOK
  OBVIOUS
<1>2. CASE Say
  <2>1. said' = said + 1 /\ Broadcast([type |-> "committed", n |-> said']) /\ stored' = stored
    BY <1>2 DEF Say
  <2>2. /\ [type |-> "committed", n |-> said'] \in Msg /\ said' \in Nat /\ said <= said'
        /\ 1..said \subseteq 1..said' /\ 0..said \subseteq 0..said' /\ said' \in 1..said'
    BY <1>1, <2>1 DEF Msg
  <2>3. WireOK'
    BY <1>1, <2>1, <2>2, WireBroadcast
  <2>4. QED
    BY <1>1, <1>2, <2>1, <2>2, <2>3 DEF Say, Broadcast
<1>3. CASE Store
  BY <1>1, <1>3 DEF Store, WireOK
<1>4. CASE Guess
  <2>1. [type |-> "tentative"] \in Msg /\ ~IsCaption([type |-> "tentative"])
    BY DEF Msg, IsCaption
  <2>2. WireOK'
    BY <1>1, <1>4, <2>1, WireBroadcast DEF Guess
  <2>3. QED
    BY <1>1, <1>4, <2>2 DEF Guess, Broadcast
<1>5. CASE Flip
  <2> DEFINE m == Status(live')
  <2>1. m \in Msg /\ ~IsCaption(m) /\ Broadcast(m)
    BY <1>5 DEF Msg, IsCaption, Flip, Status
  <2>2. WireOK'
    BY <1>1, <1>5, <2>1, WireBroadcast DEF Flip
  <2>3. QED
    BY <1>1, <1>5, <2>1, <2>2 DEF Flip, Broadcast
<1>5a. CASE Offline
  <2> DEFINE m == Status(FALSE)
  <2>1. m \in Msg /\ ~IsCaption(m)
    BY DEF Msg, IsCaption, Status
  <2>2. Broadcast(m) /\ UNCHANGED <<said, stored, answer, stage, shown, starts>>
    BY <1>5a DEF Offline, flagVars
  <2> HIDE DEF m
  <2>3. WireOK'
    BY <1>1, <2>1, <2>2, WireBroadcast
  <2>4. QED
    BY <1>1, <1>5a, <2>1, <2>2, <2>3 DEF Offline, Broadcast
<1>5b. CASE SessionEnd
  <2> DEFINE m == [type |-> "session_end"]
  <2>1. m \in Msg /\ ~IsCaption(m)
    BY DEF Msg, IsCaption
  <2>2. CASE Broadcast(m)
    <3>1. WireOK'
      BY <1>1, <1>5b, <2>1, <2>2, WireBroadcast DEF SessionEnd
    <3>2. QED
      BY <1>1, <1>5b, <2>2, <3>1 DEF SessionEnd, Broadcast
  <2>3. CASE UNCHANGED wire
    BY <1>1, <1>5b, <2>3 DEF SessionEnd, WireOK
  <2>4. QED
    BY <1>5b, <2>2, <2>3 DEF SessionEnd
<1>5c. CASE Pop
  BY <1>1, <1>5c DEF Pop, WireOK
<1>6. CASE Toggle
  BY <1>1, <1>6 DEF Toggle, WireOK
<1>7. CASE Tell
  <2> DEFINE m == [type |-> "transcription", enabled |-> enabled, live |-> live]
  <2>1. m \in Msg /\ ~IsCaption(m) /\ Broadcast(m)
    BY <1>7 DEF Msg, IsCaption, Tell
  <2>2. WireOK'
    BY <1>1, <1>7, <2>1, WireBroadcast DEF Tell
  <2>3. QED
    BY <1>1, <1>7, <2>1, <2>2 DEF Tell, Broadcast
<1>8. QED
  BY <1>2, <1>3, <1>4, <1>5, <1>5a, <1>5b, <1>5c, <1>6, <1>7 DEF Venue

\* The handler's steps.
LEMMA HandlerBase ==
    ASSUME BaseInv, Handler
    PROVE  BaseInv'
<1> USE DEF BaseInv, ViewerTypeOK, loadVars, sockVars, textVars, saysVars, venueVars,
            liveVars, flagVars
<1>1. said \in Nat /\ stored \in 0..said /\ answer \subseteq 1..said /\ WireOK /\ known \in View
  OBVIOUS
<1>2. CASE Accept /\ UNCHANGED <<venueVars, loadVars, saysVars, destroyed>>
  <2>1. known' \in View
    BY <1>1, <1>2 DEF Accept, View
  <2>2. QED
    BY <1>1, <1>2, <2>1 DEF Accept, WireOK
<1>3. CASE ReadFlag /\ UNCHANGED <<venueVars, loadVars, sockVars, textVars, saysVars, destroyed>>
  <2>1. known' \in View
    BY <1>1, <1>3 DEF ReadFlag, View
  <2>2. QED
    BY <1>1, <1>3, <2>1 DEF ReadFlag, WireOK
<1>4. CASE Greet /\ UNCHANGED <<venueVars, loadVars, sockVars, textVars, saysVars, destroyed>>
  <2> DEFINE m == [type |-> "connected", live |-> known.live, enabled |-> known.enabled]
  <2>1. m \in Msg /\ ~IsCaption(m)
    BY <1>1 DEF Msg, IsCaption, View
  <2>2. wire' = Append(wire, m) /\ stage = "read" /\ stage' = "open"
    BY <1>4 DEF Greet
  <2>3. WireOK'
    BY <1>1, <1>4, <2>1, <2>2, WireBroadcast DEF Broadcast
  <2>4. known' \in View /\ outdated' \in BOOLEAN
    BY <1>4 DEF Greet, Unread, View
  <2>5. QED
    BY <1>1, <1>4, <2>2, <2>3, <2>4
<1>5. QED
  BY <1>2, <1>3, <1>4 DEF Handler

\* A new or a lost connection: the handler ends, and the messages may be lost.
LEMMA CutBase ==
    ASSUME BaseInv, HandlerEnds, UNCHANGED <<venueVars, shown, tentative, paused>>,
           wire' = <<>> \/ (UNCHANGED <<wire, sock>>),
           answer' \in {answer, {}},
           sock' \in {"none", "connecting", "open", "closed"}, timers' \in Nat,
           loading' \in {"fetch", "answer", "done"},
           early' \in BOOLEAN, destroyed' \in BOOLEAN
    PROVE  BaseInv'
<1> USE DEF BaseInv, ViewerTypeOK, venueVars, liveVars, flagVars
<1>1. known' \in View /\ stage' = "none" /\ outdated' = FALSE
  BY DEF HandlerEnds, Unread, View
<1>2. WireOK'
  BY WireCut DEF WireOK
<1>3. answer' \subseteq 1..said /\ (sock' # "open" => wire' = <<>>)
  OBVIOUS
<1>4. QED
  BY <1>1, <1>2, <1>3

\* Captions that were said are finitely many numbers.
LEMMA SaidCaptions ==
    ASSUME NEW k \in Nat, NEW C \in SUBSET (1..k)
    PROVE  C \in SUBSET Nat /\ IsFiniteSet(C)
<1>1. IsFiniteSet(1..k)
  BY FS_Interval
<1>2. IsFiniteSet(C)
  BY <1>1, FS_Subset
<1>3. QED
  BY <1>2

LEMMA PageBase ==
    ASSUME BaseInv, Page
    PROVE  BaseInv'
<1> USE DEF loadVars, sockVars, textVars, saysVars, venueVars, liveVars, flagVars, connVars
<1>1. /\ said \in Nat /\ stored \in 0..said /\ answer \subseteq 1..said /\ timers \in Nat
      /\ loading \in {"fetch", "answer", "done"} /\ sock \in {"none", "connecting", "open", "closed"}
      /\ early \in BOOLEAN /\ destroyed \in BOOLEAN /\ WireOK /\ wire \in Seq(Msg)
      /\ shown \in Seq(Nat) /\ ToSet(shown) \subseteq 1..said /\ IsInjective(shown)
  BY DEF BaseInv, ViewerTypeOK, WireOK
<1>2. CASE TimerFires /\ UNCHANGED <<venueVars, loadVars, textVars, destroyed>>
  <2>1. timers' \in Nat
    BY <1>1, <1>2 DEF TimerFires
  <2>2. CASE destroyed
    BY <1>1, <1>2, <2>1, <2>2 DEF TimerFires, BaseInv, ViewerTypeOK, WireOK
  <2>3. CASE ~destroyed
    <3>1. Connect
      BY <1>2, <2>3 DEF TimerFires
    <3>2. QED
      BY <1>1, <1>2, <2>1, <3>1, CutBase DEF Connect
  <2>4. QED
    BY <2>2, <2>3
<1>3. CASE Answer /\ UNCHANGED <<venueVars, connVars, sockVars, textVars, saysVars, destroyed>>
  <2>1. answer' \subseteq 1..said /\ loading' = "answer" /\ early' = early
    BY <1>1, <1>3 DEF Answer
  <2>2. QED
    BY <1>1, <1>3, <2>1 DEF BaseInv, ViewerTypeOK, WireOK
<1>4. CASE Render /\ UNCHANGED <<venueVars, destroyed>>
  <2>1. Add(answer) /\ loading' = "done" /\ answer' = {} /\ tentative' \in BOOLEAN
        /\ UNCHANGED <<early, timers>>
    BY <1>4 DEF Render, BaseInv, ViewerTypeOK
  <2>2. answer \in SUBSET Nat /\ IsFiniteSet(answer)
    BY <1>1, SaidCaptions
  <2>3. /\ shown' \in Seq(Nat) /\ IsInjective(shown')
        /\ ToSet(shown') = ToSet(shown) \cup answer
    BY <1>1, <2>1, <2>2, AddCaptions
  <2>4. ToSet(shown') \subseteq 1..said
    BY <1>1, <2>3
  <2>5. CASE destroyed
    <3>1. UNCHANGED <<sock, stage, known, wire, outdated, paused, status>>
      BY <1>4, <2>5 DEF Render
    <3>2. QED
      BY <1>1, <1>4, <2>1, <2>3, <2>4, <3>1 DEF BaseInv, ViewerTypeOK, WireOK
  <2>6. CASE ~destroyed
    <3>1. Connect
      BY <1>4, <2>6 DEF Render
    <3>2. /\ known' \in View /\ stage' = "none" /\ outdated' = FALSE /\ WireOK'
          /\ sock' = "connecting" /\ wire' = <<>> /\ paused' = paused
      BY <3>1, WireCut DEF Connect, HandlerEnds, Unread, View
    <3>3. QED
      BY <1>1, <1>4, <2>1, <2>3, <2>4, <3>2 DEF BaseInv, ViewerTypeOK
  <2>7. QED
    BY <2>5, <2>6
<1>5. CASE Receive /\ UNCHANGED <<venueVars, loadVars, sockVars, destroyed>>
  <2> DEFINE msg == Head(wire)
  <2>1. wire # <<>> /\ wire' = Tail(wire) /\ sock = "open" /\ UNCHANGED <<stage, known, outdated>>
    BY <1>5 DEF Receive
  <2>2. msg \in Msg /\ WireOK' /\ (IsCaption(msg) => msg.n \in 1..said)
    BY <1>1, <1>5, <2>1, WireTaken, Taken DEF WireOK
  <2>3. /\ shown' \in Seq(Nat) /\ IsInjective(shown') /\ ToSet(shown') \subseteq 1..said
        /\ tentative' \in BOOLEAN /\ paused' \in BOOLEAN
    <3>1. CASE OnCommitted(msg)
      <4>1. Add({msg.n}) /\ msg.n \in 1..said /\ tentative' = FALSE /\ paused' = paused
        BY <2>2, <3>1 DEF OnCommitted, IsCaption
      <4>2. {msg.n} \in SUBSET Nat /\ IsFiniteSet({msg.n})
        BY <1>1, <4>1, SaidCaptions
      <4>3. /\ shown' \in Seq(Nat) /\ IsInjective(shown')
            /\ ToSet(shown') = ToSet(shown) \cup {msg.n}
        BY <1>1, <4>1, <4>2, AddCaptions
      <4>4. QED
        BY <1>1, <4>1, <4>3 DEF BaseInv, ViewerTypeOK
    <3>2. CASE OnTentative(msg) \/ OnVenue(msg) \/ OnSessionEnd(msg)
      BY <1>1, <3>2 DEF OnTentative, OnVenue, OnSessionEnd, BaseInv, ViewerTypeOK
    <3>3. CASE OnConnected(msg) \/ OnTranscription(msg)
      BY <1>1, <2>2, <3>3, MsgFields DEF OnConnected, OnTranscription, BaseInv, ViewerTypeOK
    <3>4. QED
      BY <1>5, <3>1, <3>2, <3>3 DEF Receive
  <2>4. QED
    BY <1>1, <1>5, <2>1, <2>2, <2>3 DEF BaseInv, ViewerTypeOK
<1>6. CASE OnClose /\ UNCHANGED <<venueVars, loadVars, textVars, destroyed>>
  <2>1. timers' \in Nat /\ sock' = "closed" /\ HandlerEnds /\ wire' = <<>> /\ paused' = paused
    BY <1>1, <1>6 DEF OnClose
  <2>2. QED
    BY <1>1, <1>6, <2>1, CutBase
<1>7. QED
  BY <1>2, <1>3, <1>4, <1>5, <1>6 DEF Page

LEMMA BaseKept ==
    ASSUME BaseInv, [Next]_vars
    PROVE  BaseInv'
<1> USE DEF loadVars, sockVars, textVars, saysVars, venueVars, liveVars, flagVars, connVars
<1>1. /\ timers \in Nat /\ answer \subseteq 1..said
      /\ loading \in {"fetch", "answer", "done"} /\ sock \in {"none", "connecting", "open", "closed"}
      /\ early \in BOOLEAN /\ destroyed \in BOOLEAN
  BY DEF BaseInv, ViewerTypeOK
<1>2. CASE LinkDown /\ UNCHANGED <<venueVars, loadVars, textVars, destroyed>>
  <2>1. HandlerEnds /\ UNCHANGED <<wire, sock, timers, saysVars>>
    BY <1>2 DEF LinkDown
  <2>2. QED
    BY <1>1, <1>2, <2>1, CutBase
<1>3. CASE Visible /\ UNCHANGED <<venueVars, textVars, destroyed>>
  <2>1. CASE sock = "open"
    BY <1>3, <2>1 DEF Visible, BaseInv, ViewerTypeOK, WireOK
  <2>2. CASE sock # "open"
    <3>1. Connect /\ early' \in BOOLEAN /\ UNCHANGED <<timers, loading, answer>>
      BY <1>1, <1>3, <2>2 DEF Visible
    <3>2. QED
      BY <1>1, <1>3, <3>1, CutBase DEF Connect
  <2>3. QED
    BY <2>1, <2>2
<1>4. CASE Destroy /\ UNCHANGED <<venueVars, loadVars, textVars>>
  BY <1>1, <1>4, CutBase DEF Destroy
<1>5. CASE UNCHANGED vars
  BY <1>5 DEF vars, BaseInv, ViewerTypeOK, WireOK
<1>6. QED
  BY <1>2, <1>3, <1>4, <1>5, VenueBase, HandlerBase, PageBase DEF Next, World

-----------------------------------------------------------------------------
(* No caption missing, none out of order                                   *)

\* A caption that is shown or on its way comes right after another one, or after
\* a gap that is known; and so will the next one to be said.
GapInv ==
    /\ \A n \in ToSet(shown) : n \in starts \/ n - 1 \in ToSet(shown)
    /\ \A i \in 1..Len(wire) : IsCaption(wire[i]) =>
          \/ wire[i].n \in starts \/ wire[i].n - 1 \in ToSet(shown)
          \/ \E j \in 1..i - 1 : IsCaption(wire[j]) /\ wire[j].n = wire[i].n - 1
    /\ stage # "none" =>
          \/ said + 1 \in starts \/ said \in ToSet(shown)
          \/ \E j \in 1..Len(wire) : IsCaption(wire[j]) /\ wire[j].n = said

\* The connection delivers in order; what it delivers is shown already, from the
\* history, or comes after all that is.
OrderInv ==
    /\ \A i, j \in 1..Len(wire) :
          i < j /\ IsCaption(wire[i]) /\ IsCaption(wire[j]) => wire[i].n < wire[j].n
    /\ ~early =>
          /\ Ascending(shown)
          /\ \A i \in 1..Len(wire) : IsCaption(wire[i]) =>
                wire[i].n \in ToSet(shown) \/ \A m \in ToSet(shown) : m < wire[i].n

\* Nothing can connect before the history is loaded, but the page's becoming visible.
LoadInv == ~early /\ loading # "done" => sock = "none" /\ timers = 0 /\ shown = <<>>

LEMMA LoadKept ==
    ASSUME BaseInv, LoadInv, [Next]_vars
    PROVE  LoadInv'
<1> USE DEF LoadInv, loadVars, sockVars, textVars
<1>1. CASE UNCHANGED <<early, loading, sock, timers, shown>>
  BY <1>1
<1>2. CASE Page
  <2>1. CASE TimerFires /\ UNCHANGED <<venueVars, loadVars, textVars, destroyed>>
    BY <2>1 DEF TimerFires
  <2>2. CASE Answer /\ UNCHANGED <<venueVars, connVars, sockVars, textVars, saysVars, destroyed>>
    BY <2>2 DEF Answer
  <2>3. CASE Render
    BY <2>3 DEF Render
  <2>4. CASE \/ Receive /\ UNCHANGED <<venueVars, loadVars, sockVars, destroyed>>
             \/ OnClose /\ UNCHANGED <<venueVars, loadVars, textVars, destroyed>>
    BY <2>4 DEF Receive, OnClose
  <2>5. QED
    BY <1>2, <2>1, <2>2, <2>3, <2>4 DEF Page
<1>3. CASE Accept /\ UNCHANGED <<venueVars, loadVars, saysVars, destroyed>>
  BY <1>3 DEF Accept
<1>4. CASE Visible /\ UNCHANGED <<venueVars, textVars, destroyed>>
  BY <1>4 DEF Visible, connVars, saysVars
<1>5. CASE Destroy /\ UNCHANGED <<venueVars, loadVars, textVars>>
  <2>1. sock' = "none" /\ timers' \in {timers, timers - 1} \cap Nat
    BY <1>5 DEF Destroy
  <2>2. timers = 0 => timers' = 0
    BY <2>1
  <2>3. QED
    BY <1>5, <2>1, <2>2
<1>6. QED
  BY <1>1, <1>2, <1>3, <1>4, <1>5 DEF Next, Handler, World, vars, LinkDown

\* A step that says and shows nothing, and starts no new connection.
Quietly ==
    /\ UNCHANGED <<said, shown, starts>>
    /\ early => early'
    /\ \/ wire' = <<>> /\ stage' = "none"
       \/ wire' = wire /\ (stage' = "none" \/ stage # "none")
       \/ stage # "none" /\ \E m \in Msg : ~IsCaption(m) /\ wire' = Append(wire, m)

LEMMA QuietSteps ==
    ASSUME BaseInv, [Next]_vars
    PROVE  \/ Quietly
           \/ Say /\ UNCHANGED <<shown, starts, early, loading>>
           \/ Accept /\ UNCHANGED <<said, shown, early, loading>>
           \/ Render /\ UNCHANGED said
           \/ Receive /\ UNCHANGED <<said, early, loading>>
<1> USE DEF loadVars, sockVars, textVars, saysVars, venueVars, liveVars, flagVars, connVars
<1>1. CASE Venue /\ UNCHANGED <<loadVars, sockVars, textVars, saysVars, destroyed>>
  <2>1. ASSUME NEW m \in Msg, ~IsCaption(m), Broadcast(m), UNCHANGED <<said, stage>>
        PROVE  Quietly
    BY <1>1, <2>1 DEF Broadcast, Quietly
  <2>2. CASE Guess
    BY <2>1, <2>2 DEF Guess, Msg, IsCaption
  <2>3. CASE Flip \/ Offline
    <3>1. \A isLive : Status(isLive) \in Msg /\ ~IsCaption(Status(isLive))
      BY DEF Msg, Status, IsCaption
    <3>2. QED
      BY <2>1, <2>3, <3>1 DEF Flip, Offline
  <2>4. CASE Tell
    <3>1. [type |-> "transcription", enabled |-> enabled, live |-> live] \in Msg
      BY DEF Msg, BaseInv, ViewerTypeOK
    <3>2. QED
      BY <2>1, <2>4, <3>1 DEF Tell, IsCaption
  <2>4a. CASE SessionEnd
    <3>1. [type |-> "session_end"] \in Msg /\ ~IsCaption([type |-> "session_end"])
      BY DEF Msg, IsCaption
    <3>2. CASE Broadcast([type |-> "session_end"])
      BY <2>1, <2>4a, <3>1, <3>2 DEF SessionEnd
    <3>3. CASE UNCHANGED wire
      BY <1>1, <2>4a, <3>3 DEF SessionEnd, Quietly
    <3>4. QED
      BY <2>4a, <3>2, <3>3 DEF SessionEnd
  <2>5. CASE Store \/ Toggle \/ Pop
    <3>1. UNCHANGED <<said, wire, stage>>
      BY <2>5 DEF Store, Toggle, Pop
    <3>2. QED
      BY <1>1, <3>1 DEF Quietly
  <2>6. CASE Say
    BY <1>1, <2>6
  <2>7. QED
    BY <1>1, <2>2, <2>3, <2>4, <2>4a, <2>5, <2>6 DEF Venue
<1>2. CASE (ReadFlag \/ Greet) /\ UNCHANGED <<venueVars, loadVars, sockVars, textVars, saysVars, destroyed>>
  <2>1. CASE ReadFlag
    BY <1>2, <2>1 DEF ReadFlag, Quietly
  <2>2. CASE Greet
    <3>1. [type |-> "connected", live |-> known.live, enabled |-> known.enabled] \in Msg
      BY DEF Msg, BaseInv, ViewerTypeOK, View
    <3>2. QED
      BY <1>2, <2>2, <3>1 DEF Greet, Quietly, IsCaption
  <2>3. QED
    BY <1>2, <2>1, <2>2
<1>3. ASSUME Connect, UNCHANGED <<said, shown, starts>>, early => early'
      PROVE  Quietly
  BY <1>3 DEF Connect, HandlerEnds, Quietly
<1>4. CASE TimerFires /\ UNCHANGED <<venueVars, loadVars, textVars, destroyed>>
  BY <1>3, <1>4 DEF TimerFires, Quietly
<1>5. CASE Visible /\ UNCHANGED <<venueVars, textVars, destroyed>>
  BY <1>3, <1>5 DEF Visible, Quietly
<1>6. CASE \/ OnClose /\ UNCHANGED <<venueVars, loadVars, textVars, destroyed>>
           \/ LinkDown /\ UNCHANGED <<venueVars, loadVars, textVars, destroyed>>
           \/ Destroy /\ UNCHANGED <<venueVars, loadVars, textVars>>
  BY <1>6 DEF OnClose, LinkDown, Destroy, HandlerEnds, Quietly
<1>7. CASE \/ Answer /\ UNCHANGED <<venueVars, connVars, sockVars, textVars, saysVars, destroyed>>
           \/ UNCHANGED vars
  BY <1>7 DEF Answer, vars, Quietly
<1>8. CASE Accept /\ UNCHANGED <<venueVars, loadVars, saysVars, destroyed>>
  BY <1>8 DEF Accept
<1>9. CASE Render /\ UNCHANGED <<venueVars, destroyed>>
  BY <1>9
<1>10. CASE Receive /\ UNCHANGED <<venueVars, loadVars, sockVars, destroyed>>
  BY <1>10
<1> HIDE DEF loadVars, sockVars, textVars, saysVars, venueVars, liveVars, flagVars, connVars
<1>11. QED
  BY <1>1, <1>2, <1>4, <1>5, <1>6, <1>7, <1>8, <1>9, <1>10 DEF Next, Handler, Page, World

LEMMA GapQuiet ==
    ASSUME BaseInv, GapInv, Quietly
    PROVE  GapInv'
<1>1. UNCHANGED <<said, shown, starts>>
  BY DEF Quietly
<1>2. CASE wire' = <<>> /\ stage' = "none"
  <2>1. Len(wire') = 0
    BY <1>2
  <2>2. QED
    BY <1>1, <1>2, <2>1 DEF GapInv
<1>3. CASE wire' = wire /\ (stage' = "none" \/ stage # "none")
  BY <1>1, <1>3 DEF GapInv
<1>4. ASSUME NEW m \in Msg, ~IsCaption(m), wire' = Append(wire, m), stage # "none"
      PROVE  GapInv'
  <2>1. /\ Len(wire) \in Nat /\ Len(wire') = Len(wire) + 1
        /\ \A i \in 1..Len(wire) : wire'[i] = wire[i] /\ i \in 1..Len(wire')
        /\ wire'[Len(wire) + 1] = m
        /\ \A i \in 1..Len(wire') : i \in 1..Len(wire) \/ i = Len(wire) + 1
    BY <1>4, Appended DEF BaseInv, ViewerTypeOK, WireOK
  <2>2. \A i \in 1..Len(wire) : 1..i - 1 \subseteq 1..Len(wire)
    BY <2>1
  <2>3. \A i \in 1..Len(wire') : IsCaption(wire'[i]) =>
           \/ wire'[i].n \in starts \/ wire'[i].n - 1 \in ToSet(shown)
           \/ \E j \in 1..i - 1 : IsCaption(wire'[j]) /\ wire'[j].n = wire'[i].n - 1
    BY <1>4, <2>1, <2>2 DEF GapInv
  <2>4. \/ said + 1 \in starts \/ said \in ToSet(shown)
        \/ \E j \in 1..Len(wire') : IsCaption(wire'[j]) /\ wire'[j].n = said
    BY <1>4, <2>1 DEF GapInv
  <2>5. QED
    BY <1>1, <2>3, <2>4 DEF GapInv
<1>5. QED
  BY <1>2, <1>3, <1>4 DEF Quietly

LEMMA OrderQuiet ==
    ASSUME BaseInv, OrderInv, Quietly
    PROVE  OrderInv'
<1>1. UNCHANGED <<said, shown, starts>> /\ (early => early')
  BY DEF Quietly
<1>2. CASE wire' = <<>>
  <2>1. Len(wire') = 0
    BY <1>2
  <2>2. QED
    BY <1>1, <2>1 DEF OrderInv
<1>3. CASE wire' = wire
  BY <1>1, <1>3 DEF OrderInv
<1>4. ASSUME NEW m \in Msg, ~IsCaption(m), wire' = Append(wire, m)
      PROVE  OrderInv'
  <2>1. /\ wire'[Len(wire) + 1] = m
        /\ \A i \in 1..Len(wire) : wire'[i] = wire[i]
        /\ \A i \in 1..Len(wire') : i \in 1..Len(wire) \/ i = Len(wire) + 1
    BY <1>4, Appended DEF BaseInv, ViewerTypeOK, WireOK
  <2>2. \A i \in 1..Len(wire') : IsCaption(wire'[i]) => i \in 1..Len(wire) /\ wire'[i] = wire[i]
    BY <1>4, <2>1
  <2>3. QED
    BY <1>1, <2>2 DEF OrderInv
<1>5. QED
  BY <1>2, <1>3, <1>4 DEF Quietly

LEMMA SayKept ==
    ASSUME BaseInv, GapInv, OrderInv, Say, UNCHANGED <<shown, starts, early, loading>>
    PROVE  GapInv' /\ OrderInv'
<1> DEFINE msg == [type |-> "committed", n |-> said']
<1>1. /\ said \in Nat /\ said' = said + 1 /\ stage' = stage /\ Broadcast(msg)
      /\ ToSet(shown) \subseteq 1..said /\ wire \in Seq(Msg)
      /\ \A i \in 1..Len(wire) : IsCaption(wire[i]) => wire[i].n \in 1..said
      /\ ToSet(shown)' = ToSet(shown)
  BY DEF Say, BaseInv, ViewerTypeOK, WireOK
<1>2. CASE stage = "none"
  <2>1. wire' = wire /\ stage' = "none"
    BY <1>1, <1>2 DEF Broadcast
  <2>2. QED
    BY <1>1, <2>1 DEF GapInv, OrderInv
<1>3. CASE stage # "none"
  <2>1. msg \in Msg /\ IsCaption(msg) /\ wire' = Append(wire, msg)
    BY <1>1, <1>3 DEF Msg, IsCaption, Broadcast
  <2>2. /\ Len(wire) \in Nat /\ Len(wire') = Len(wire) + 1
        /\ \A i \in 1..Len(wire) : wire'[i] = wire[i] /\ i \in 1..Len(wire')
        /\ wire'[Len(wire) + 1] = msg
        /\ \A i \in 1..Len(wire') : i \in 1..Len(wire) \/ i = Len(wire) + 1
    BY <1>1, <2>1, Appended
  <2> DEFINE l == Len(wire) + 1
  <2>3. /\ l \in 1..Len(wire') /\ IsCaption(wire'[l]) /\ wire'[l].n = said + 1
        /\ \A i \in 1..Len(wire) : 1..i - 1 \subseteq 1..Len(wire)
        /\ l - 1 = Len(wire)
    BY <1>1, <2>1, <2>2
  <2>4. \A i \in 1..Len(wire') : IsCaption(wire'[i]) =>
           \/ wire'[i].n \in starts \/ wire'[i].n - 1 \in ToSet(shown)
           \/ \E j \in 1..i - 1 : IsCaption(wire'[j]) /\ wire'[j].n = wire'[i].n - 1
    <3>1. ASSUME NEW i \in 1..Len(wire), IsCaption(wire'[i])
          PROVE  \/ wire'[i].n \in starts \/ wire'[i].n - 1 \in ToSet(shown)
                 \/ \E j \in 1..i - 1 : IsCaption(wire'[j]) /\ wire'[j].n = wire'[i].n - 1
      BY <2>2, <2>3, <3>1 DEF GapInv
    <3>2. \/ wire'[l].n \in starts \/ wire'[l].n - 1 \in ToSet(shown)
          \/ \E j \in 1..l - 1 : IsCaption(wire'[j]) /\ wire'[j].n = wire'[l].n - 1
      <4>1. wire'[l].n = said + 1 /\ l - 1 = Len(wire) /\ said \in Nat
        BY <1>1, <2>3
      <4> HIDE DEF l
      <4>2. wire'[l].n - 1 = said
        BY <4>1
      <4>3. ASSUME NEW j \in 1..Len(wire), IsCaption(wire[j]), wire[j].n = said
            PROVE  j \in 1..l - 1 /\ IsCaption(wire'[j]) /\ wire'[j].n = wire'[l].n - 1
        BY <2>2, <4>1, <4>2, <4>3
      <4>4. \/ said + 1 \in starts \/ said \in ToSet(shown)
            \/ \E j \in 1..Len(wire) : IsCaption(wire[j]) /\ wire[j].n = said
        BY <1>3 DEF GapInv
      <4>5. QED
        BY <4>1, <4>2, <4>3, <4>4
    <3>3. QED
      BY <2>2, <3>1, <3>2
  <2>5. GapInv'
    BY <1>1, <2>3, <2>4 DEF GapInv
  <2>6. ASSUME NEW i \in 1..Len(wire'), NEW j \in 1..Len(wire'), i < j,
               IsCaption(wire'[i]), IsCaption(wire'[j])
        PROVE  wire'[i].n < wire'[j].n
    <3>1. i \in 1..Len(wire)
      BY <2>2, <2>6
    <3>2. CASE j \in 1..Len(wire)
      BY <2>2, <2>6, <3>1, <3>2 DEF OrderInv
    <3>3. CASE j = l
      BY <1>1, <2>2, <2>3, <2>6, <3>1, <3>3
    <3>4. QED
      BY <2>2, <3>2, <3>3
  <2>7. \A m \in ToSet(shown) : m < wire'[l].n
    BY <1>1, <2>3
  <2>8. ~early => \A i \in 1..Len(wire') : IsCaption(wire'[i]) =>
           wire'[i].n \in ToSet(shown) \/ \A m \in ToSet(shown) : m < wire'[i].n
    BY <2>2, <2>7 DEF OrderInv
  <2>9. OrderInv'
    BY <1>1, <2>6, <2>8 DEF OrderInv
  <2>10. QED
    BY <2>5, <2>9
<1>4. QED
  BY <1>2, <1>3

LEMMA AcceptKept ==
    ASSUME BaseInv, GapInv, OrderInv, Accept, UNCHANGED <<said, shown, early, loading>>
    PROVE  GapInv' /\ OrderInv'
<1>1. starts' = starts \cup {said + 1} /\ UNCHANGED <<wire, said, shown, early>>
  BY DEF Accept
<1>2. QED
  BY <1>1 DEF GapInv, OrderInv

LEMMA RenderKept ==
    ASSUME BaseInv, GapInv, OrderInv, LoadInv, Render, UNCHANGED said
    PROVE  GapInv' /\ OrderInv'
<1>1. /\ Add(answer) /\ loading = "answer" /\ early' = early
      /\ starts' = starts \cup {n \in answer : n - 1 \notin answer}
      /\ said \in Nat /\ answer \subseteq 1..said /\ shown \in Seq(Nat) /\ IsInjective(shown)
  BY DEF Render, BaseInv, ViewerTypeOK
<1>2. answer \in SUBSET Nat /\ IsFiniteSet(answer)
  BY <1>1, SaidCaptions
<1>3. /\ ToSet(shown') = ToSet(shown) \cup answer
      /\ (/\ Ascending(shown)
          /\ \A m \in ToSet(shown), n \in answer : n \in ToSet(shown) \/ m < n)
         => Ascending(shown')
  BY <1>1, <1>2, AddCaptions
<1>4. (wire' = <<>> /\ stage' = "none") \/ UNCHANGED <<wire, stage>>
  BY DEF Render, Connect, HandlerEnds, connVars
<1>5. GapInv'
  <2>1. \A n \in ToSet(shown') : n \in starts' \/ n - 1 \in ToSet(shown')
    BY <1>1, <1>3 DEF GapInv
  <2>2. CASE wire' = <<>> /\ stage' = "none"
    <3>1. Len(wire') = 0
      BY <2>2
    <3>2. QED
      BY <2>1, <2>2, <3>1 DEF GapInv
  <2>3. CASE UNCHANGED <<wire, stage>>
    <3>1. \A i \in 1..Len(wire) : IsCaption(wire[i]) =>
            \/ wire[i].n \in starts' \/ wire[i].n - 1 \in ToSet(shown')
            \/ \E j \in 1..i - 1 : IsCaption(wire[j]) /\ wire[j].n = wire[i].n - 1
      BY <1>1, <1>3 DEF GapInv
    <3>2. stage # "none" =>
            \/ said + 1 \in starts' \/ said \in ToSet(shown')
            \/ \E j \in 1..Len(wire) : IsCaption(wire[j]) /\ wire[j].n = said
      BY <1>1, <1>3 DEF GapInv
    <3>3. QED
      BY <2>1, <2>3, <3>1, <3>2 DEF GapInv
  <2>4. QED
    BY <1>4, <2>2, <2>3
<1>6. OrderInv'
  <2>1. \A i, j \in 1..Len(wire') :
           i < j /\ IsCaption(wire'[i]) /\ IsCaption(wire'[j]) => wire'[i].n < wire'[j].n
    <3>1. CASE wire' = <<>>
      <4>1. Len(wire') = 0
        BY <3>1
      <4>2. QED
        BY <4>1
    <3>2. CASE wire' = wire
      BY <3>2 DEF OrderInv
    <3>3. QED
      BY <1>4, <3>1, <3>2
  <2>2. CASE early
    BY <1>1, <2>1, <2>2 DEF OrderInv
  <2>3. CASE ~early
    <3>1. shown = <<>> /\ sock = "none"
      BY <1>1, <2>3 DEF LoadInv
    <3>2. wire' = <<>>
      BY <1>4, <3>1 DEF BaseInv
    <3>3. Len(wire') = 0
      BY <3>2
    <3>4. DOMAIN shown = {}
      BY <3>1
    <3>5. ToSet(shown) = {} /\ Ascending(shown)
      BY <3>4 DEF ToSet, Ascending
    <3>6. Ascending(shown')
      BY <1>3, <3>5
    <3>7. QED
      BY <1>1, <2>1, <2>3, <3>3, <3>6 DEF OrderInv
  <2>4. QED
    BY <2>2, <2>3
<1>7. QED
  BY <1>5, <1>6

LEMMA ReceiveKept ==
    ASSUME BaseInv, GapInv, OrderInv, Receive, UNCHANGED <<said, early, loading>>
    PROVE  GapInv' /\ OrderInv'
<1> DEFINE msg == Head(wire)
           got == IF IsCaption(msg) THEN {msg.n} ELSE {}
<1>1. /\ said \in Nat /\ shown \in Seq(Nat) /\ IsInjective(shown) /\ ToSet(shown) \subseteq 1..said
      /\ wire \in Seq(Msg) /\ wire # <<>> /\ wire' = Tail(wire)
      /\ \A i \in 1..Len(wire) : IsCaption(wire[i]) => wire[i].n \in 1..said
      /\ UNCHANGED <<stage, starts>>
  BY DEF Receive, BaseInv, ViewerTypeOK, WireOK
<1>2. /\ msg = wire[1] /\ 1 \in 1..Len(wire) /\ Len(wire) \in Nat /\ Len(wire') = Len(wire) - 1
      /\ \A i \in 1..Len(wire') : wire'[i] = wire[i + 1] /\ i + 1 \in 1..Len(wire)
  BY <1>1, Taken
<1>3. /\ ToSet(shown') = ToSet(shown) \cup got
      /\ ~early => Ascending(shown')
  <2>1. CASE OnCommitted(msg)
    <3>1. IsCaption(msg) /\ Add({msg.n}) /\ msg.n \in 1..said
      BY <1>1, <1>2, <2>1 DEF OnCommitted, IsCaption
    <3>2. {msg.n} \in SUBSET Nat /\ IsFiniteSet({msg.n})
      BY <1>1, <3>1, SaidCaptions
    <3>3. /\ ToSet(shown') = ToSet(shown) \cup {msg.n}
          /\ (/\ Ascending(shown)
              /\ \A m \in ToSet(shown), n \in {msg.n} : n \in ToSet(shown) \/ m < n)
             => Ascending(shown')
      BY <1>1, <3>1, <3>2, AddCaptions
    <3>4. ~early =>
            Ascending(shown) /\ (msg.n \in ToSet(shown) \/ \A m \in ToSet(shown) : m < msg.n)
      BY <1>2, <3>1 DEF OrderInv
    <3>5. QED
      BY <3>1, <3>3, <3>4
  <2>2. CASE \/ OnTentative(msg) \/ OnConnected(msg) \/ OnVenue(msg) \/ OnSessionEnd(msg)
             \/ OnTranscription(msg)
    <3>1. ~IsCaption(msg) /\ shown' = shown
      BY <2>2 DEF OnTentative, OnConnected, OnVenue, OnSessionEnd, OnTranscription, IsCaption
    <3>2. QED
      BY <3>1 DEF OrderInv
  <2>3. QED
    BY <2>1, <2>2 DEF Receive
<1>4. \A j \in 1..Len(wire) : j = 1 \/ (j - 1 \in 1..Len(wire') /\ wire'[j - 1] = wire[j])
  <2>1. TAKE j \in 1..Len(wire)
  <2>2. CASE j # 1
    <3>1. j - 1 \in 1..Len(wire') /\ (j - 1) + 1 = j
      BY <1>2, <2>2
    <3>2. QED
      BY <1>2, <3>1
  <2>3. QED
    BY <2>2
<1>5. GapInv'
  <2>1. \A n \in ToSet(shown') : n \in starts \/ n - 1 \in ToSet(shown')
    <3>1. ASSUME IsCaption(msg)
          PROVE  msg.n \in starts \/ msg.n - 1 \in ToSet(shown)
      <4>1. 1..1 - 1 = {}
        OBVIOUS
      <4>2. QED
        BY <1>2, <3>1, <4>1 DEF GapInv
    <3>2. QED
      BY <1>3, <3>1 DEF GapInv
  <2>2. ASSUME NEW i \in 1..Len(wire'), IsCaption(wire'[i])
        PROVE  \/ wire'[i].n \in starts \/ wire'[i].n - 1 \in ToSet(shown')
               \/ \E j \in 1..i - 1 : IsCaption(wire'[j]) /\ wire'[j].n = wire'[i].n - 1
    <3>1. wire'[i] = wire[i + 1] /\ i + 1 \in 1..Len(wire) /\ i + 1 - 1 = i
      BY <1>2, <2>2
    <3>2. CASE \/ wire[i + 1].n \in starts \/ wire[i + 1].n - 1 \in ToSet(shown)
      BY <1>3, <3>1, <3>2
    <3>3. ASSUME NEW j \in 1..i, IsCaption(wire[j]), wire[j].n = wire[i + 1].n - 1
          PROVE  \/ wire'[i].n - 1 \in ToSet(shown')
                 \/ \E k \in 1..i - 1 : IsCaption(wire'[k]) /\ wire'[k].n = wire'[i].n - 1
      <4>1. j \in 1..Len(wire)
        BY <1>2, <3>1
      <4>2. CASE j = 1
        BY <1>2, <1>3, <3>1, <3>3, <4>2
      <4>3. CASE j # 1
        <5>1. j - 1 \in 1..i - 1 /\ wire'[j - 1] = wire[j]
          BY <1>2, <1>4, <4>1, <4>3
        <5>2. QED
          BY <3>1, <3>3, <5>1
      <4>4. QED
        BY <4>2, <4>3
    <3>4. \/ wire[i + 1].n \in starts \/ wire[i + 1].n - 1 \in ToSet(shown)
          \/ \E j \in 1..i : IsCaption(wire[j]) /\ wire[j].n = wire[i + 1].n - 1
      BY <2>2, <3>1 DEF GapInv
    <3>5. QED
      BY <3>1, <3>2, <3>3, <3>4
  <2>3. ASSUME stage # "none"
        PROVE  \/ said + 1 \in starts \/ said \in ToSet(shown')
               \/ \E j \in 1..Len(wire') : IsCaption(wire'[j]) /\ wire'[j].n = said
    <3>1. ASSUME NEW j \in 1..Len(wire), IsCaption(wire[j]), wire[j].n = said
          PROVE  \/ said \in ToSet(shown')
                 \/ \E k \in 1..Len(wire') : IsCaption(wire'[k]) /\ wire'[k].n = said
      BY <1>2, <1>3, <1>4, <3>1
    <3>2. QED
      BY <1>3, <2>3, <3>1 DEF GapInv
  <2>4. QED
    BY <1>1, <2>1, <2>2, <2>3 DEF GapInv
<1>6. OrderInv'
  <2>1. ASSUME NEW i \in 1..Len(wire'), NEW j \in 1..Len(wire'), i < j,
               IsCaption(wire'[i]), IsCaption(wire'[j])
        PROVE  wire'[i].n < wire'[j].n
    <3>1. /\ wire'[i] = wire[i + 1] /\ i + 1 \in 1..Len(wire) /\ i + 1 < j + 1
          /\ wire'[j] = wire[j + 1] /\ j + 1 \in 1..Len(wire)
      BY <1>2, <2>1
    <3>2. QED
      BY <2>1, <3>1 DEF OrderInv
  <2>2. ASSUME ~early, NEW i \in 1..Len(wire'), IsCaption(wire'[i]), wire'[i].n \notin ToSet(shown')
        PROVE  \A m \in ToSet(shown') : m < wire'[i].n
    <3>1. wire'[i] = wire[i + 1] /\ i + 1 \in 1..Len(wire) /\ 1 < i + 1
      BY <1>2, <2>2
    <3>2. \A m \in ToSet(shown) : m < wire[i + 1].n
      BY <1>3, <2>2, <3>1 DEF OrderInv
    <3>3. IsCaption(msg) => msg.n < wire[i + 1].n
      BY <1>2, <2>2, <3>1 DEF OrderInv
    <3>4. QED
      BY <1>3, <3>1, <3>2, <3>3
  <2>3. QED
    BY <1>3, <2>1, <2>2 DEF OrderInv
<1>7. QED
  BY <1>5, <1>6

FaithfulInv == BaseInv /\ LoadInv /\ GapInv /\ OrderInv

LEMMA FaithfulInvariant == Spec => []FaithfulInv
<1>1. Init => FaithfulInv
  <2> SUFFICES ASSUME Init PROVE FaithfulInv
    OBVIOUS
  <2>1. /\ Len(wire) = 0 /\ DOMAIN shown = {} /\ stage = "none"
        /\ sock = "none" /\ timers = 0 /\ shown = <<>>
    BY DEF Init
  <2>2. ToSet(shown) = {} /\ Ascending(shown)
    BY <2>1 DEF ToSet, Ascending
  <2>3. QED
    BY <2>1, <2>2, InitBase DEF FaithfulInv, LoadInv, GapInv, OrderInv
<1>2. FaithfulInv /\ [Next]_vars => FaithfulInv'
  BY BaseKept, LoadKept, QuietSteps, GapQuiet, OrderQuiet, SayKept, AcceptKept, RenderKept,
     ReceiveKept DEF FaithfulInv
<1>3. QED
  BY <1>1, <1>2, PTL DEF Spec

\* Whatever is lost, reloaded or delivered twice: no caption is shown twice, none
\* is missing but where a connection or the history began, and all are in order
\* unless the page became visible while its history was loading.
THEOREM CaptionsAreFaithful == Spec => []ShownIsFaithful
<1>1. FaithfulInv => ShownIsFaithful
  BY DEF FaithfulInv, BaseInv, GapInv, OrderInv, ShownIsFaithful
<1>2. QED
  BY <1>1, FaithfulInvariant, PTL

-----------------------------------------------------------------------------
(* What the page says                                                      *)

Word(isLive) == IF isLive THEN "live" ELSE "offline"
Flag(isOn) == IF isOn THEN "on" ELSE "off"

\* What a message says of the venue, to whom knew x or y of it before.  The hint
\* is_live of a transcription event may be ignored: if it says something else,
\* what the page has of it is not certain.
Words == {"live", "offline", "unsure"}
LiveAfter(m, x) ==
    IF m.type = "connected" THEN Word(m.live)
    ELSE IF m.type = "venue_live" THEN "live"
    ELSE IF m.type = "venue_offline" THEN "offline"
    ELSE IF m.type = "transcription" /\ x # Word(m.live) THEN "unsure" ELSE x
FlagAfter(m, y) == IF m.type \in {"connected", "transcription"} THEN Flag(m.enabled) ELSE y

\* What is known of the venue after each of the messages on their way.
Chain(l, e) ==
    /\ l \in [0..Len(wire) -> Words]
    /\ e \in [0..Len(wire) -> {"on", "off"}]
    /\ \A i \in 1..Len(wire) :
          /\ l[i] = LiveAfter(wire[i], l[i - 1])
          /\ e[i] = FlagAfter(wire[i], e[i - 1])

\* What is known in the end is true, but for a change that is not broadcast yet,
\* or a broadcast that was not true; what is known at first is what the page says,
\* once it has been greeted.
Greeted == \A i \in 1..Len(wire) : wire[i].type # "connected"
Truthful(l, e) ==
    /\ stage = "open" /\ ~untrue => l[Len(wire)] = Word(live)
    /\ stage = "open" /\ ~untold => e[Len(wire)] = Flag(enabled)
    /\ e[0] = Flag(~paused)
    /\ stage = "open" /\ Greeted =>
           IF paused THEN status = "paused" ELSE l[0] \in {status, "unsure"}

ViewInv ==
    /\ stage # "open" => ~outdated
    /\ stage # "none" /\ ~outdated => \E l, e : Chain(l, e) /\ Truthful(l, e)

LEMMA AfterTypes ==
    ASSUME NEW m \in Msg, NEW x \in Words, NEW y \in {"on", "off"}
    PROVE  LiveAfter(m, x) \in Words /\ FlagAfter(m, y) \in {"on", "off"}
BY DEF LiveAfter, FlagAfter, Word, Flag, Words

LEMMA ChainAppended ==
    ASSUME wire \in Seq(Msg), NEW l, NEW e, Chain(l, e), NEW m \in Msg, wire' = Append(wire, m)
    PROVE  \E l2, e2 :
              /\ Chain(l2, e2)'
              /\ l2[0] = l[0] /\ e2[0] = e[0]
              /\ l2[Len(wire')] = LiveAfter(m, l[Len(wire)])
              /\ e2[Len(wire')] = FlagAfter(m, e[Len(wire)])
<1> DEFINE k == Len(wire)
           x == LiveAfter(m, l[k])
           y == FlagAfter(m, e[k])
<1>1. PICK l2 : l2 = [i \in 0..k + 1 |-> IF i = k + 1 THEN x ELSE l[i]]
  OBVIOUS
<1>2. PICK e2 : e2 = [i \in 0..k + 1 |-> IF i = k + 1 THEN y ELSE e[i]]
  OBVIOUS
<1>3. /\ k \in Nat /\ Len(wire') = k + 1
      /\ \A i \in 1..k : wire'[i] = wire[i]
      /\ wire'[k + 1] = m
      /\ \A i \in 1..Len(wire') : i \in 1..k \/ i = k + 1
  BY Appended
<1>4. /\ l \in [0..k -> Words] /\ e \in [0..k -> {"on", "off"}]
      /\ k \in 0..k
  BY <1>3 DEF Chain
<1>5. x \in Words /\ y \in {"on", "off"}
  BY <1>4, AfterTypes
<1> HIDE DEF x, y
<1>7. l2 \in [0..k + 1 -> Words] /\ e2 \in [0..k + 1 -> {"on", "off"}]
  <2>1. \A i \in 0..k + 1 : i = k + 1 \/ i \in 0..k
    BY <1>3
  <2>2. QED
    BY <1>4, <1>5, <1>1, <1>2, <2>1
<1>8. /\ l2[k + 1] = x /\ e2[k + 1] = y
      /\ \A i \in 0..k : l2[i] = l[i] /\ e2[i] = e[i]
  BY <1>3, <1>1, <1>2
<1>9. /\ l2[k + 1] = LiveAfter(wire'[k + 1], l2[k])
      /\ e2[k + 1] = FlagAfter(wire'[k + 1], e2[k])
  BY <1>3, <1>4, <1>8 DEF x, y
<1>10. \A i \in 1..Len(wire') :
          /\ l2[i] = LiveAfter(wire'[i], l2[i - 1])
          /\ e2[i] = FlagAfter(wire'[i], e2[i - 1])
  <2>1. TAKE i \in 1..Len(wire')
  <2>2. CASE i \in 1..k
    <3>1. i \in 0..k /\ i - 1 \in 0..k /\ wire'[i] = wire[i]
      BY <1>3, <2>2
    <3>2. QED
      BY <1>8, <2>2, <3>1 DEF Chain
  <2>3. CASE i # k + 1
    BY <1>3, <2>2, <2>3
  <2>4. CASE i = k + 1
    <3>1. i - 1 = k
      BY <1>3, <2>4
    <3>2. QED
      BY <1>9, <2>4, <3>1
  <2>5. QED
    BY <2>3, <2>4
<1>11. Chain(l2, e2)'
  BY <1>3, <1>7, <1>10 DEF Chain
<1>12. l2[0] = l[0] /\ e2[0] = e[0]
  BY <1>3, <1>8
<1>13. l2[Len(wire')] = LiveAfter(m, l[Len(wire)]) /\ e2[Len(wire')] = FlagAfter(m, e[Len(wire)])
  BY <1>3, <1>8 DEF x, y, k
<1>14. QED
  BY <1>11, <1>12, <1>13

LEMMA ChainTaken ==
    ASSUME wire \in Seq(Msg), wire # <<>>, NEW l, NEW e, Chain(l, e), wire' = Tail(wire)
    PROVE  \E l2, e2 :
              /\ Chain(l2, e2)'
              /\ l2[0] = l[1] /\ e2[0] = e[1]
              /\ l2[Len(wire')] = l[Len(wire)] /\ e2[Len(wire')] = e[Len(wire)]
<1> DEFINE k == Len(wire) - 1
<1>1. PICK l2 : l2 = [i \in 0..k |-> l[i + 1]]
  OBVIOUS
<1>2. PICK e2 : e2 = [i \in 0..k |-> e[i + 1]]
  OBVIOUS
<1>3. /\ Len(wire) \in Nat /\ Len(wire') = k /\ 1 \in 1..Len(wire)
      /\ \A i \in 1..k : wire'[i] = wire[i + 1] /\ i + 1 \in 1..Len(wire)
  BY Taken
<1>4. /\ k \in Nat /\ k \in 0..k /\ k + 1 = Len(wire) /\ 0 \in 0..k
      /\ \A i \in 0..k : i + 1 \in 0..Len(wire)
  BY <1>3
<1>5. l \in [0..Len(wire) -> Words] /\ e \in [0..Len(wire) -> {"on", "off"}]
  BY DEF Chain
<1> HIDE DEF k
<1>6. l2 \in [0..k -> Words] /\ e2 \in [0..k -> {"on", "off"}]
  BY <1>4, <1>5, <1>1, <1>2
<1>7. \A i \in 0..k : l2[i] = l[i + 1] /\ e2[i] = e[i + 1]
  BY <1>1, <1>2
<1>8. ASSUME NEW i \in 1..k
      PROVE  /\ l2[i] = LiveAfter(wire'[i], l2[i - 1])
             /\ e2[i] = FlagAfter(wire'[i], e2[i - 1])
  <2>1. /\ i \in 0..k /\ i - 1 \in 0..k /\ (i - 1) + 1 = i /\ (i + 1) - 1 = i
        /\ i + 1 \in 1..Len(wire) /\ wire'[i] = wire[i + 1]
    BY <1>3, <1>4
  <2>2. l2[i] = l[i + 1] /\ e2[i] = e[i + 1] /\ l2[i - 1] = l[i] /\ e2[i - 1] = e[i]
    BY <1>7, <2>1
  <2>3. /\ l[i + 1] = LiveAfter(wire[i + 1], l[i])
        /\ e[i + 1] = FlagAfter(wire[i + 1], e[i])
    BY <2>1 DEF Chain
  <2>4. QED
    BY <2>1, <2>2, <2>3
<1>9. Chain(l2, e2)'
  BY <1>3, <1>6, <1>8 DEF Chain
<1>10. l2[0] = l[1] /\ e2[0] = e[1]
  BY <1>4, <1>7
<1>11. l2[Len(wire')] = l[Len(wire)] /\ e2[Len(wire')] = e[Len(wire)]
  BY <1>3, <1>4, <1>7
<1>12. QED
  BY <1>9, <1>10, <1>11

\* The connection goes on, and one more message with it.
LEMMA ViewBroadcast ==
    ASSUME BaseInv, ViewInv, NEW m \in Msg, Broadcast(m),
           UNCHANGED <<stage, outdated, paused, status>>,
           \A x : ~untrue' /\ (~untrue => x = Word(live)) => LiveAfter(m, x) = Word(live'),
           m.type # "connected",
           \/ m.type # "transcription" /\ UNCHANGED <<enabled, untold>>
           \/ m.type = "transcription" /\ Flag(m.enabled) = Flag(enabled')
    PROVE  ViewInv'
<1> SUFFICES ASSUME stage # "none", ~outdated
             PROVE  \E l, e : Chain(l, e)' /\ Truthful(l, e)'
  BY DEF ViewInv
<1>1. wire' = Append(wire, m) /\ wire \in Seq(Msg)
  BY DEF Broadcast, BaseInv, ViewerTypeOK, WireOK
<1>2. PICK l, e : Chain(l, e) /\ Truthful(l, e)
  BY DEF ViewInv
<1>3. stage = "open" /\ ~untrue => l[Len(wire)] = Word(live)
  BY <1>2 DEF Truthful
<1>4. PICK l2, e2 :
          /\ Chain(l2, e2)'
          /\ l2[0] = l[0] /\ e2[0] = e[0]
          /\ l2[Len(wire')] = LiveAfter(m, l[Len(wire)])
          /\ e2[Len(wire')] = FlagAfter(m, e[Len(wire)])
  BY <1>1, <1>2, ChainAppended
<1>5. stage = "open" /\ ~untrue' => l2[Len(wire')] = Word(live')
  BY <1>3, <1>4
<1>6. stage = "open" /\ ~untold' => e2[Len(wire')] = Flag(enabled')
  <2>1. CASE m.type = "transcription" /\ Flag(m.enabled) = Flag(enabled')
    BY <1>4, <2>1 DEF FlagAfter
  <2>2. CASE m.type # "transcription" /\ UNCHANGED <<enabled, untold>>
    BY <1>2, <1>4, <2>2 DEF FlagAfter, Truthful
  <2>3. QED
    BY <2>1, <2>2
<1>7. e2[0] = Flag(~paused)
  BY <1>2, <1>4 DEF Truthful
<1>8. stage = "open" /\ Greeted' =>
          IF paused THEN status = "paused" ELSE l2[0] \in {status, "unsure"}
  <2>1. \A i \in 1..Len(wire) : wire'[i] = wire[i] /\ i \in 1..Len(wire')
    BY <1>1, Appended
  <2>2. Greeted' => Greeted
    BY <2>1 DEF Greeted
  <2>3. QED
    BY <1>2, <1>4, <2>2 DEF Truthful
<1>9. Truthful(l2, e2)'
  BY <1>5, <1>6, <1>7, <1>8 DEF Truthful
<1>10. QED
  BY <1>4, <1>9

LEMMA ViewVenue ==
    ASSUME BaseInv, ViewInv, Venue, UNCHANGED <<saysVars>>
    PROVE  ViewInv'
<1> USE DEF saysVars, connVars
<1>1. ASSUME NEW m \in Msg, m.type \in {"committed", "tentative", "session_end"}, Broadcast(m),
             UNCHANGED <<stage, outdated, enabled, untold, live, untrue>>
      PROVE  ViewInv'
  <2>1. \A x : ~untrue' /\ (~untrue => x = Word(live)) => LiveAfter(m, x) = Word(live')
    BY <1>1 DEF LiveAfter
  <2>2. QED
    BY <1>1, <2>1, ViewBroadcast
<1>2. ASSUME NEW isLive \in BOOLEAN, Broadcast(Status(isLive)), ~untrue' => live' = isLive,
             UNCHANGED <<stage, outdated, enabled, untold>>
      PROVE  ViewInv'
  <2> DEFINE m == Status(isLive)
  <2>1. m \in Msg /\ m.type \in {"venue_live", "venue_offline"}
    BY DEF Msg, Status
  <2>2. \A x : ~untrue' => LiveAfter(m, x) = Word(live')
    BY <1>2 DEF LiveAfter, Word, Status
  <2>3. QED
    BY <1>2, <2>1, <2>2, ViewBroadcast
<1>3. ASSUME UNCHANGED <<stage, outdated, wire, paused, status>>,
             untold' \/ UNCHANGED <<enabled, untold>>,
             ~untrue' => ~untrue /\ live' = live
      PROVE  ViewInv'
  <2>1. \A l, e : Chain(l, e) /\ Truthful(l, e) => Chain(l, e)' /\ Truthful(l, e)'
    BY <1>3 DEF Chain, Truthful, Greeted
  <2>2. QED
    BY <1>3, <2>1 DEF ViewInv
<1>4. CASE Say
  <2>1. [type |-> "committed", n |-> said'] \in Msg
    BY <1>4 DEF Say, Msg, BaseInv, ViewerTypeOK
  <2>2. QED
    BY <1>1, <1>4, <2>1 DEF Say, liveVars, flagVars
<1>5. CASE Guess
  <2>1. [type |-> "tentative"] \in Msg
    BY DEF Msg
  <2>2. QED
    BY <1>1, <1>5, <2>1 DEF Guess, liveVars, flagVars
<1>6. CASE Flip
  <2>1. live' \in BOOLEAN
    BY <1>6 DEF Flip
  <2>2. QED
    BY <1>2, <1>6, <2>1 DEF Flip, flagVars
<1>7. CASE Offline
  BY <1>2, <1>7 DEF Offline, flagVars, BaseInv, ViewerTypeOK
<1>8. CASE SessionEnd
  <2>1. [type |-> "session_end"] \in Msg
    BY DEF Msg
  <2>2. CASE Broadcast([type |-> "session_end"])
    BY <1>1, <1>8, <2>1, <2>2 DEF SessionEnd, flagVars
  <2>3. CASE UNCHANGED wire
    BY <1>3, <1>8, <2>3 DEF SessionEnd, flagVars
  <2>4. QED
    BY <1>8, <2>2, <2>3 DEF SessionEnd
<1>9. CASE Pop
  <2>1. ~untrue' => ~untrue /\ live' = live
    BY <1>9 DEF Pop, BaseInv, ViewerTypeOK
  <2>2. QED
    BY <1>3, <1>9, <2>1 DEF Pop, flagVars
<1>10. CASE Store \/ Toggle
  BY <1>3, <1>10 DEF Store, Toggle, liveVars, flagVars
<1>11. CASE Tell
  <2> DEFINE m == [type |-> "transcription", enabled |-> enabled, live |-> live]
  <2>1. m \in Msg /\ Broadcast(m) /\ UNCHANGED <<stage, outdated, enabled, live, untrue>>
    BY <1>11 DEF Tell, liveVars, Msg, BaseInv, ViewerTypeOK
  <2>2. m.type = "transcription" /\ m.live = live /\ m.enabled = enabled
    OBVIOUS
  <2> HIDE DEF m
  <2>3. \A x : ~untrue' /\ (~untrue => x = Word(live)) => LiveAfter(m, x) = Word(live')
    BY <2>1, <2>2 DEF LiveAfter
  <2>4. QED
    BY <2>1, <2>2, <2>3, ViewBroadcast
<1>12. QED
  BY <1>4, <1>5, <1>6, <1>7, <1>8, <1>9, <1>10, <1>11 DEF Venue

\* A connection begins with nothing on its way.
LEMMA ViewAccept ==
    ASSUME BaseInv, ViewInv, Accept, UNCHANGED <<venueVars, saysVars>>
    PROVE  ViewInv'
<1>1. /\ wire = <<>> /\ wire' = wire /\ stage' = "subscribed" /\ outdated' = outdated
      /\ stage = "none" /\ UNCHANGED <<live, paused>>
  BY DEF Accept, BaseInv, venueVars, liveVars, saysVars
<1>2. Len(wire') = 0
  BY <1>1
<1>3. PICK l : l = [i \in {0} |-> Word(live)]
  OBVIOUS
<1>4. PICK e : e = [i \in {0} |-> Flag(~paused)]
  OBVIOUS
<1>5. 0..0 = {0} /\ 1..0 = {}
  OBVIOUS
<1>6. Chain(l, e)'
  BY <1>2, <1>3, <1>4, <1>5 DEF Chain, Word, Flag, Words
<1>7. Truthful(l, e)'
  BY <1>1, <1>2, <1>3, <1>4 DEF Truthful
<1>8. QED
  BY <1>1, <1>6, <1>7 DEF ViewInv

\* The greeting is true, or the page will be told, or it counts as outdated.
LEMMA ViewGreet ==
    ASSUME BaseInv, ViewInv, Greet, UNCHANGED <<venueVars, saysVars>>
    PROVE  ViewInv'
<1> DEFINE m == [type |-> "connected", live |-> known.live, enabled |-> known.enabled]
<1>1. /\ stage = "read" /\ stage' = "open" /\ wire' = Append(wire, m) /\ wire \in Seq(Msg)
      /\ outdated' = ((known.live # live /\ ~untrue) \/ (known.enabled # enabled /\ ~untold))
      /\ UNCHANGED <<live, enabled, untold, untrue, paused, status>> /\ m \in Msg
  BY DEF Greet, venueVars, liveVars, flagVars, saysVars, BaseInv, ViewerTypeOK, WireOK, Msg, View
<1> SUFFICES ASSUME ~outdated'
             PROVE  \E l, e : Chain(l, e)' /\ Truthful(l, e)'
  BY <1>1 DEF ViewInv
<1>2. (known.live = live \/ untrue) /\ (known.enabled = enabled \/ untold)
  BY <1>1
<1>3. PICK l, e : Chain(l, e) /\ Truthful(l, e)
  BY <1>1 DEF ViewInv
<1>4. m.type = "connected" /\ m.live = known.live /\ m.enabled = known.enabled
  OBVIOUS
<1>5. PICK l2, e2 :
          /\ Chain(l2, e2)'
          /\ l2[0] = l[0] /\ e2[0] = e[0]
          /\ l2[Len(wire')] = LiveAfter(m, l[Len(wire)])
          /\ e2[Len(wire')] = FlagAfter(m, e[Len(wire)])
  BY <1>1, <1>3, <1>4, ChainAppended
<1>6. ~untrue' => l2[Len(wire')] = Word(live')
  BY <1>1, <1>2, <1>4, <1>5 DEF LiveAfter
<1>7. ~untold' => e2[Len(wire')] = Flag(enabled')
  BY <1>1, <1>2, <1>4, <1>5 DEF FlagAfter
<1>8. ~Greeted'
  <2>1. /\ Len(wire) \in Nat /\ Len(wire') = Len(wire) + 1 /\ wire'[Len(wire) + 1] = m
    BY <1>1, Appended
  <2>2. Len(wire') \in 1..Len(wire') /\ wire'[Len(wire')].type = "connected"
    BY <1>4, <2>1
  <2>3. QED
    BY <2>2 DEF Greeted
<1>9. e2[0] = Flag(~paused')
  BY <1>1, <1>3, <1>5 DEF Truthful
<1>10. Truthful(l2, e2)'
  BY <1>6, <1>7, <1>8, <1>9 DEF Truthful
<1>11. QED
  BY <1>5, <1>10

\* The page takes in what a message says.
LEMMA ViewReceive ==
    ASSUME BaseInv, ViewInv, Receive, UNCHANGED venueVars
    PROVE  ViewInv'
<1> DEFINE msg == Head(wire)
<1>1. /\ wire # <<>> /\ wire' = Tail(wire) /\ wire \in Seq(Msg)
      /\ UNCHANGED <<stage, outdated, live, enabled, untold, untrue>> /\ paused \in BOOLEAN
  BY DEF Receive, venueVars, liveVars, flagVars, BaseInv, ViewerTypeOK, WireOK
<1> SUFFICES ASSUME stage # "none", ~outdated
             PROVE  \E l, e : Chain(l, e)' /\ Truthful(l, e)'
  BY <1>1 DEF ViewInv
<1>2. PICK l, e : Chain(l, e) /\ Truthful(l, e)
  BY DEF ViewInv
<1>3. PICK l2, e2 :
          /\ Chain(l2, e2)'
          /\ l2[0] = l[1] /\ e2[0] = e[1]
          /\ l2[Len(wire')] = l[Len(wire)] /\ e2[Len(wire')] = e[Len(wire)]
  BY <1>1, <1>2, ChainTaken
<1>4. /\ msg = wire[1] /\ msg \in Msg /\ 1 \in 1..Len(wire)
      /\ Len(wire) \in Nat /\ Len(wire') = Len(wire) - 1
      /\ \A i \in 1..Len(wire') : wire'[i] = wire[i + 1] /\ i + 1 \in 1..Len(wire)
  BY <1>1, Taken
<1>5. l[1] = LiveAfter(msg, l[0]) /\ e[1] = FlagAfter(msg, e[0])
  <2>1. 1 - 1 = 0
    OBVIOUS
  <2>2. QED
    BY <1>2, <1>4, <2>1 DEF Chain
<1>6. e[0] = Flag(~paused)
  BY <1>2 DEF Truthful
<1>7. Greeted' => Greeted \/ msg.type = "connected"
  <2>1. \A j \in 1..Len(wire) : j = 1 \/ (j - 1 \in 1..Len(wire') /\ wire'[j - 1] = wire[j])
    <3>1. TAKE j \in 1..Len(wire)
    <3>2. CASE j # 1
      <4>1. j - 1 \in 1..Len(wire') /\ (j - 1) + 1 = j
        BY <1>4, <3>2
      <4>2. QED
        BY <1>4, <4>1
    <3>3. QED
      BY <3>2
  <2>2. QED
    BY <1>4, <2>1 DEF Greeted
<1>8. e[1] = Flag(~paused')
  <2>1. CASE OnCommitted(msg) \/ OnTentative(msg) \/ OnVenue(msg) \/ OnSessionEnd(msg)
    <3>1. paused' = paused /\ msg.type \notin {"connected", "transcription"}
      BY <2>1 DEF OnCommitted, OnTentative, OnVenue, OnSessionEnd, saysVars
    <3>2. QED
      BY <1>5, <1>6, <3>1 DEF FlagAfter
  <2>2. CASE OnConnected(msg) \/ OnTranscription(msg)
    <3>1. paused' = ~msg.enabled /\ msg.type \in {"connected", "transcription"}
      BY <2>2 DEF OnConnected, OnTranscription
    <3>2. msg.enabled \in BOOLEAN
      BY <1>4, <3>1, MsgFields
    <3>3. QED
      BY <1>5, <3>1, <3>2 DEF FlagAfter, Flag
  <2>3. QED
    BY <2>1, <2>2 DEF Receive
<1>9. ASSUME stage = "open", Greeted'
      PROVE  IF paused' THEN status' = "paused" ELSE l[1] \in {status', "unsure"}
  <2>1. CASE OnConnected(msg)
    BY <1>5, <2>1 DEF OnConnected, ShowStatus, LiveAfter, Word
  <2>2. CASE msg.type # "connected"
    <3>1. IF paused THEN status = "paused" ELSE l[0] \in {status, "unsure"}
      BY <1>2, <1>7, <1>9, <2>2 DEF Truthful
    <3>2. CASE OnCommitted(msg) \/ OnTentative(msg) \/ OnSessionEnd(msg)
      BY <1>5, <3>1, <3>2 DEF OnCommitted, OnTentative, OnSessionEnd, saysVars, LiveAfter
    <3>3. CASE OnVenue(msg)
      BY <1>5, <3>1, <3>3 DEF OnVenue, ShowStatus, LiveAfter, Word
    <3>4. CASE OnTranscription(msg)
      <4>1. l[1] \in {l[0], "unsure"} /\ l[1] \in {Word(msg.live), "unsure"}
        BY <1>5, <3>4 DEF OnTranscription, LiveAfter
      <4>2. CASE paused' = paused
        BY <3>1, <3>4, <4>1, <4>2 DEF OnTranscription
      <4>3. CASE paused' # paused
        BY <3>4, <4>1, <4>3 DEF OnTranscription, ShowStatus, Word
      <4>4. QED
        BY <4>2, <4>3
    <3>5. QED
      BY <2>2, <3>2, <3>3, <3>4 DEF Receive, OnConnected
  <2>3. QED
    BY <2>1, <2>2 DEF Receive, OnCommitted, OnTentative, OnVenue, OnSessionEnd, OnTranscription
<1>10. Truthful(l2, e2)'
  <2>1. /\ stage = "open" /\ ~untrue => l[Len(wire)] = Word(live)
        /\ stage = "open" /\ ~untold => e[Len(wire)] = Flag(enabled)
    BY <1>2 DEF Truthful
  <2>2. QED
    BY <1>1, <1>3, <1>8, <1>9, <2>1 DEF Truthful
<1>11. QED
  BY <1>3, <1>10

LEMMA ViewKept ==
    ASSUME BaseInv, ViewInv, [Next]_vars
    PROVE  ViewInv'
<1>1. CASE stage' = "none" /\ outdated' = FALSE
  BY <1>1 DEF ViewInv
<1>2. CASE UNCHANGED <<wire, stage, outdated, paused, status, live, enabled, untold, untrue>>
  <2>1. \A l, e : Chain(l, e) /\ Truthful(l, e) => Chain(l, e)' /\ Truthful(l, e)'
    BY <1>2 DEF Chain, Truthful, Greeted
  <2>2. QED
    BY <1>2, <2>1 DEF ViewInv
<1>3. CASE Handler
  <2>1. CASE Accept /\ UNCHANGED <<venueVars, loadVars, saysVars, destroyed>>
    BY <2>1, ViewAccept
  <2>2. CASE ReadFlag /\ UNCHANGED <<venueVars, loadVars, sockVars, textVars, saysVars, destroyed>>
    <3>1. /\ stage = "subscribed" /\ stage' = "read"
          /\ UNCHANGED <<wire, outdated, paused, status, live, enabled, untold, untrue>>
      BY <2>2 DEF ReadFlag, venueVars, liveVars, flagVars, saysVars
    <3>2. \A l, e : Chain(l, e) /\ Truthful(l, e) => Chain(l, e)' /\ Truthful(l, e)'
      BY <3>1 DEF Chain, Truthful, Greeted
    <3>3. QED
      BY <3>1, <3>2 DEF ViewInv
  <2>3. CASE Greet /\ UNCHANGED <<venueVars, loadVars, sockVars, textVars, saysVars, destroyed>>
    BY <2>3, ViewGreet
  <2>4. QED
    BY <1>3, <2>1, <2>2, <2>3 DEF Handler
<1>4. CASE Page
  <2>1. CASE TimerFires /\ UNCHANGED <<venueVars, loadVars, textVars, destroyed>>
    BY <1>1, <1>2, <2>1 DEF TimerFires, Connect, HandlerEnds, connVars, saysVars, venueVars,
    liveVars, flagVars
  <2>2. CASE Answer /\ UNCHANGED <<venueVars, connVars, sockVars, textVars, saysVars, destroyed>>
    BY <1>2, <2>2 DEF connVars, saysVars, venueVars,
    liveVars, flagVars
  <2>3. CASE Render /\ UNCHANGED <<venueVars, destroyed>>
    BY <1>1, <1>2, <2>3 DEF Render, Connect, HandlerEnds, connVars, saysVars, venueVars,
    liveVars, flagVars
  <2>4. CASE Receive /\ UNCHANGED <<venueVars, loadVars, sockVars, destroyed>>
    BY <2>4, ViewReceive
  <2>5. CASE OnClose /\ UNCHANGED <<venueVars, loadVars, textVars, destroyed>>
    BY <1>1, <2>5 DEF OnClose, HandlerEnds
  <2>6. QED
    BY <1>4, <2>1, <2>2, <2>3, <2>4, <2>5 DEF Page
<1>5. CASE World
  <2>1. CASE Venue /\ UNCHANGED <<loadVars, sockVars, textVars, saysVars, destroyed>>
    BY <2>1, ViewVenue
  <2>2. CASE LinkDown /\ UNCHANGED <<venueVars, loadVars, textVars, destroyed>>
    BY <1>1, <2>2 DEF LinkDown, HandlerEnds
  <2>3. CASE Visible /\ UNCHANGED <<venueVars, textVars, destroyed>>
    BY <1>1, <1>2, <2>3 DEF Visible, Connect, HandlerEnds, connVars, saysVars, venueVars,
    liveVars, flagVars
  <2>4. CASE Destroy /\ UNCHANGED <<venueVars, loadVars, textVars>>
    BY <1>1, <2>4 DEF Destroy, HandlerEnds
  <2>5. QED
    BY <1>5, <2>1, <2>2, <2>3, <2>4 DEF World
<1>6. CASE UNCHANGED vars
  BY <1>2, <1>6 DEF vars, venueVars, liveVars, flagVars, connVars, saysVars
<1>7. QED
  BY <1>3, <1>4, <1>5, <1>6 DEF Next

\* Under the paused banner there is no tentative text.
BannerInv == paused => ~tentative

LEMMA BannerReceive ==
    ASSUME BannerInv, Receive
    PROVE  BannerInv'
<1> DEFINE msg == Head(wire)
<1>1. CASE OnCommitted(msg)
  BY <1>1 DEF OnCommitted, BannerInv
<1>2. CASE OnTentative(msg)
  BY <1>2 DEF OnTentative, saysVars, BannerInv
<1>3. CASE OnConnected(msg)
  BY <1>3 DEF OnConnected, BannerInv
<1>4. CASE OnVenue(msg) \/ OnSessionEnd(msg)
  BY <1>4 DEF OnVenue, OnSessionEnd, saysVars, BannerInv
<1>5. CASE OnTranscription(msg)
  BY <1>5 DEF OnTranscription, BannerInv
<1>6. QED
  BY <1>1, <1>2, <1>3, <1>4, <1>5 DEF Receive

LEMMA BannerKept ==
    ASSUME BannerInv, [Next]_vars
    PROVE  BannerInv'
<1>1. CASE UNCHANGED <<paused, tentative>>
  BY <1>1 DEF BannerInv
<1>2. CASE Handler
  BY <1>1, <1>2 DEF Handler, Accept, saysVars, textVars
<1>3. CASE Page
  <2>1. CASE TimerFires /\ UNCHANGED <<venueVars, loadVars, textVars, destroyed>>
    BY <1>1, <2>1 DEF TimerFires, Connect, saysVars, textVars
  <2>2. CASE Render /\ UNCHANGED <<venueVars, destroyed>>
    BY <2>2 DEF Render, Connect, saysVars, BannerInv
  <2>3. CASE Receive
    BY <2>3, BannerReceive
  <2>4. CASE OnClose /\ UNCHANGED <<venueVars, loadVars, textVars, destroyed>>
    BY <1>1, <2>4 DEF OnClose, textVars
  <2>5. QED
    BY <1>1, <1>3, <2>1, <2>2, <2>3, <2>4 DEF Page, textVars, saysVars
<1>4. CASE World
  BY <1>1, <1>4 DEF World, LinkDown, Visible, Connect, Destroy, saysVars, textVars
<1>5. CASE UNCHANGED vars
  BY <1>1, <1>5 DEF vars, saysVars, textVars
<1>6. QED
  BY <1>2, <1>3, <1>4, <1>5 DEF Next

PageInv == BaseInv /\ ViewInv /\ BannerInv

\* Whatever is paused, resumed, ended, lost or greeted late: once all messages
\* have arrived and what they told of the venue is true, the page says it, unless
\* its greeting had been overtaken; and the paused banner never stands over a
\* tentative text.
THEOREM PageIsRight == Spec => []PageAgrees
<1>1. Init => PageInv
  <2> SUFFICES ASSUME Init PROVE PageInv
    OBVIOUS
  <2>1. ViewInv /\ BannerInv
    BY DEF Init, ViewInv, BannerInv
  <2>2. QED
    BY <2>1, InitBase DEF PageInv
<1>2. PageInv /\ [Next]_vars => PageInv'
  BY BaseKept, ViewKept, BannerKept DEF PageInv
<1>3. PageInv => PageAgrees
  <2> SUFFICES ASSUME PageInv PROVE PageAgrees
    OBVIOUS
  <2>1. ASSUME Quiet, ~outdated PROVE Agrees
    <3>1. PICK l, e : Chain(l, e) /\ Truthful(l, e)
      BY <2>1 DEF PageInv, ViewInv, Quiet
    <3>2. Len(wire) = 0 /\ Greeted
      BY <2>1 DEF Quiet, Greeted
    <3>3. /\ l[0] = Word(live) /\ e[0] = Flag(enabled) /\ e[0] = Flag(~paused)
          /\ IF paused THEN status = "paused" ELSE l[0] \in {status, "unsure"}
      BY <2>1, <3>1, <3>2 DEF Truthful, Quiet
    <3>4. paused \in BOOLEAN /\ enabled \in BOOLEAN
      BY DEF PageInv, BaseInv, ViewerTypeOK
    <3>5. paused = ~enabled
      BY <3>3, <3>4 DEF Flag
    <3>6. QED
      BY <3>3, <3>4, <3>5 DEF Agrees, Word
  <2>2. QED
    BY <2>1 DEF PageInv, BannerInv, PageAgrees
<1>4. QED
  BY <1>1, <1>2, <1>3, PTL DEF Spec
=============================================================================
