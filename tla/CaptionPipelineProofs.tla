---------------------- MODULE CaptionPipelineProofs ----------------------
(***************************************************************************)
(* The safety of CaptionPipeline for any number of chunks, any bounds of   *)
(* the ring, the queue and a message, and any losses of connections and    *)
(* failures of the database.                                               *)
(***************************************************************************)
EXTENDS CaptionPipeline, SequenceTheorems, TLAPS

-----------------------------------------------------------------------------
(* Types                                                                   *)

PipelineTypeOK ==
    /\ pushed \in 0..MaxChunks
    /\ speech \subseteq Chunks
    /\ queue \in Seq(Chunks) /\ ring \in Seq(Chunks) /\ sent \in Seq(Chunks)
    /\ heard \in Seq(Chunks) /\ shown \in Seq(Chunks)
    /\ done \in Nat /\ mark \in Nat
    /\ last \in [heard : Seq(Chunks), done : Nat]
    /\ replayed \subseteq Chunks
    /\ receiver \in {"off", "idle", "await", "gone"}
    /\ todo \subseteq Nat \X Chunks
    /\ committed \subseteq Nat

\* The last elements of a sequence are elements of it.
LEMMA LastOfType ==
    ASSUME NEW S, NEW s \in Seq(S), NEW n \in Nat
    PROVE  LastOf(n, s) \in Seq(S)
<1>1. CASE Len(s) <= n
  BY <1>1 DEF LastOf
<1>2. CASE ~(Len(s) <= n)
  <2> DEFINE m == Len(s) - n + 1
  <2>1. Len(s) \in Nat /\ m \in 1..Len(s) + 1
    BY <1>2, LenProperties
  <2>2. \A k \in m..Len(s) : s[k] \in S
    BY <2>1, ElementOfSeq
  <2>3. SubSeq(s, m, Len(s)) \in Seq(S)
    BY <2>1, <2>2, SubSeqProperties
  <2>4. QED
    BY <1>2, <2>3 DEF LastOf
<1>3. QED
  BY <1>1, <1>2

\* What the look at segments comes to: one is broadcast, or none is new.
LEMMA ProceedCases ==
    ASSUME NEW segments, NEW text, Proceed(segments, text)
    PROVE  \/ /\ UNCHANGED <<committed, shown>>
              /\ todo' = {} /\ receiver' = "idle"
           \/ \E seg \in segments :
                 /\ seg[1] \notin committed
                 /\ committed' = committed \cup {seg[1]}
                 /\ shown' = Append(shown, seg[2])
                 /\ todo' \subseteq segments
                 /\ receiver' = "await"
BY DEF Proceed, Fresh

LEMMA ProceedTypes ==
    ASSUME PipelineTypeOK, NEW segments \in SUBSET (Nat \X Chunks), NEW text,
           Proceed(segments, text)
    PROVE  /\ shown' \in Seq(Chunks)
           /\ committed' \subseteq Nat
           /\ todo' \subseteq Nat \X Chunks
           /\ receiver' \in {"idle", "await"}
           /\ receiver' = "idle" => shown' = shown
           /\ receiver' = "await" => Len(shown') = Len(shown) + 1
<1>1. shown \in Seq(Chunks) /\ committed \subseteq Nat
  BY DEF PipelineTypeOK
<1>2. CASE UNCHANGED <<committed, shown>> /\ todo' = {} /\ receiver' = "idle"
  BY <1>1, <1>2
<1>3. ASSUME NEW seg \in segments, committed' = committed \cup {seg[1]},
             shown' = Append(shown, seg[2]), todo' \subseteq segments, receiver' = "await"
      PROVE  /\ shown' \in Seq(Chunks) /\ committed' \subseteq Nat
             /\ todo' \subseteq Nat \X Chunks
             /\ receiver' = "await" /\ Len(shown') = Len(shown) + 1
  <2>1. seg[1] \in Nat /\ seg[2] \in Chunks
    OBVIOUS
  <2>2. shown' \in Seq(Chunks) /\ Len(shown') = Len(shown) + 1
    BY <1>1, <1>3, <2>1, AppendProperties
  <2>3. QED
    BY <1>1, <1>3, <2>1, <2>2
<1>4. QED
  BY <1>2, <1>3, ProceedCases

LEMMA SegmentsType ==
    ASSUME PipelineTypeOK
    PROVE  \A d \in Nat : LastSegments(d) \in SUBSET (Nat \X Chunks)
BY DEF PipelineTypeOK, Segments, LastSegments

\* What the receive task has in hand of its connection.
LEMMA SourceType ==
    ASSUME PipelineTypeOK
    PROVE  Source \in [heard : Seq(Chunks), done : Nat]
BY DEF PipelineTypeOK, Source

\* A message of the receive task's connection.
LEMMA ReceiveMessage ==
    ASSUME PipelineTypeOK, Receive
    PROVE  \E d \in 0..Source.done : \E text :
               /\ Proceed(LastSegments(d), text)
               /\ LastSegments(d) \in SUBSET (Nat \X Chunks)
<1>1. Source.done \in Nat
  BY SourceType
<1>2. PICK d \in 0..Source.done : \E text : Proceed(LastSegments(d), text)
  BY DEF Receive
<1>3. d \in Nat
  BY <1>1
<1>4. QED
  BY <1>2, <1>3, SegmentsType

LEMMA TypesKept ==
    ASSUME PipelineTypeOK, [Next]_vars
    PROVE  PipelineTypeOK'
<1> USE BoundsAssumption DEF audioVars, wlVars, msgVars, capVars, tentVars
<1>1. /\ pushed \in 0..MaxChunks /\ speech \subseteq Chunks
      /\ queue \in Seq(Chunks) /\ ring \in Seq(Chunks) /\ sent \in Seq(Chunks)
      /\ heard \in Seq(Chunks) /\ shown \in Seq(Chunks) /\ done \in Nat /\ mark \in Nat
      /\ last \in [heard : Seq(Chunks), done : Nat] /\ replayed \subseteq Chunks
      /\ receiver \in {"off", "idle", "await", "gone"}
      /\ todo \subseteq Nat \X Chunks /\ committed \subseteq Nat
  BY DEF PipelineTypeOK
<1>2. CASE Push
  <2>1. pushed' \in 0..MaxChunks /\ pushed' \in Chunks
    BY <1>1, <1>2 DEF Push, Chunks
  <2>2. Append(queue, pushed') \in Seq(Chunks)
    BY <1>1, <2>1, AppendProperties
  <2>3. QED
    BY <1>1, <1>2, <2>1, <2>2 DEF Push, PipelineTypeOK
<1>3. CASE Connect
  <2>1. <<>> \in Seq(Chunks)
    OBVIOUS
  <2>2. QED
    BY <1>1, <1>3, <2>1 DEF Connect, PipelineTypeOK
<1>3a. CASE AttachSender
  <2>1. heard \o ring \in Seq(Chunks)
    BY <1>1, ConcatProperties
  <2>2. \A i \in 1..Len(ring) : ring[i] \in Chunks
    BY <1>1, ElementOfSeq
  <2>3. replayed' \subseteq Chunks
    BY <1>1, <1>3a, <2>2 DEF AttachSender
  <2>4. QED
    BY <1>1, <1>3a, <2>1, <2>3 DEF AttachSender, PipelineTypeOK
<1>3b. CASE LinkDown \/ Expire
  <2>1. [heard |-> heard, done |-> done] \in [heard : Seq(Chunks), done : Nat]
    BY <1>1
  <2>2. last' \in [heard : Seq(Chunks), done : Nat]
    BY <1>1, <1>3b, <2>1 DEF LinkDown, Outdate, Expire
  <2>3. QED
    BY <1>1, <1>3b, <2>2 DEF LinkDown, Expire, PipelineTypeOK
<1>4. CASE Send
  <2>1. Head(queue) \in Chunks /\ Tail(queue) \in Seq(Chunks)
    BY <1>1, <1>4, HeadTailProperties DEF Send
  <2>2. /\ Append(heard, Head(queue)) \in Seq(Chunks) /\ Append(ring, Head(queue)) \in Seq(Chunks)
        /\ Append(sent, Head(queue)) \in Seq(Chunks)
    BY <1>1, <2>1, AppendProperties
  <2>3. LastOf(RingMax, Append(ring, Head(queue))) \in Seq(Chunks)
    BY <2>2, LastOfType
  <2>4. QED
    BY <1>1, <1>4, <2>1, <2>2, <2>3 DEF Send, PipelineTypeOK
<1>5. CASE Transcribe
  <2>1. Len(heard) \in Nat
    BY <1>1, LenProperties
  <2>2. QED
    BY <1>1, <1>5, <2>1 DEF Transcribe, PipelineTypeOK
<1>6. CASE AttachReceiver \/ StoreFails \/ ReceiverLetsGo
  <2>1. Len(shown) \in Nat /\ Nothing \in [heard : Seq(Chunks), done : Nat]
    BY <1>1, LenProperties DEF Nothing
  <2>2. QED
    BY <1>1, <1>6, <2>1 DEF AttachReceiver, StoreFails, Lose, ResetWlState, ReceiverLetsGo,
                            PipelineTypeOK
<1>7. CASE Receive
  <2>1. PICK d \in 0..Source.done : \E text :
               /\ Proceed(LastSegments(d), text)
               /\ LastSegments(d) \in SUBSET (Nat \X Chunks)
    BY <1>7, ReceiveMessage
  <2>2. /\ shown' \in Seq(Chunks) /\ committed' \subseteq Nat /\ todo' \subseteq Nat \X Chunks
        /\ receiver' \in {"idle", "await"}
    BY <2>1, ProceedTypes
  <2>3. QED
    BY <1>1, <1>7, <2>2 DEF Receive, PipelineTypeOK
<1>8. CASE Store
  <2>1. Proceed(todo, tentText)
    BY <1>8 DEF Store
  <2>2. /\ shown' \in Seq(Chunks) /\ committed' \subseteq Nat /\ todo' \subseteq Nat \X Chunks
        /\ receiver' \in {"idle", "await"}
    BY <1>1, <2>1, ProceedTypes
  <2>3. QED
    BY <1>1, <1>8, <2>2 DEF Store, PipelineTypeOK
<1>9. CASE FlushFires \/ SetPaused \/ Stop \/ StopReceiver \/ ReceiverGone \/ SessionEnd
  <2>1. Nothing \in [heard : Seq(Chunks), done : Nat]
    BY DEF Nothing
  <2>2. QED
    BY <1>1, <1>9, <2>1 DEF FlushFires, SetPaused, Stop, StopReceiver, ReceiverGone, SessionEnd,
                            PipelineTypeOK
<1>10. CASE UNCHANGED vars
  BY <1>1, <1>10 DEF vars, PipelineTypeOK
<1>11. QED
  BY <1>2, <1>3, <1>3a, <1>3b, <1>4, <1>5, <1>6, <1>7, <1>8, <1>9, <1>10 DEF Next

LEMMA InitTypes ==
    ASSUME Init
    PROVE  PipelineTypeOK
BY BoundsAssumption DEF Init, PipelineTypeOK, Nothing

-----------------------------------------------------------------------------
(* The history and the end                                                 *)

\* Between two captions, and between two messages, every caption is accounted
\* for; and a session whose socket is closed has no receive task.
HistoryInv ==
    /\ HistoryKeepsUp
    /\ receiver \in {"off", "idle"} => 1..Len(shown) \subseteq stored \cup unsaved
    /\ stage \in {"closeWl", "ended"} => receiver = "gone"

LEMMA HistoryKept ==
    ASSUME PipelineTypeOK, HistoryInv, [Next]_vars
    PROVE  HistoryInv'
<1> USE DEF audioVars, wlVars, msgVars, capVars, tentVars
<1>1. /\ 1..Len(shown) - 1 \subseteq stored \cup unsaved
      /\ receiver \in {"off", "idle"} => 1..Len(shown) \subseteq stored \cup unsaved
      /\ stage \in {"closeWl", "ended"} => receiver = "gone"
      /\ Len(shown) \in Nat
      /\ receiver \in {"off", "idle", "await", "gone"}
  BY LenProperties DEF HistoryInv, HistoryKeepsUp, PipelineTypeOK
<1>2. ASSUME NEW segments \in SUBSET (Nat \X Chunks), NEW text, Proceed(segments, text),
             1..Len(shown) \subseteq stored' \cup unsaved', UNCHANGED stage,
             receiver # "gone"
      PROVE  HistoryInv'
  <2>1. /\ receiver' \in {"idle", "await"}
        /\ receiver' = "idle" => shown' = shown
        /\ receiver' = "await" => Len(shown') = Len(shown) + 1
    BY <1>2, ProceedTypes
  <2>2. 1..Len(shown) - 1 \subseteq 1..Len(shown)
    BY <1>1
  <2>3. QED
    BY <1>1, <1>2, <2>1, <2>2 DEF HistoryInv, HistoryKeepsUp
<1>3. CASE Receive
  <2>1. PICK d \in 0..Source.done : \E text :
               /\ Proceed(LastSegments(d), text)
               /\ LastSegments(d) \in SUBSET (Nat \X Chunks)
    BY <1>3, ReceiveMessage
  <2>2. QED
    BY <1>1, <1>2, <1>3, <2>1 DEF Receive
<1>4. CASE Store
  <2>1. 1..Len(shown) \subseteq stored' \cup unsaved'
    BY <1>1, <1>4 DEF Store
  <2>2. todo \in SUBSET (Nat \X Chunks)
    BY DEF PipelineTypeOK
  <2>3. QED
    BY <1>2, <1>4, <2>1, <2>2 DEF Store
<1>5. CASE StoreFails
  <2>1. 1..Len(shown) \subseteq stored \cup unsaved'
    BY <1>1, <1>5 DEF StoreFails
  <2>2. QED
    BY <1>1, <1>5, <2>1 DEF StoreFails, HistoryInv, HistoryKeepsUp
<1>6. CASE AttachReceiver \/ ReceiverLetsGo
  BY <1>1, <1>6 DEF AttachReceiver, ReceiverLetsGo, HistoryInv, HistoryKeepsUp
<1>7. CASE Push \/ Connect \/ AttachSender \/ Send \/ LinkDown \/ Expire \/ Transcribe
  BY <1>1, <1>7 DEF Push, Connect, AttachSender, Send, LinkDown, Expire, Transcribe,
                    HistoryInv, HistoryKeepsUp
<1>8. CASE FlushFires \/ SetPaused \/ Stop \/ StopReceiver \/ ReceiverGone \/ SessionEnd
  BY <1>1, <1>8 DEF FlushFires, SetPaused, Stop, StopReceiver, ReceiverGone, SessionEnd,
                    HistoryInv, HistoryKeepsUp
<1>9. CASE UNCHANGED vars
  BY <1>1, <1>9 DEF vars, HistoryInv, HistoryKeepsUp
<1>10. QED
  BY <1>3, <1>4, <1>5, <1>6, <1>7, <1>8, <1>9 DEF Next

LEMMA HistoryInvariant == Spec => [](PipelineTypeOK /\ HistoryInv)
<1>1. Init => PipelineTypeOK /\ HistoryInv
  <2> SUFFICES ASSUME Init PROVE HistoryInv
    BY InitTypes
  <2>1. Len(shown) = 0
    BY DEF Init
  <2>2. QED
    BY <2>1 DEF Init, HistoryInv, HistoryKeepsUp
<1>2. PipelineTypeOK /\ HistoryInv /\ [Next]_vars => (PipelineTypeOK /\ HistoryInv)'
  BY TypesKept, HistoryKept
<1>3. QED
  BY <1>1, <1>2, PTL DEF Spec

\* The history lacks only the caption being stored and those that failed.
THEOREM HistoryFollows == Spec => []HistoryKeepsUp
<1>1. HistoryInv => HistoryKeepsUp
  BY DEF HistoryInv
<1>2. QED
  BY <1>1, HistoryInvariant, PTL

\* No committed caption is broadcast once the session has ended (a tentative
\* one may still be, by a flush that was scheduled late).
THEOREM NothingAfterEnd == Spec => EndIsFinal
<1>1. HistoryInv /\ [Next]_vars => [stage = "ended" => UNCHANGED shown]_vars
  BY DEF HistoryInv, Next, Push, Connect, AttachSender, Send, LinkDown, Expire, Transcribe,
         AttachReceiver, Receive, Store, StoreFails, ReceiverLetsGo, FlushFires, SetPaused,
         Stop, StopReceiver, ReceiverGone, SessionEnd, vars, capVars
<1>2. QED
  BY <1>1, HistoryInvariant, PTL DEF Spec, EndIsFinal

LEMMA TextStep ==
    ASSUME Next
    PROVE  lastTent' \notin {lastTent, None} => ~paused
<1>1. ASSUME NEW segments, NEW text, Proceed(segments, text)
      PROVE  lastTent' \notin {lastTent, None} => ~paused
  BY <1>1 DEF Proceed, Tentative, Tent, tentVars
<1>2. CASE Receive \/ Store
  BY <1>1, <1>2 DEF Receive, Store
<1>3. CASE StoreFails \/ ReceiverLetsGo
  BY <1>3 DEF StoreFails, ReceiverLetsGo, ResetWlState
<1>4. CASE FlushFires
  BY <1>4 DEF FlushFires, Tent
<1>5. CASE \/ Push \/ Connect \/ AttachSender \/ Send \/ LinkDown \/ Expire
           \/ Transcribe \/ AttachReceiver
  BY <1>5 DEF Push, Connect, AttachSender, Send, LinkDown, Expire, Transcribe, AttachReceiver,
              tentVars
<1>6. CASE SetPaused \/ Stop \/ StopReceiver \/ ReceiverGone \/ SessionEnd
  BY <1>6 DEF SetPaused, Stop, StopReceiver, ReceiverGone, SessionEnd, tentVars
<1>7. QED
  BY <1>2, <1>3, <1>4, <1>5, <1>6 DEF Next

\* Whatever was scheduled before a pause, no tentative text goes out during it.
THEOREM NoTextWhilePaused == Spec => TentativeRespectsPause
<1>1. [Next]_vars => [lastTent' \notin {lastTent, None} => ~paused]_vars
  BY TextStep
<1>2. QED
  BY <1>1, PTL DEF Spec, TentativeRespectsPause

-----------------------------------------------------------------------------
(* The audio that was sent                                                 *)

\* Strictly increasing: no chunk is in it twice.
Increasing(s) == \A i, j \in 1..Len(s) : i < j => s[i] < s[j]
In(x, s) == \E i \in 1..Len(s) : s[i] = x

\* The queue follows what was sent in the order in which the Pi sent it.
SentInv ==
    /\ Increasing(queue) /\ \A i \in 1..Len(queue) : queue[i] <= pushed
    /\ Increasing(sent) /\ \A i \in 1..Len(sent) : sent[i] <= pushed
    /\ \A i \in 1..Len(sent), j \in 1..Len(queue) : sent[i] < queue[j]

\* The ring has the end of it, and has dropped audio before a replay counts
\* as cut.
RingInv ==
    /\ Len(ring) <= Len(sent)
    /\ Len(sent) > 0 => Len(ring) > 0
    /\ \A i \in 1..Len(ring) : ring[i] = sent[Len(sent) - Len(ring) + i]
    /\ replayed # {} => Len(ring) < Len(sent)

LEMMA IncreasingIsInjective ==
    ASSUME NEW s \in Seq(Chunks), Increasing(s), NEW i \in 1..Len(s), NEW j \in 1..Len(s),
           s[i] = s[j]
    PROVE  i = j
<1>1. Len(s) \in Nat /\ s[i] \in Nat /\ s[j] \in Nat
  BY LenProperties, ElementOfSeq, BoundsAssumption DEF Chunks
<1>2. i \in Nat /\ j \in Nat
  BY <1>1
<1>3. ~(i < j) /\ ~(j < i)
  BY <1>1 DEF Increasing
<1>4. QED
  BY <1>2, <1>3

\* A greater element may follow.
LEMMA AppendIncreasing ==
    ASSUME NEW s \in Seq(Chunks), Increasing(s), NEW x \in Chunks,
           \A i \in 1..Len(s) : s[i] < x
    PROVE  Increasing(Append(s, x))
<1> DEFINE t == Append(s, x)
<1>1. /\ Len(s) \in Nat /\ Len(t) = Len(s) + 1 /\ t[Len(s) + 1] = x
      /\ \A i \in 1..Len(s) : t[i] = s[i]
  BY LenProperties, AppendProperties
<1> HIDE DEF t
<1>2. \A i \in 1..Len(t) : i \in 1..Len(s) \/ i = Len(s) + 1
  BY <1>1
<1>3. ASSUME NEW i \in 1..Len(t), NEW j \in 1..Len(t), i < j
      PROVE  t[i] < t[j]
  <2>1. i \in 1..Len(s)
    BY <1>1, <1>3
  <2>2. CASE j \in 1..Len(s)
    BY <1>1, <1>3, <2>1, <2>2 DEF Increasing
  <2>3. CASE j = Len(s) + 1
    BY <1>1, <2>1, <2>3
  <2>4. QED
    BY <1>2, <2>2, <2>3
<1>4. QED
  BY <1>3 DEF Increasing, t

\* The last elements of a sequence.
LEMMA LastOfElements ==
    ASSUME NEW S, NEW s \in Seq(S), NEW n \in Nat \ {0}
    PROVE  LET t == LastOf(n, s) IN
           /\ t \in Seq(S)
           /\ Len(t) \in Nat /\ Len(t) <= Len(s)
           /\ Len(s) > 0 => Len(t) > 0
           /\ \A i \in 1..Len(t) : t[i] = s[Len(s) - Len(t) + i]
<1>1. Len(s) \in Nat
  BY LenProperties
<1>2. CASE Len(s) <= n
  BY <1>1, <1>2 DEF LastOf
<1>3. CASE ~(Len(s) <= n)
  <2> DEFINE k == Len(s)
             m == k - n + 1
             t == SubSeq(s, m, k)
  <2>1. k \in Nat /\ m \in 1..k + 1 /\ m <= k
    BY <1>1, <1>3
  <2>2. \A i \in m..k : s[i] \in S
    BY <2>1, ElementOfSeq
  <2>3. /\ t \in Seq(S) /\ Len(t) = (IF m <= k THEN k - m + 1 ELSE 0)
        /\ \A i \in 1..k - m + 1 : t[i] = s[m + i - 1]
    BY <2>1, <2>2, SubSeqProperties
  <2>4. k - m + 1 = n /\ \A i \in 1..n : m + i - 1 = k - n + i
    BY <2>1
  <2>5. LastOf(n, s) = t
    BY <1>3 DEF LastOf
  <2> HIDE DEF t
  <2>6. Len(t) = n /\ \A i \in 1..n : t[i] = s[k - n + i]
    <3>1. Len(t) = n
      BY <2>1, <2>3, <2>4
    <3>2. \A i \in 1..n : t[i] = s[k - n + i]
      BY <2>3, <2>4
    <3>3. QED
      BY <3>1, <3>2
  <2>7. QED
    BY <1>1, <1>3, <2>3, <2>5, <2>6
<1>4. QED
  BY <1>2, <1>3

\* The next chunk is later than all that was sent.
LEMMA HeadOfQueue ==
    ASSUME PipelineTypeOK, SentInv, queue # <<>>
    PROVE  LET h == Head(queue) IN
           /\ h \in Chunks /\ 1 \in 1..Len(queue) /\ h = queue[1]
           /\ \A i \in 1..Len(sent) : sent[i] < h
           /\ Append(sent, h) \in Seq(Chunks)
           /\ Len(Append(sent, h)) = Len(sent) + 1
           /\ Append(sent, h)[Len(sent) + 1] = h
           /\ \A i \in 1..Len(sent) : Append(sent, h)[i] = sent[i]
<1>1. queue \in Seq(Chunks) /\ sent \in Seq(Chunks)
  BY DEF PipelineTypeOK
<1>2. Len(queue) \in Nat /\ Len(queue) > 0
  BY <1>1, LenProperties, EmptySeq
<1>3. 1 \in 1..Len(queue)
  BY <1>2
<1>4. Head(queue) = queue[1] /\ Head(queue) \in Chunks
  BY <1>1, <1>3, HeadTailProperties, ElementOfSeq
<1>5. QED
  BY <1>1, <1>3, <1>4, AppendProperties DEF SentInv

LEMMA SentKept ==
    ASSUME PipelineTypeOK, SentInv, [Next]_vars
    PROVE  SentInv'
<1> USE DEF audioVars
<1>1. /\ sent \in Seq(Chunks) /\ queue \in Seq(Chunks) /\ pushed \in Nat
      /\ Len(sent) \in Nat /\ Len(queue) \in Nat
      /\ \A i \in 1..Len(sent) : sent[i] \in Nat
      /\ \A i \in 1..Len(queue) : queue[i] \in Nat
  <2>1. sent \in Seq(Chunks) /\ queue \in Seq(Chunks) /\ pushed \in Nat
    BY BoundsAssumption DEF PipelineTypeOK
  <2>2. Chunks \subseteq Nat
    BY BoundsAssumption DEF Chunks
  <2>3. QED
    BY <2>1, <2>2, LenProperties, ElementOfSeq
<1>2. CASE Push
  <2>1. CASE queue' = queue
    <3>1. pushed' = pushed + 1 /\ UNCHANGED <<queue, sent>>
      BY <1>2, <2>1 DEF Push
    <3>2. /\ \A i \in 1..Len(queue) : queue[i] <= pushed
          /\ \A i \in 1..Len(sent) : sent[i] <= pushed
      BY DEF SentInv
    <3>3. /\ \A i \in 1..Len(queue) : queue[i] <= pushed + 1
          /\ \A i \in 1..Len(sent) : sent[i] <= pushed + 1
      BY <1>1, <3>2
    <3>4. QED
      BY <3>1, <3>3 DEF SentInv, Increasing
  <2>2. CASE queue' = Append(queue, pushed')
    <3>1. pushed' = pushed + 1 /\ pushed' \in Nat /\ pushed' \in Chunks /\ UNCHANGED sent
      <4>1. pushed' = pushed + 1 /\ pushed < MaxChunks /\ UNCHANGED sent
        BY <1>2 DEF Push
      <4>2. MaxChunks \in Nat
        BY BoundsAssumption
      <4>3. pushed + 1 \in 1..MaxChunks
        BY <1>1, <4>1, <4>2
      <4>4. QED
        BY <1>1, <4>1, <4>3 DEF Chunks
    <3>2. /\ Len(queue') = Len(queue) + 1 /\ queue'[Len(queue) + 1] = pushed'
          /\ \A i \in 1..Len(queue) : queue'[i] = queue[i]
      BY <1>1, <2>2, <3>1, AppendProperties
    <3>3. \A i \in 1..Len(queue') : i \in 1..Len(queue) \/ i = Len(queue) + 1
      BY <1>1, <3>2
    <3>4. /\ \A i \in 1..Len(queue) : queue[i] <= pushed
          /\ \A i \in 1..Len(sent) : sent[i] <= pushed
      BY DEF SentInv
    <3>5. /\ \A i \in 1..Len(queue) : queue[i] < pushed'
          /\ \A i \in 1..Len(sent) : sent[i] < pushed' /\ sent[i] <= pushed'
      BY <1>1, <3>1, <3>4
    <3>6. Increasing(queue')
      BY <1>1, <2>2, <3>1, <3>5, AppendIncreasing DEF SentInv
    <3>7. \A i \in 1..Len(queue') : queue'[i] <= pushed'
      BY <1>1, <3>1, <3>2, <3>3, <3>5
    <3>8. \A i \in 1..Len(sent), j \in 1..Len(queue') : sent[i] < queue'[j]
      BY <3>2, <3>3, <3>5 DEF SentInv
    <3>9. QED
      BY <3>1, <3>5, <3>6, <3>7, <3>8 DEF SentInv
  <2>3. QED
    BY <1>2, <2>1, <2>2 DEF Push
<1>3. CASE Send
  <2> DEFINE h == Head(queue)
  <2>1. /\ queue # <<>> /\ queue' = Tail(queue) /\ UNCHANGED pushed
        /\ Len(queue) >= 1
    BY <1>1, <1>3, LenProperties, EmptySeq DEF Send
  <2>2. /\ Len(queue') = Len(queue) - 1
        /\ \A i \in 1..Len(queue') : queue'[i] = queue[i + 1] /\ i + 1 \in 1..Len(queue)
    BY <1>1, <2>1, HeadTailProperties
  <2>3. Increasing(queue') /\ \A i \in 1..Len(queue') : queue'[i] <= pushed
    <3>1. ASSUME NEW i \in 1..Len(queue'), NEW j \in 1..Len(queue'), i < j
          PROVE  queue'[i] < queue'[j]
      <4>1. /\ queue'[i] = queue[i + 1] /\ queue'[j] = queue[j + 1]
            /\ i + 1 \in 1..Len(queue) /\ j + 1 \in 1..Len(queue) /\ i + 1 < j + 1
        BY <2>2, <3>1
      <4>2. QED
        BY <4>1 DEF SentInv, Increasing
    <3>2. \A i \in 1..Len(queue') : queue'[i] <= pushed
      BY <2>2 DEF SentInv
    <3>3. QED
      BY <3>1, <3>2 DEF Increasing
  <2>4. CASE UNCHANGED sent
    <3>1. \A i \in 1..Len(sent), j \in 1..Len(queue') : sent[i] < queue'[j]
      BY <2>2 DEF SentInv
    <3>2. QED
      BY <2>1, <2>3, <2>4, <3>1 DEF SentInv
  <2>5. CASE sent' = Append(sent, h)
    <3>1. /\ h \in Chunks /\ 1 \in 1..Len(queue) /\ h = queue[1]
          /\ \A i \in 1..Len(sent) : sent[i] < h
          /\ Len(sent') = Len(sent) + 1 /\ sent'[Len(sent) + 1] = h
          /\ \A i \in 1..Len(sent) : sent'[i] = sent[i]
      BY <2>1, <2>5, HeadOfQueue
    <3> HIDE DEF h
    <3>2. \A i \in 1..Len(sent') : i \in 1..Len(sent) \/ i = Len(sent) + 1
      BY <1>1, <3>1
    <3>3. Increasing(sent')
      BY <1>1, <2>5, <3>1, AppendIncreasing DEF SentInv
    <3>4. \A i \in 1..Len(sent') : sent'[i] <= pushed
      BY <3>1, <3>2 DEF SentInv
    <3>5. \A j \in 1..Len(queue') : h < queue'[j]
      <4>1. \A j \in 1..Len(queue') : 1 < j + 1
        BY <1>1, <2>2
      <4>2. QED
        BY <2>2, <3>1, <4>1 DEF SentInv, Increasing
    <3>6. \A i \in 1..Len(sent'), j \in 1..Len(queue') : sent'[i] < queue'[j]
      BY <2>2, <3>1, <3>2, <3>5 DEF SentInv
    <3>7. QED
      BY <2>1, <2>3, <3>3, <3>4, <3>6 DEF SentInv
  <2>6. QED
    BY <1>3, <2>4, <2>5 DEF Send
<1>4. CASE UNCHANGED <<pushed, queue, sent>>
  BY <1>4 DEF SentInv, Increasing
<1>5. QED
  BY <1>2, <1>3, <1>4 DEF Next, Connect, AttachSender, LinkDown, Expire, Transcribe,
     AttachReceiver, Receive, Store, StoreFails, ReceiverLetsGo, FlushFires, SetPaused,
     Stop, StopReceiver, ReceiverGone, SessionEnd, vars

LEMMA RingKept ==
    ASSUME PipelineTypeOK, SentInv, RingInv, [Next]_vars
    PROVE  RingInv'
<1> USE DEF audioVars, wlVars
<1>1. /\ ring \in Seq(Chunks) /\ sent \in Seq(Chunks)
      /\ Len(ring) \in Nat /\ Len(sent) \in Nat
  BY LenProperties DEF PipelineTypeOK
<1>2. CASE Send /\ sender = "on"
  <2> DEFINE h == Head(queue)
             a == Append(ring, h)
  <2>1. /\ ring' = LastOf(RingMax, a) /\ sent' = Append(sent, h) /\ replayed' = replayed
        /\ queue # <<>>
    BY <1>2 DEF Send
  <2>2. /\ h \in Chunks
        /\ Len(sent') = Len(sent) + 1 /\ sent'[Len(sent) + 1] = h
        /\ \A i \in 1..Len(sent) : sent'[i] = sent[i]
    BY <2>1, HeadOfQueue
  <2>3. /\ a \in Seq(Chunks) /\ Len(a) = Len(ring) + 1 /\ a[Len(ring) + 1] = h
        /\ \A i \in 1..Len(ring) : a[i] = ring[i]
    BY <1>1, <2>2, AppendProperties
  <2> HIDE DEF a, h
  <2>4. /\ Len(ring') \in Nat /\ Len(ring') <= Len(a) /\ (Len(a) > 0 => Len(ring') > 0)
        /\ \A i \in 1..Len(ring') : ring'[i] = a[Len(a) - Len(ring') + i]
    BY <2>1, <2>3, LastOfElements, BoundsAssumption
  <2>5. \A i \in 1..Len(a) : a[i] = sent'[Len(sent') - Len(a) + i]
    <3>1. TAKE i \in 1..Len(a)
    <3>2. CASE i \in 1..Len(ring)
      <4>1. Len(sent') - Len(a) + i = Len(sent) - Len(ring) + i
        BY <1>1, <2>2, <2>3
      <4>2. Len(sent) - Len(ring) + i \in 1..Len(sent)
        BY <1>1, <3>2 DEF RingInv
      <4>3. QED
        BY <2>2, <2>3, <3>2, <4>1, <4>2 DEF RingInv
    <3>3. CASE i = Len(ring) + 1
      <4>1. Len(sent') - Len(a) + i = Len(sent) + 1
        BY <1>1, <2>2, <2>3, <3>3
      <4>2. QED
        BY <2>2, <2>3, <3>3, <4>1
    <3>4. QED
      BY <1>1, <2>3, <3>2, <3>3
  <2>6. \A i \in 1..Len(ring') : ring'[i] = sent'[Len(sent') - Len(ring') + i]
    <3>1. TAKE i \in 1..Len(ring')
    <3>2. /\ Len(a) - Len(ring') + i \in 1..Len(a)
          /\ Len(sent') - Len(a) + (Len(a) - Len(ring') + i) = Len(sent') - Len(ring') + i
      BY <1>1, <2>2, <2>3, <2>4
    <3>3. QED
      BY <2>4, <2>5, <3>2
  <2>7. Len(ring') <= Len(sent') /\ Len(ring') > 0
    BY <1>1, <2>2, <2>3, <2>4 DEF RingInv
  <2>8. replayed # {} => Len(ring') < Len(sent')
    BY <1>1, <2>2, <2>3, <2>4 DEF RingInv
  <2>9. QED
    BY <2>1, <2>6, <2>7, <2>8 DEF RingInv
<1>3. CASE Send /\ sender = "stale"
  BY <1>3 DEF Send, RingInv
<1>4. CASE AttachSender
  <2>1. CASE ring = sent
    BY <1>4, <2>1 DEF AttachSender, RingInv
  <2>2. CASE ring # sent
    <3>1. Len(ring) # Len(sent)
      <4>1. ASSUME Len(ring) = Len(sent)
            PROVE  FALSE
        <5>1. \A i \in 1..Len(ring) : ring[i] = sent[i]
          BY <1>1, <4>1 DEF RingInv
        <5>2. QED
          BY <1>1, <2>2, <4>1, <5>1, SeqEqual
      <4>2. QED
        BY <4>1
    <3>2. Len(ring) < Len(sent)
      BY <1>1, <3>1 DEF RingInv
    <3>3. QED
      BY <1>4, <3>2 DEF AttachSender, RingInv
  <2>3. QED
    BY <2>1, <2>2
<1>5. CASE UNCHANGED <<ring, sent, replayed>>
  BY <1>5 DEF RingInv
<1>6. CASE Send
  BY <1>2, <1>3, <1>6 DEF Send
<1>7. QED
  BY <1>4, <1>5, <1>6 DEF Next, Push, Connect, LinkDown, Expire, Transcribe,
     AttachReceiver, Receive, Store, StoreFails, ReceiverLetsGo, FlushFires, SetPaused,
     Stop, StopReceiver, ReceiverGone, SessionEnd, vars

-----------------------------------------------------------------------------
(* The connections                                                         *)

\* What a connection hears is some of what was sent, in order.
Tape(H) == Increasing(H) /\ \A p \in 1..Len(H) : In(H[p], sent)
Prefix(H) == Len(H) <= Len(sent) /\ \A p \in 1..Len(H) : H[p] = sent[p]

\* As long as no cut ring is replayed, every connection hears a prefix of what
\* was sent: a chunk has the same start on all of them.
ConnInv ==
    /\ Tape(heard) /\ Tape(last.heard)
    /\ done <= Len(heard) /\ last.done <= Len(last.heard)
    /\ replayed = {} => Prefix(heard) /\ Prefix(last.heard)
    /\ replayed = {} /\ stage = "run" /\ sender = "on" => Len(heard) = Len(sent)
    /\ stage = "run" /\ sender = "on" => link
    /\ link /\ sender # "on" => heard = <<>>
    /\ ~stale /\ receiver \in {"idle", "await"} => link

AudioInv == PipelineTypeOK /\ SentInv /\ RingInv /\ ConnInv

\* What was sent on: a chunk keeps its place.
LEMMA SentGrows ==
    ASSUME AudioInv, [Next]_vars
    PROVE  /\ Len(sent) \in Nat /\ Len(sent') \in Nat /\ Len(sent) <= Len(sent')
           /\ \A i \in 1..Len(sent) : i \in 1..Len(sent') /\ sent'[i] = sent[i]
<1>1. sent \in Seq(Chunks) /\ Len(sent) \in Nat
  BY LenProperties DEF AudioInv, PipelineTypeOK
<1>2. CASE UNCHANGED sent
  BY <1>1, <1>2
<1>3. CASE Send /\ sent' = Append(sent, Head(queue))
  BY <1>1, <1>3, HeadOfQueue DEF AudioInv, Send
<1>4. QED
  BY <1>2, <1>3 DEF Next, Push, Connect, AttachSender, Send, LinkDown, Expire, Transcribe,
     AttachReceiver, Receive, Store, StoreFails, ReceiverLetsGo, FlushFires, SetPaused,
     Stop, StopReceiver, ReceiverGone, SessionEnd, vars, audioVars

LEMMA TapeKept ==
    ASSUME AudioInv, [Next]_vars, NEW H, Tape(H)
    PROVE  Increasing(H) /\ \A p \in 1..Len(H) : \E i \in 1..Len(sent') : sent'[i] = H[p]
BY SentGrows DEF Tape, In

LEMMA PrefixKept ==
    ASSUME AudioInv, [Next]_vars, NEW H \in Seq(Chunks), Prefix(H)
    PROVE  Len(H) <= Len(sent') /\ \A p \in 1..Len(H) : H[p] = sent'[p]
<1>1. Len(H) \in Nat
  BY LenProperties
<1>2. QED
  BY <1>1, SentGrows DEF Prefix

LEMMA RingIsTape ==
    ASSUME AudioInv
    PROVE  Tape(ring)
<1>1. /\ Len(ring) \in Nat /\ Len(sent) \in Nat
  BY LenProperties DEF AudioInv, PipelineTypeOK
<1>2. \A i \in 1..Len(ring) : /\ Len(sent) - Len(ring) + i \in 1..Len(sent)
                              /\ ring[i] = sent[Len(sent) - Len(ring) + i]
  BY <1>1 DEF AudioInv, RingInv
<1>3. ASSUME NEW i \in 1..Len(ring), NEW j \in 1..Len(ring), i < j
      PROVE  ring[i] < ring[j]
  <2>1. Len(sent) - Len(ring) + i < Len(sent) - Len(ring) + j
    BY <1>1, <1>3
  <2>2. QED
    BY <1>2, <2>1 DEF AudioInv, SentInv, Increasing
<1>4. QED
  BY <1>2, <1>3 DEF Tape, In, Increasing

\* A replay comes first on its connection, and is cut or all that was sent.
LEMMA Replay ==
    ASSUME AudioInv, AttachSender
    PROVE  /\ heard = <<>> /\ heard' = ring /\ sent' = sent
           /\ Tape(ring)
           /\ ring = sent => replayed = {} /\ replayed' = {}
           /\ ring # sent => /\ replayed' # {} /\ replayed \subseteq replayed'
                             /\ \A p \in 1..Len(ring) : ring[p] \in replayed'
<1>1. /\ ring \in Seq(Chunks) /\ Len(ring) \in Nat /\ Len(sent) \in Nat /\ sent \in Seq(Chunks)
  BY LenProperties DEF AudioInv, PipelineTypeOK
<1>2. heard = <<>> /\ heard' = ring /\ sent' = sent
  <2>1. heard = <<>>
    BY DEF AttachSender, AudioInv, ConnInv
  <2>2. QED
    BY <1>1, <2>1, ConcatEmptySeq DEF AttachSender
<1>3. ring = sent => replayed = {} /\ replayed' = {}
  BY <1>1 DEF AttachSender, AudioInv, RingInv
<1>4. ASSUME ring # sent
      PROVE  /\ replayed' # {} /\ replayed \subseteq replayed'
             /\ \A p \in 1..Len(ring) : ring[p] \in replayed'
  <2>1. replayed' = replayed \cup {ring[i] : i \in 1..Len(ring)}
    BY <1>4 DEF AttachSender
  <2>2. Len(ring) > 0
    <3>1. CASE Len(sent) > 0
      BY <3>1 DEF AudioInv, RingInv
    <3>2. CASE Len(sent) = 0
      <4>1. Len(ring) = 0
        BY <1>1, <3>2 DEF AudioInv, RingInv
      <4>2. QED
        BY <1>1, <1>4, <3>2, <4>1, EmptySeq
    <3>3. QED
      BY <1>1, <3>1, <3>2
  <2>3. 1 \in 1..Len(ring)
    BY <1>1, <2>2
  <2>4. QED
    BY <2>1, <2>3
<1>5. QED
  BY <1>2, <1>3, <1>4, RingIsTape

\* The step of the sender with a live socket.
LEMMA Sending ==
    ASSUME AudioInv, Send, sender = "on"
    PROVE  \E h \in Chunks :
               /\ heard' = Append(heard, h) /\ sent' = Append(sent, h)
               /\ heard' \in Seq(Chunks) /\ Len(heard) \in Nat /\ Len(sent) \in Nat
               /\ Len(heard') = Len(heard) + 1 /\ heard'[Len(heard) + 1] = h
               /\ \A p \in 1..Len(heard) : heard'[p] = heard[p] /\ heard[p] < h
               /\ Len(sent') = Len(sent) + 1 /\ sent'[Len(sent) + 1] = h
               /\ \A i \in 1..Len(sent) : sent'[i] = sent[i] /\ sent[i] < h
               /\ Increasing(heard')
               /\ UNCHANGED <<link, done, replayed, last, receiver, stale, stage, sender>>
<1> DEFINE h == Head(queue)
<1>1. /\ heard \in Seq(Chunks) /\ sent \in Seq(Chunks)
      /\ Len(heard) \in Nat /\ Len(sent) \in Nat
  BY LenProperties DEF AudioInv, PipelineTypeOK
<1>2. /\ heard' = Append(heard, h) /\ sent' = Append(sent, h) /\ queue # <<>>
      /\ UNCHANGED <<link, done, replayed, last, receiver, stale, stage, sender>>
  BY DEF Send, msgVars
<1>3. /\ h \in Chunks /\ \A i \in 1..Len(sent) : sent[i] < h
      /\ Len(sent') = Len(sent) + 1 /\ sent'[Len(sent) + 1] = h
      /\ \A i \in 1..Len(sent) : sent'[i] = sent[i]
  BY <1>2, HeadOfQueue DEF AudioInv
<1> HIDE DEF h
<1>4. \A p \in 1..Len(heard) : heard[p] < h
  BY <1>3 DEF AudioInv, ConnInv, Tape, In
<1>5. /\ heard' \in Seq(Chunks)
      /\ Len(heard') = Len(heard) + 1 /\ heard'[Len(heard) + 1] = h
      /\ \A p \in 1..Len(heard) : heard'[p] = heard[p]
  BY <1>1, <1>2, <1>3, AppendProperties
<1>6. Increasing(heard')
  BY <1>1, <1>2, <1>3, <1>4, AppendIncreasing DEF AudioInv, ConnInv, Tape
<1>7. QED
  BY <1>1, <1>2, <1>3, <1>4, <1>5, <1>6

LEMMA NothingIsTape ==
    /\ Increasing(Nothing.heard) /\ Len(Nothing.heard) = 0 /\ Nothing.done = 0
    /\ Increasing(<<>>) /\ Len(<<>>) = 0
BY DEF Nothing, Increasing

LEMMA ConnKept ==
    ASSUME AudioInv, [Next]_vars
    PROVE  ConnInv'
<1> USE DEF audioVars, wlVars, msgVars
<1>1. /\ heard \in Seq(Chunks) /\ last.heard \in Seq(Chunks)
      /\ Len(heard) \in Nat /\ Len(last.heard) \in Nat /\ done \in Nat /\ last.done \in Nat
      /\ Len(sent) \in Nat /\ ConnInv
  BY LenProperties DEF AudioInv, PipelineTypeOK
<1>2. \A p \in 1..Len(heard) : \E i \in 1..Len(sent') : sent'[i] = heard[p]
  BY <1>1, TapeKept DEF ConnInv
<1>3. \A p \in 1..Len(last.heard) : \E i \in 1..Len(sent') : sent'[i] = last.heard[p]
  BY <1>1, TapeKept DEF ConnInv
<1>4. replayed = {} => /\ Len(last.heard) <= Len(sent')
                       /\ \A p \in 1..Len(last.heard) : last.heard[p] = sent'[p]
  BY <1>1, PrefixKept DEF ConnInv
<1>5. CASE Send /\ sender = "on"
  <2>1. PICK h \in Chunks :
               /\ heard' = Append(heard, h) /\ sent' = Append(sent, h)
               /\ Len(heard') = Len(heard) + 1 /\ heard'[Len(heard) + 1] = h
               /\ \A p \in 1..Len(heard) : heard'[p] = heard[p]
               /\ Len(sent') = Len(sent) + 1 /\ sent'[Len(sent) + 1] = h
               /\ \A i \in 1..Len(sent) : sent'[i] = sent[i]
               /\ Increasing(heard')
               /\ UNCHANGED <<link, done, replayed, last, receiver, stale, stage, sender>>
    BY <1>5, Sending
  <2>2. \A p \in 1..Len(heard') : p \in 1..Len(heard) \/ p = Len(heard) + 1
    BY <1>1, <2>1
  <2>3. Len(sent) + 1 \in 1..Len(sent')
    BY <1>1, <2>1
  <2>4. \A p \in 1..Len(heard') : \E i \in 1..Len(sent') : sent'[i] = heard'[p]
    BY <1>2, <2>1, <2>2, <2>3
  <2>5. Tape(heard)' /\ Tape(last.heard)'
    BY <1>1, <1>3, <2>1, <2>4 DEF Tape, In, ConnInv
  <2>6. done <= Len(heard')
    BY <1>1, <2>1 DEF ConnInv
  <2>7. replayed = {} => /\ Len(heard') = Len(sent')
                         /\ \A p \in 1..Len(heard') : heard'[p] = sent'[p]
    <3>1. ASSUME replayed = {}
          PROVE  Len(heard) = Len(sent) /\ \A p \in 1..Len(heard) : heard[p] = sent[p]
      BY <1>1, <1>5, <3>1 DEF ConnInv, Prefix, Send
    <3>2. QED
      BY <2>1, <2>2, <3>1
  <2>8. link
    BY <1>1, <1>5 DEF ConnInv, Send
  <2>9. replayed = {} => Len(heard') <= Len(sent')
    BY <1>1, <2>1, <2>7
  <2>10. QED
    BY <1>1, <1>4, <1>5, <2>1, <2>5, <2>6, <2>7, <2>8, <2>9 DEF ConnInv, Prefix
<1>6. CASE Send /\ sender = "stale"
  <2>1. UNCHANGED <<sent, heard, done, replayed, last, link, stage, stale, receiver>>
        /\ sender' = "off"
    BY <1>6 DEF Send
  <2>2. QED
    BY <1>1, <1>6, <2>1 DEF ConnInv, Tape, In, Prefix
<1>7. CASE Connect
  <2>1. /\ heard' = <<>> /\ done' = 0 /\ link' = TRUE /\ ~link /\ stage = "run"
        /\ UNCHANGED <<sent, replayed, last, stage, stale, receiver, sender>>
    BY <1>7 DEF Connect
  <2>2. sender # "on"
    BY <1>1, <2>1 DEF ConnInv
  <2>3. Tape(heard)' /\ Prefix(heard)' /\ done' <= Len(heard')
    BY <1>1, <2>1, NothingIsTape DEF Tape, Prefix
  <2>4. QED
    BY <1>1, <2>1, <2>2, <2>3 DEF ConnInv, Tape, In, Prefix
<1>8. CASE AttachSender
  <2>1. /\ heard = <<>> /\ heard' = ring /\ sent' = sent /\ Tape(ring)
        /\ ring = sent => replayed = {} /\ replayed' = {}
        /\ ring # sent => replayed' # {}
    BY <1>8, Replay
  <2>2. /\ UNCHANGED <<done, last, link, stage, stale, receiver>> /\ sender' = "on" /\ link
    BY <1>8 DEF AttachSender
  <2>3. done <= Len(heard')
    <3>1. done = 0
      BY <1>1, <2>1, NothingIsTape DEF ConnInv
    <3>2. Len(ring) \in Nat
      BY LenProperties DEF AudioInv, PipelineTypeOK
    <3>3. QED
      BY <2>1, <3>1, <3>2
  <2>4. Tape(heard)' /\ Tape(last.heard)'
    BY <1>1, <2>1, <2>2 DEF ConnInv, Tape, In
  <2>5. replayed' = {} => /\ Prefix(heard)' /\ Prefix(last.heard)' /\ Len(heard') = Len(sent')
    BY <1>1, <2>1, <2>2 DEF ConnInv, Prefix
  <2>6. QED
    BY <1>1, <2>1, <2>2, <2>3, <2>4, <2>5 DEF ConnInv
<1>9. CASE Transcribe
  <2>1. /\ done' \in Nat /\ done' <= Len(heard)
        /\ UNCHANGED <<sent, heard, replayed, last, link, stage, stale, receiver, sender>>
    BY <1>1, <1>9 DEF Transcribe
  <2>2. QED
    BY <1>1, <2>1 DEF ConnInv, Tape, In, Prefix
<1>10. CASE LinkDown \/ Expire
  <2>1. /\ UNCHANGED <<sent, heard, done, replayed, stage, receiver>>
        /\ \/ last' = last
           \/ last'.heard = heard /\ last'.done = done
    BY <1>10 DEF LinkDown, Expire, Outdate
  <2>2. /\ link' => sender # "on" /\ link
        /\ sender' # "on"
        /\ ~stale' => ~stale /\ link' = link
    BY <1>10 DEF LinkDown, Expire, Outdate, Lose
  <2>3. Tape(last.heard)' /\ last'.done <= Len(last'.heard)
    BY <1>1, <2>1 DEF ConnInv, Tape, In
  <2>4. replayed = {} => Prefix(last.heard)'
    BY <1>1, <2>1 DEF ConnInv, Prefix
  <2>5. QED
    BY <1>1, <2>1, <2>2, <2>3, <2>4 DEF ConnInv, Tape, In, Prefix
<1>11. CASE StoreFails \/ ReceiverLetsGo \/ ReceiverGone
  <2>1. /\ UNCHANGED <<sent, heard, done, replayed>> /\ last' = Nothing
        /\ receiver' \in {"off", "gone"}
        /\ link' => link /\ sender' = sender
        /\ sender' = "on" /\ stage' = "run" => sender = "on" /\ stage = "run" /\ link' = link
    BY <1>11 DEF StoreFails, ReceiverLetsGo, ReceiverGone, Lose
  <2>2. Tape(last.heard)' /\ Prefix(last.heard)' /\ last'.done <= Len(last'.heard)
    BY <1>1, <2>1, NothingIsTape DEF Tape, Prefix
  <2>3. QED
    BY <1>1, <2>1, <2>2 DEF ConnInv, Tape, In, Prefix
<1>12. CASE AttachReceiver
  BY <1>1, <1>12 DEF AttachReceiver, ConnInv, Tape, In, Prefix
<1>13. CASE Receive \/ Store
  <2>1. /\ UNCHANGED <<sent, heard, done, replayed, last, link, stage, stale, sender>>
        /\ receiver \in {"idle", "await"}
    BY <1>13 DEF Receive, Store
  <2>2. QED
    BY <1>1, <2>1 DEF ConnInv, Tape, In, Prefix
<1>14. CASE Push \/ FlushFires \/ SetPaused \/ Stop \/ StopReceiver \/ SessionEnd
  <2>1. /\ UNCHANGED <<sent, heard, done, replayed, last, link, stale, sender, receiver>>
        /\ stage' = "run" => stage = "run"
    BY <1>14 DEF Push, FlushFires, SetPaused, Stop, StopReceiver, SessionEnd
  <2>2. QED
    BY <1>1, <2>1 DEF ConnInv, Tape, In, Prefix
<1>15. CASE UNCHANGED vars
  BY <1>1, <1>15 DEF vars, ConnInv, Tape, In, Prefix
<1>16. CASE Send
  BY <1>5, <1>6, <1>16 DEF Send
<1>17. QED
  BY <1>7, <1>8, <1>9, <1>10, <1>11, <1>12, <1>13, <1>14, <1>15, <1>16 DEF Next

-----------------------------------------------------------------------------
-----------------------------------------------------------------------------
(* The captions                                                            *)

\* Segments under their places in the audio H; and x is in H only where a
\* known start points.
Of(segments, H) == \A seg \in segments : seg[1] \in 1..Len(H) /\ seg[2] = H[seg[1]]
Known(x, H) == \A p \in 1..Len(H) : H[p] = x => p \in committed

\* What is left of a message is of the connection it came on.
TodoInv ==
    /\ receiver # "await" => todo = {}
    /\ Of(todo, Source.heard)

\* Until a cut ring is replayed, the known starts are the places, in what was
\* sent, of the captions shown.
ShownInv ==
    replayed = {} =>
        /\ \A i \in committed :
               i \in 1..Len(sent) /\ \E k \in 1..Len(shown) : shown[k] = sent[i]
        /\ \A k \in 1..Len(shown) : \E i \in committed : shown[k] = sent[i]

\* What was not replayed from a cut ring has one place on the connection that
\* the receive task has and on the current one.
PlaceInv ==
    \A p \in 1..Len(heard), q \in 1..Len(last.heard) :
        heard[p] = last.heard[q] /\ heard[p] \notin replayed => p = q

\* And once it was shown, that place is a known start.
RepeatInv ==
    /\ RepeatsAreReplays
    /\ \A k \in 1..Len(shown) : In(shown[k], sent)
    /\ \A k \in 1..Len(shown) :
           shown[k] \notin replayed => Known(shown[k], heard) /\ Known(shown[k], last.heard)

\* The captions of the connection that the receive task has are known.
EpochInv ==
    /\ mark <= Len(shown)
    /\ OncePerConnection
    /\ receiver \in {"idle", "await"} => \A k \in mark + 1..Len(shown) :
           \E p \in 1..Len(Source.heard) : p \in committed /\ Source.heard[p] = shown[k]

CaptionInv == AudioInv /\ TodoInv /\ ShownInv /\ PlaceInv /\ RepeatInv /\ EpochInv

LEMMA SourceIsTape ==
    ASSUME AudioInv
    PROVE  /\ Source.heard \in Seq(Chunks) /\ Len(Source.heard) \in Nat
           /\ Tape(Source.heard) /\ Source.done <= Len(Source.heard) /\ Source.done \in Nat
           /\ replayed = {} => Prefix(Source.heard)
           /\ Source.heard = heard \/ Source.heard = last.heard
<1>1. Source.heard \in Seq(Chunks) /\ Source.done \in Nat
  BY SourceType DEF AudioInv
<1>2. Len(Source.heard) \in Nat
  BY <1>1, LenProperties
<1>3. CASE stale
  BY <1>1, <1>2, <1>3 DEF Source, AudioInv, ConnInv
<1>4. CASE ~stale
  <2>1. Source.heard = heard /\ Source.done = done
    BY <1>4 DEF Source
  <2>2. QED
    BY <1>1, <1>2, <2>1 DEF AudioInv, ConnInv
<1>5. QED
  BY <1>3, <1>4

\* The audio of the receive task's connection only grows.
LEMMA SourceKept ==
    ASSUME AudioInv, [Next]_vars, receiver \in {"idle", "await"}, receiver' \in {"idle", "await"}
    PROVE  \A p \in 1..Len(Source.heard) :
               p \in 1..Len((Source.heard)') /\ (Source.heard)'[p] = Source.heard[p]
<1> USE DEF audioVars, wlVars, msgVars
<1>1. /\ heard \in Seq(Chunks) /\ Len(heard) \in Nat
  BY LenProperties DEF AudioInv, PipelineTypeOK
<1>2. CASE UNCHANGED <<stale, heard, last>>
  <2>1. (Source.heard)' = Source.heard
    BY <1>2 DEF Source
  <2>2. QED
    BY <2>1
<1>3. CASE Send /\ sender = "on"
  <2>1. PICK h \in Chunks :
               /\ Len(heard') = Len(heard) + 1
               /\ \A p \in 1..Len(heard) : heard'[p] = heard[p]
               /\ UNCHANGED <<last, stale>>
    BY <1>3, Sending
  <2>2. \A p \in 1..Len(heard) : p \in 1..Len(heard')
    BY <1>1, <2>1
  <2>3. QED
    BY <2>1, <2>2 DEF Source
<1>4. CASE AttachSender
  <2>1. heard = <<>> /\ Len(heard) = 0 /\ UNCHANGED <<last, stale>>
    BY <1>4, Replay, NothingIsTape DEF AttachSender
  <2>2. QED
    BY <2>1 DEF Source
<1>5. CASE Connect
  <2>1. stale /\ UNCHANGED <<last, stale>>
    BY <1>5 DEF Connect, AudioInv, ConnInv
  <2>2. QED
    BY <2>1 DEF Source
<1>6. CASE LinkDown \/ Expire
  <2>1. CASE UNCHANGED <<stale, heard, last>>
    BY <1>2, <2>1
  <2>2. CASE Outdate
    <3>1. (Source.heard)' = Source.heard
      BY <2>2 DEF Source, Outdate
    <3>2. QED
      BY <3>1
  <2>3. QED
    BY <1>6, <2>1, <2>2 DEF LinkDown, Expire
<1>7. CASE Send
  BY <1>2, <1>3, <1>7 DEF Send
<1>8. QED
  BY <1>2, <1>4, <1>5, <1>6, <1>7 DEF Next, Push, Transcribe,
     AttachReceiver, Receive, Store, StoreFails, ReceiverLetsGo, FlushFires, SetPaused,
     Stop, StopReceiver, ReceiverGone, SessionEnd, vars

\* What comes into a connection's audio: nothing, new audio, or a replay.
LEMMA HeardSteps ==
    ASSUME AudioInv, [Next]_vars
    PROVE  /\ replayed \subseteq replayed'
           /\ \A p \in 1..Len(heard') :
                  \/ p \in 1..Len(heard) /\ heard'[p] = heard[p]
                  \/ ~In(heard'[p], sent)
                  \/ heard'[p] \in replayed'
                  \/ replayed = {} /\ p \in 1..Len(sent) /\ heard'[p] = sent[p]
           /\ \/ last' = last
              \/ heard' = heard /\ last'.heard = heard
              \/ Len(last'.heard) = 0
<1> USE DEF audioVars, wlVars, msgVars
<1>1. CASE UNCHANGED <<heard, replayed>>
  <2>1. \/ last' = last
        \/ last'.heard = heard
        \/ Len(last'.heard) = 0
    BY <1>1, NothingIsTape DEF Next, Push, Connect, AttachSender, Send, LinkDown, Expire, Outdate,
       Transcribe, AttachReceiver, Receive, Store, StoreFails, ReceiverLetsGo, FlushFires,
       SetPaused, Stop, StopReceiver, ReceiverGone, SessionEnd, vars
  <2>2. QED
    BY <1>1, <2>1
<1>2. CASE Send /\ sender = "on"
  <2>1. PICK h \in Chunks :
               /\ Len(heard) \in Nat
               /\ Len(heard') = Len(heard) + 1 /\ heard'[Len(heard) + 1] = h
               /\ \A p \in 1..Len(heard) : heard'[p] = heard[p]
               /\ \A i \in 1..Len(sent) : sent[i] < h
               /\ UNCHANGED <<replayed, last>>
    BY <1>2, Sending
  <2>2. \A p \in 1..Len(heard') : p \in 1..Len(heard) \/ p = Len(heard) + 1
    BY <2>1
  <2>3. ~In(h, sent)
    <3>1. h \in Nat
      BY <2>1, BoundsAssumption DEF Chunks
    <3>2. QED
      BY <2>1, <3>1 DEF In
  <2>4. QED
    BY <2>1, <2>2, <2>3
<1>3. CASE Connect
  <2>1. Len(heard') = 0 /\ UNCHANGED <<replayed, last>>
    BY <1>3, NothingIsTape DEF Connect
  <2>2. QED
    BY <2>1
<1>4. CASE AttachSender
  <2>1. heard' = ring /\ UNCHANGED last
    BY <1>4, Replay DEF AttachSender
  <2>2. CASE ring = sent
    <3>1. replayed = {} /\ replayed' = {}
      BY <1>4, <2>2, Replay
    <3>2. QED
      BY <2>1, <2>2, <3>1
  <2>3. CASE ring # sent
    BY <1>4, <2>1, <2>3, Replay
  <2>4. QED
    BY <2>2, <2>3
<1>5. CASE Send
  BY <1>1, <1>2, <1>5 DEF Send
<1>6. QED
  BY <1>1, <1>3, <1>4, <1>5 DEF Next, Push, LinkDown, Expire, Transcribe,
     AttachReceiver, Receive, Store, StoreFails, ReceiverLetsGo, FlushFires, SetPaused,
     Stop, StopReceiver, ReceiverGone, SessionEnd, vars

LEMMA PlaceKept ==
    ASSUME AudioInv, PlaceInv, [Next]_vars
    PROVE  PlaceInv'
<1>1. /\ heard \in Seq(Chunks) /\ sent \in Seq(Chunks)
      /\ Increasing(heard) /\ Increasing(sent)
  BY DEF AudioInv, PipelineTypeOK, ConnInv, SentInv, Tape
<1>2. ASSUME NEW p \in 1..Len(heard'), NEW q \in 1..Len(last'.heard),
             heard'[p] = last'.heard[q], heard'[p] \notin replayed'
      PROVE  p = q
  <2>1. CASE Len(last'.heard) = 0
    BY <1>2, <2>1
  <2>2. CASE heard' = heard /\ last'.heard = heard
    BY <1>1, <1>2, <2>2, IncreasingIsInjective
  <2>3. CASE last' = last
    <3>1. In(last.heard[q], sent)
      BY <1>2, <2>3 DEF AudioInv, ConnInv, Tape
    <3>2. CASE p \in 1..Len(heard) /\ heard'[p] = heard[p]
      BY <1>2, <2>3, <3>2, HeardSteps DEF PlaceInv
    <3>3. CASE replayed = {} /\ p \in 1..Len(sent) /\ heard'[p] = sent[p]
      <4>1. Prefix(last.heard)
        BY <3>3 DEF AudioInv, ConnInv
      <4>2. q \in 1..Len(sent) /\ last.heard[q] = sent[q]
        <5>1. last.heard \in Seq(Chunks) /\ Len(last.heard) \in Nat /\ Len(sent) \in Nat
          BY <1>1, LenProperties DEF AudioInv, PipelineTypeOK
        <5>2. q \in 1..Len(last.heard)
          BY <1>2, <2>3
        <5>3. QED
          BY <4>1, <5>1, <5>2 DEF Prefix
      <4>3. QED
        BY <1>1, <1>2, <2>3, <3>3, <4>2, IncreasingIsInjective
    <3>4. QED
      BY <1>2, <2>3, <3>1, <3>2, <3>3, HeardSteps
  <2>4. QED
    BY <2>1, <2>2, <2>3, HeardSteps
<1>3. QED
  BY <1>2 DEF PlaceInv

\* A step that shows nothing leaves what is known of the captions true.
LEMMA QuietKeeps ==
    ASSUME CaptionInv, [Next]_vars, UNCHANGED <<committed, shown>>
    PROVE  ShownInv' /\ RepeatInv'
<1>1. /\ sent \in Seq(Chunks) /\ Increasing(sent)
      /\ \A i \in 1..Len(sent) : i \in 1..Len(sent') /\ sent'[i] = sent[i]
      /\ replayed \subseteq replayed'
  BY SentGrows, HeardSteps DEF CaptionInv, AudioInv, PipelineTypeOK, SentInv
<1>2. ShownInv'
  <2>1. SUFFICES ASSUME replayed' = {}
                 PROVE  /\ \A i \in committed :
                               i \in 1..Len(sent') /\ \E k \in 1..Len(shown) : shown[k] = sent'[i]
                        /\ \A k \in 1..Len(shown) : \E i \in committed : shown[k] = sent'[i]
    BY DEF ShownInv
  <2>2. replayed = {}
    BY <1>1, <2>1
  <2>3. /\ \A i \in committed :
               i \in 1..Len(sent) /\ \E k \in 1..Len(shown) : shown[k] = sent[i]
        /\ \A k \in 1..Len(shown) : \E i \in committed : shown[k] = sent[i]
    BY <2>2 DEF CaptionInv, ShownInv
  <2>4. QED
    BY <1>1, <2>3
<1>3. \A k \in 1..Len(shown) : \E i \in 1..Len(sent') : sent'[i] = shown[k]
  BY <1>1 DEF CaptionInv, RepeatInv, In
<1>4. ASSUME NEW k \in 1..Len(shown), shown[k] \notin replayed'
      PROVE  /\ \A p \in 1..Len(heard') : heard'[p] = shown[k] => p \in committed
             /\ \A p \in 1..Len(last'.heard) : last'.heard[p] = shown[k] => p \in committed
  <2>1. /\ Known(shown[k], heard) /\ Known(shown[k], last.heard) /\ In(shown[k], sent)
    BY <1>1, <1>4 DEF CaptionInv, RepeatInv
  <2>2. ASSUME NEW p \in 1..Len(heard'), heard'[p] = shown[k]
        PROVE  p \in committed
    <3>1. CASE p \in 1..Len(heard) /\ heard'[p] = heard[p]
      BY <2>1, <2>2, <3>1 DEF Known
    <3>2. CASE replayed = {} /\ p \in 1..Len(sent) /\ heard'[p] = sent[p]
      <4>1. PICK i \in committed : i \in 1..Len(sent) /\ shown[k] = sent[i]
        BY <3>2 DEF CaptionInv, ShownInv
      <4>2. p = i
        BY <1>1, <2>2, <3>2, <4>1, IncreasingIsInjective
      <4>3. QED
        BY <4>1, <4>2
    <3>3. QED
      BY <1>4, <2>1, <2>2, <3>1, <3>2, HeardSteps DEF CaptionInv
  <2>3. ASSUME NEW p \in 1..Len(last'.heard), last'.heard[p] = shown[k]
        PROVE  p \in committed
    <3>1. CASE last' = last
      BY <2>1, <2>3, <3>1 DEF Known
    <3>2. CASE last'.heard = heard
      BY <2>1, <2>3, <3>2 DEF Known
    <3>3. CASE Len(last'.heard) = 0
      BY <2>3, <3>3
    <3>4. QED
      BY <3>1, <3>2, <3>3, HeardSteps DEF CaptionInv
  <2>4. QED
    BY <2>2, <2>3
<1>5. RepeatsAreReplays'
  BY <1>1 DEF CaptionInv, RepeatInv, RepeatsAreReplays
<1>6. RepeatInv'
  BY <1>3, <1>4, <1>5 DEF RepeatInv, In, Known
<1>7. QED
  BY <1>2, <1>6

\* What is left of a message stays true of its connection, and so does the
\* list of the captions that are known of it.
LEMMA EpochQuiet ==
    ASSUME CaptionInv, [Next]_vars, UNCHANGED <<committed, shown>>,
           UNCHANGED mark \/ AttachReceiver,
           receiver' # "await" => todo' = {}, UNCHANGED todo \/ todo' = {},
           receiver' \in {"idle", "await"} => receiver \in {"idle", "await"} \/ AttachReceiver
    PROVE  TodoInv' /\ EpochInv'
<1>1. Len(shown) \in Nat /\ mark \in Nat
  BY LenProperties DEF CaptionInv, AudioInv, PipelineTypeOK
<1>2. TodoInv'
  <2>1. CASE todo' = {}
    BY <2>1 DEF TodoInv, Of
  <2>2. CASE todo' # {}
    <3>1. todo' = todo /\ receiver' = "await" /\ receiver \in {"idle", "await"}
      <4>1. receiver' = "await" /\ todo' = todo
        BY <2>2
      <4>2. ~AttachReceiver
        BY <4>1 DEF AttachReceiver
      <4>3. QED
        BY <4>1, <4>2
    <3>2. \A p \in 1..Len(Source.heard) :
               p \in 1..Len((Source.heard)') /\ (Source.heard)'[p] = Source.heard[p]
      BY <3>1, SourceKept DEF CaptionInv
    <3>3. \A seg \in todo : seg[1] \in 1..Len(Source.heard) /\ seg[2] = Source.heard[seg[1]]
      BY DEF CaptionInv, TodoInv, Of
    <3>4. \A seg \in todo :
             seg[1] \in 1..Len((Source.heard)') /\ seg[2] = (Source.heard)'[seg[1]]
      BY <3>2, <3>3
    <3>5. QED
      BY <3>1, <3>4 DEF TodoInv, Of
  <2>3. QED
    BY <2>1, <2>2
<1>3. CASE AttachReceiver
  <2>1. mark' = Len(shown) /\ shown' = shown
    BY <1>3 DEF AttachReceiver
  <2>2. mark' + 1..Len(shown') = {}
    BY <1>1, <2>1
  <2>3. mark' <= Len(shown')
    BY <1>1, <2>1
  <2>4. EpochInv'
    BY <2>2, <2>3 DEF EpochInv, OncePerConnection
  <2>5. QED
    BY <1>2, <2>4
<1>4. CASE ~AttachReceiver
  <2>1. mark' = mark /\ mark <= Len(shown) /\ OncePerConnection
    BY <1>4 DEF CaptionInv, EpochInv
  <2>2. ASSUME receiver' \in {"idle", "await"}, NEW k \in mark + 1..Len(shown)
        PROVE  \E p \in 1..Len((Source.heard)') : p \in committed /\ (Source.heard)'[p] = shown[k]
    <3>1. receiver \in {"idle", "await"}
      BY <1>4, <2>2
    <3>2. PICK p \in 1..Len(Source.heard) : p \in committed /\ Source.heard[p] = shown[k]
      BY <2>2, <3>1 DEF CaptionInv, EpochInv
    <3>3. p \in 1..Len((Source.heard)') /\ (Source.heard)'[p] = Source.heard[p]
      BY <2>2, <3>1, SourceKept DEF CaptionInv
    <3>4. QED
      BY <3>2, <3>3
  <2>3. OncePerConnection'
    BY <2>1 DEF OncePerConnection
  <2>4. EpochInv'
    BY <2>1, <2>2, <2>3 DEF EpochInv
  <2>5. QED
    BY <1>2, <2>4
<1>5. QED
  BY <1>3, <1>4

\* A look at a message shows at most one segment, whose start was not known.
LEMMA ProceedShows ==
    ASSUME CaptionInv, UNCHANGED <<heard, last, stale, done, replayed, sent, mark>>,
           receiver \in {"idle", "await"},
           NEW segments, NEW text, Proceed(segments, text), Of(segments, Source.heard)
    PROVE  TodoInv' /\ ShownInv' /\ RepeatInv' /\ EpochInv'
<1> DEFINE S == Source.heard
           n == Len(shown)
<1>1. /\ S \in Seq(Chunks) /\ Tape(S) /\ (S = heard \/ S = last.heard)
      /\ replayed = {} => Prefix(S)
      /\ (Source.heard)' = S
      /\ Len(S) \in Nat
  BY SourceIsTape DEF CaptionInv, Source
<1>2. /\ shown \in Seq(Chunks) /\ n \in Nat /\ mark \in Nat
      /\ sent \in Seq(Chunks) /\ Len(sent) \in Nat /\ Increasing(sent)
      /\ heard \in Seq(Chunks) /\ last.heard \in Seq(Chunks)
      /\ Increasing(heard) /\ Increasing(last.heard)
  BY LenProperties DEF CaptionInv, AudioInv, PipelineTypeOK, SentInv, ConnInv, Tape
<1>3. CASE UNCHANGED <<committed, shown>> /\ todo' = {} /\ receiver' = "idle"
  <2>1. TodoInv' /\ ShownInv'
    BY <1>3 DEF CaptionInv, TodoInv, Of, ShownInv
  <2>2. RepeatInv'
    BY <1>3 DEF CaptionInv, RepeatInv, RepeatsAreReplays, In, Known
  <2>3. EpochInv'
    BY <1>1, <1>3 DEF CaptionInv, EpochInv, OncePerConnection
  <2>4. QED
    BY <2>1, <2>2, <2>3
<1>4. ASSUME NEW seg \in segments, seg[1] \notin committed,
             committed' = committed \cup {seg[1]}, shown' = Append(shown, seg[2]),
             todo' \subseteq segments, receiver' = "await"
      PROVE  TodoInv' /\ ShownInv' /\ RepeatInv' /\ EpochInv'
  <2> DEFINE c == seg[1]
             x == seg[2]
  <2>1. c \in 1..Len(S) /\ x = S[c]
    BY DEF Of
  <2>2. x \in Chunks /\ In(x, sent)
    BY <1>1, <2>1, ElementOfSeq DEF Tape
  <2>3. /\ Len(shown') = n + 1 /\ shown'[n + 1] = x
        /\ \A k \in 1..n : shown'[k] = shown[k]
    BY <1>2, <1>4, <2>2, AppendProperties
  <2>4. /\ \A k \in 1..n + 1 : k \in 1..n \/ k = n + 1
        /\ \A k \in 1..n : k \in 1..n + 1
        /\ n + 1 \in 1..n + 1
    BY <1>2
  <2> HIDE DEF n, S, c, x
  \* A place of x is its place on this connection, if it was not replayed.
  <2>5. ASSUME x \notin replayed
        PROVE  /\ \A p \in 1..Len(heard) : heard[p] = x => p = c
               /\ \A p \in 1..Len(last.heard) : last.heard[p] = x => p = c
    <3>1. CASE S = heard
      BY <1>2, <2>1, <2>5, <3>1, IncreasingIsInjective DEF CaptionInv, PlaceInv
    <3>2. CASE S = last.heard
      BY <1>2, <2>1, <2>5, <3>2, IncreasingIsInjective DEF CaptionInv, PlaceInv
    <3>3. QED
      BY <1>1, <3>1, <3>2
  <2>6. \A k \in 1..n : shown[k] = x => x \in replayed
    <3>1. ASSUME NEW k \in 1..n, shown[k] = x, x \notin replayed
          PROVE  FALSE
      <4>1. Known(x, heard) /\ Known(x, last.heard)
        BY <3>1 DEF CaptionInv, RepeatInv, n
      <4>2. c \in committed
        BY <1>1, <2>1, <4>1 DEF Known
      <4>3. QED
        BY <1>4, <4>2 DEF c
    <3>2. QED
      BY <3>1
  <2>7. TodoInv'
    <3>1. Of(todo', S)
      BY <1>4 DEF Of, S
    <3>2. QED
      BY <1>1, <1>4, <3>1 DEF TodoInv, Of
  <2>8. ShownInv'
    <3>1. SUFFICES ASSUME replayed = {}
                   PROVE  /\ \A i \in committed' : /\ i \in 1..Len(sent)
                                                   /\ \E k \in 1..Len(shown') : shown'[k] = sent[i]
                          /\ \A k \in 1..Len(shown') : \E i \in committed' : shown'[k] = sent[i]
      BY DEF ShownInv
    <3>2. c \in 1..Len(sent) /\ x = sent[c]
      BY <1>1, <1>2, <2>1, <3>1 DEF Prefix
    <3>3. /\ \A i \in committed : i \in 1..Len(sent) /\ \E k \in 1..n : shown[k] = sent[i]
          /\ \A k \in 1..n : \E i \in committed : shown[k] = sent[i]
      BY <3>1 DEF CaptionInv, ShownInv, n
    <3>4. committed' = committed \cup {c}
      BY <1>4 DEF c
    <3>5. \A i \in committed' : i \in 1..Len(sent) /\ \E k \in 1..Len(shown') : shown'[k] = sent[i]
      BY <2>3, <2>4, <3>2, <3>3, <3>4
    <3>6. \A k \in 1..Len(shown') : \E i \in committed' : shown'[k] = sent[i]
      BY <2>3, <2>4, <3>2, <3>3, <3>4
    <3>7. QED
      BY <3>5, <3>6
  <2>9. RepeatInv'
    <3>1. \A i, j \in 1..n : i # j /\ shown[i] = shown[j] => shown[i] \in replayed
      BY DEF CaptionInv, RepeatInv, RepeatsAreReplays, n
    <3>2. \A i, j \in 1..n + 1 : i # j /\ shown'[i] = shown'[j] => shown'[i] \in replayed
      BY <2>3, <2>4, <2>6, <3>1
    <3>3. RepeatsAreReplays'
      BY <2>3, <3>2 DEF RepeatsAreReplays
    <3>4. \A k \in 1..n + 1 : In(shown'[k], sent)
      BY <2>2, <2>3, <2>4 DEF CaptionInv, RepeatInv, n
    <3>5. ASSUME NEW k \in 1..n + 1, shown'[k] \notin replayed
          PROVE  /\ \A p \in 1..Len(heard) : heard[p] = shown'[k] => p \in committed'
                 /\ \A p \in 1..Len(last.heard) : last.heard[p] = shown'[k] => p \in committed'
      <4>1. CASE k \in 1..n
        <5>1. Known(shown[k], heard) /\ Known(shown[k], last.heard) /\ shown'[k] = shown[k]
          BY <2>3, <3>5, <4>1 DEF CaptionInv, RepeatInv, n
        <5>2. QED
          BY <1>4, <5>1 DEF Known
      <4>2. CASE k = n + 1
        <5>1. c \in committed'
          BY <1>4 DEF c
        <5>2. QED
          BY <2>3, <2>5, <3>5, <4>2, <5>1
      <4>3. QED
        BY <2>4, <4>1, <4>2
    <3>6. QED
      BY <2>3, <3>3, <3>4, <3>5 DEF RepeatInv, In, Known
  <2>10. EpochInv'
    <3>1. mark <= n
      BY DEF CaptionInv, EpochInv, n
    <3>2. /\ \A k \in mark + 1..n + 1 : k \in mark + 1..n \/ k = n + 1
          /\ \A k \in mark + 1..n : k \in 1..n
      BY <1>2, <3>1
    <3>3. \A k \in mark + 1..n : \E p \in 1..Len(S) : p \in committed /\ S[p] = shown[k]
      BY DEF CaptionInv, EpochInv, n, S
    <3>4. \A k \in mark + 1..n : shown[k] # x
      <4>1. ASSUME NEW k \in mark + 1..n, shown[k] = x
            PROVE  FALSE
        <5>1. PICK p \in 1..Len(S) : p \in committed /\ S[p] = shown[k]
          BY <3>3
        <5>2. p = c
          BY <1>1, <2>1, <4>1, <5>1, IncreasingIsInjective DEF Tape
        <5>3. QED
          BY <1>4, <5>1, <5>2 DEF c
      <4>2. QED
        BY <4>1
    <3>5. \A i, j \in mark + 1..n : shown[i] = shown[j] => i = j
      BY DEF CaptionInv, EpochInv, OncePerConnection, n
    <3>6. \A i, j \in mark + 1..n + 1 : shown'[i] = shown'[j] => i = j
      BY <2>3, <3>2, <3>4, <3>5
    <3>7. \A k \in mark + 1..n + 1 : \E p \in 1..Len(S) : p \in committed' /\ S[p] = shown'[k]
      <4>1. TAKE k \in mark + 1..n + 1
      <4>2. CASE k \in mark + 1..n
        BY <1>4, <2>3, <3>2, <3>3, <4>2
      <4>3. CASE k = n + 1
        <5>1. c \in committed'
          BY <1>4 DEF c
        <5>2. QED
          BY <2>1, <2>3, <4>3, <5>1
      <4>4. QED
        BY <3>2, <4>2, <4>3
    <3>8. mark <= n + 1
      BY <1>2, <3>1
    <3>9. OncePerConnection'
      BY <2>3, <3>6 DEF OncePerConnection
    <3>10. QED
      BY <1>1, <2>3, <3>7, <3>8, <3>9 DEF EpochInv
  <2>11. QED
    BY <2>7, <2>8, <2>9, <2>10
<1>5. QED
  BY <1>3, <1>4, ProceedCases

\* A message has segments of the receive task's connection.
LEMMA MessageOfSource ==
    ASSUME AudioInv, NEW d \in 0..Source.done
    PROVE  Of(LastSegments(d), Source.heard)
<1>1. Source.done \in Nat /\ Len(Source.heard) \in Nat /\ Source.done <= Len(Source.heard)
  BY SourceIsTape
<1>2. ASSUME NEW seg \in LastSegments(d)
      PROVE  seg[1] \in 1..Len(Source.heard) /\ seg[2] = Source.heard[seg[1]]
  <2>1. PICK i \in 1..d : seg = <<i, Source.heard[i]>>
    BY DEF LastSegments, Segments
  <2>2. i \in 1..Len(Source.heard)
    BY <1>1, <2>1
  <2>3. QED
    BY <2>1, <2>2
<1>3. QED
  BY <1>2 DEF Of

LEMMA CaptionsKept ==
    ASSUME CaptionInv, [Next]_vars
    PROVE  TodoInv' /\ ShownInv' /\ RepeatInv' /\ EpochInv'
<1> USE DEF audioVars, wlVars, capVars, msgVars
<1>1. CASE Receive
  <2>1. PICK d \in 0..Source.done : \E text : Proceed(LastSegments(d), text)
    BY <1>1 DEF Receive
  <2>2. PICK text : Proceed(LastSegments(d), text)
    BY <2>1
  <2>3. /\ UNCHANGED <<heard, last, stale, done, replayed, sent, mark>>
        /\ receiver \in {"idle", "await"}
    BY <1>1 DEF Receive
  <2>4. Of(LastSegments(d), Source.heard)
    BY MessageOfSource DEF CaptionInv
  <2>5. QED
    BY <2>2, <2>3, <2>4, ProceedShows
<1>2. CASE Store
  <2>1. /\ Proceed(todo, tentText)
        /\ UNCHANGED <<heard, last, stale, done, replayed, sent, mark>>
        /\ receiver \in {"idle", "await"}
    BY <1>2 DEF Store
  <2>2. Of(todo, Source.heard)
    BY DEF CaptionInv, TodoInv
  <2>3. QED
    BY <2>1, <2>2, ProceedShows
<1>3. ASSUME UNCHANGED <<committed, shown>>, UNCHANGED mark \/ AttachReceiver,
             receiver' # "await" => todo' = {}, UNCHANGED todo \/ todo' = {},
             receiver' \in {"idle", "await"} => receiver \in {"idle", "await"} \/ AttachReceiver
      PROVE  TodoInv' /\ ShownInv' /\ RepeatInv' /\ EpochInv'
  BY <1>3, QuietKeeps, EpochQuiet
<1>4. receiver # "await" => todo = {}
  BY DEF CaptionInv, TodoInv
<1>5. CASE \/ Push \/ Connect \/ AttachSender \/ Send \/ LinkDown \/ Expire \/ Transcribe
  BY <1>3, <1>4, <1>5 DEF Push, Connect, AttachSender, Send, LinkDown, Expire, Transcribe
<1>6. CASE AttachReceiver
  BY <1>3, <1>4, <1>6 DEF AttachReceiver
<1>7. CASE StoreFails \/ ReceiverLetsGo \/ ReceiverGone
  <2>1. /\ UNCHANGED <<committed, shown, mark>> /\ receiver' \in {"off", "gone"}
        /\ todo' = {}
    BY <1>4, <1>7 DEF StoreFails, ReceiverLetsGo, ResetWlState, ReceiverGone
  <2>2. QED
    BY <1>3, <2>1
<1>8. CASE FlushFires \/ SetPaused \/ Stop \/ StopReceiver \/ SessionEnd
  BY <1>3, <1>4, <1>8 DEF FlushFires, SetPaused, Stop, StopReceiver, SessionEnd
<1>9. CASE UNCHANGED vars
  BY <1>3, <1>4, <1>9 DEF vars
<1>10. QED
  BY <1>1, <1>2, <1>5, <1>6, <1>7, <1>8, <1>9 DEF Next

LEMMA CaptionInvariant == Spec => []CaptionInv
<1>1. Init => CaptionInv
  <2> SUFFICES ASSUME Init PROVE CaptionInv
    OBVIOUS
  <2>1. /\ queue = <<>> /\ ring = <<>> /\ sent = <<>> /\ heard = <<>> /\ shown = <<>>
        /\ Len(queue) = 0 /\ Len(ring) = 0 /\ Len(sent) = 0 /\ Len(heard) = 0 /\ Len(shown) = 0
        /\ committed = {} /\ todo = {} /\ done = 0 /\ sender = "off" /\ replayed = {} /\ mark = 0
        /\ last = Nothing /\ ~link /\ receiver = "off"
    BY DEF Init
  <2>2. SentInv /\ RingInv
    BY <2>1, NothingIsTape DEF SentInv, RingInv, Increasing
  <2>3. ConnInv
    BY <2>1, NothingIsTape DEF ConnInv, Tape, Prefix
  <2>4. TodoInv /\ ShownInv /\ PlaceInv
    BY <2>1 DEF TodoInv, Of, ShownInv, PlaceInv
  <2>5. RepeatInv /\ EpochInv
    BY <2>1 DEF RepeatInv, RepeatsAreReplays, EpochInv, OncePerConnection
  <2>6. QED
    BY <2>2, <2>3, <2>4, <2>5, InitTypes DEF CaptionInv, AudioInv
<1>2. CaptionInv /\ [Next]_vars => CaptionInv'
  BY TypesKept, SentKept, RingKept, ConnKept, PlaceKept, CaptionsKept DEF CaptionInv, AudioInv
<1>3. QED
  BY <1>1, <1>2, PTL DEF Spec

\* Whatever the size of the ring, no reconnect, replay, repeated or buffered
\* message broadcasts a caption a second time, but speech that was replayed from
\* a ring that had dropped audio.
THEOREM OnlyReplaysRepeat == Spec => []RepeatsAreReplays
<1>1. CaptionInv => RepeatsAreReplays
  BY DEF CaptionInv, RepeatInv
<1>2. QED
  BY <1>1, CaptionInvariant, PTL

\* And on one connection nothing is broadcast twice, replayed or not.
THEOREM UniquePerConnection == Spec => []OncePerConnection
<1>1. CaptionInv => OncePerConnection
  BY DEF CaptionInv, EpochInv
<1>2. QED
  BY <1>1, CaptionInvariant, PTL

\* Until a ring that had dropped audio is replayed, committed_starts suppresses
\* only what viewers have had.
THEOREM NothingHeldBack == Spec => []OnlyShownIsSuppressed
<1>1. ASSUME CaptionInv, link, replayed = {}, NEW i \in 1..Len(heard), i \in committed
      PROVE  \E j \in 1..Len(shown) : shown[j] = heard[i]
  <2>1. heard[i] = sent[i]
    BY <1>1 DEF CaptionInv, AudioInv, ConnInv, Prefix
  <2>2. QED
    BY <1>1, <2>1 DEF CaptionInv, ShownInv
<1>2. CaptionInv => OnlyShownIsSuppressed
  BY <1>1 DEF OnlyShownIsSuppressed
<1>3. QED
  BY <1>2, CaptionInvariant, PTL
=============================================================================
