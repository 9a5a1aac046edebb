---------------------- MODULE SessionLifecycleProofs ----------------------
(***************************************************************************)
(* Proofs about SessionLifecycle, for any sets of handlers, stoppers and   *)
(* admins, whether or not the database fails, and however they overlap.    *)
(*                                                                         *)
(* The safety properties are not inductive one by one: that nobody else    *)
(* ends a session rests on pop() taking a session whose row is open and    *)
(* whose stop event is not set (CurrentIsRunning), which rests on a        *)
(* handler installing a session that nobody can have stopped (RowInv),     *)
(* and so on round.  IInv is their conjunction, strengthened.              *)
(***************************************************************************)
EXTENDS SessionLifecycle, TLAPS

\* What a teardown has done so far to its victim.
TeardownInv ==
    \A a \in Actors :
        /\ victim[a] # NoOne =>
              /\ victim[a] \in stopped
              /\ pc[a] \notin {"stopSend", "stopRecv"} => loops[victim[a]] \cap Tasks = {}
        /\ Ending(a) =>
              /\ victim[a] \in stopped
              /\ victim[a] \notin announced
              /\ row[victim[a]] = "open"
              /\ \A b \in Actors \ {a} : Ending(b) => victim[b] # victim[a]
        /\ pc[a] = "stopRecv" => "send" \notin loops[victim[a]]

\* How far a handler has come with the session it creates.
RowInv ==
    /\ announced \subseteq stopped
    /\ \A h \in Handlers :
        /\ pc[h] \in {"idle", "reading", "flagged", "insert"} => row[h] = "none"
        /\ pc[h] = "install" => row[h] = "open"
        /\ pc[h] = "streaming" => row[h] # "none"
        /\ row[h] = "none" \/ pc[h] = "install" => h \notin stopped

IInv ==
    /\ TypeOK
    /\ TeardownInv
    /\ RowInv
    /\ CurrentIsRunning
    /\ EndAnnouncedLast
    /\ NotAbandoned

\* The variables that IInv, apart from the types, speaks of.
coreVars == <<pc, victim, current, stopped, loops, row, announced>>

-----------------------------------------------------------------------------
(* Type correctness                                                        *)

\* An actor that is ending a session knows which: with it the types are
\* inductive.
VictimTyped == \A a \in Actors : Ending(a) => victim[a] \in Handlers

\* The initial states are well typed.
LEMMA InitTypeOK == Init => TypeOK /\ VictimTyped
<1> SUFFICES ASSUME Init PROVE TypeOK /\ VictimTyped
  OBVIOUS
<1>1. /\ pc \in [Actors -> Stages]
      /\ victim \in [Actors -> Handlers \cup {NoOne}]
      /\ VictimTyped
  BY DEF Init, VictimTyped, Ending, Stages, StartStages, EndStages
<1>2. /\ enabledRead \in [Handlers -> BOOLEAN]
      /\ paused \in [Handlers -> BOOLEAN]
      /\ wlReady \in [Handlers -> BOOLEAN]
      /\ queued \in [Handlers -> BOOLEAN]
      /\ loops \in [Handlers -> SUBSET (Tasks \cup {"flush"})]
      /\ row \in [Handlers -> {"none", "open", "ended"}]
  BY DEF Init
<1>3. /\ enabledDb \in BOOLEAN
      /\ patch \in [Admins -> {"idle", "changed", "committed", "done"}]
      /\ want \in [Admins -> BOOLEAN]
      /\ viewer \in {"offline", "live", "paused"}
  BY DEF Init
<1>. QED
  BY <1>1, <1>2, <1>3 DEF Init, TypeOK

\* Every step keeps every variable in its type.
LEMMA NextTypeOK == TypeOK /\ VictimTyped /\ [Next]_vars => TypeOK' /\ VictimTyped'
<1> SUFFICES ASSUME TypeOK, VictimTyped, [Next]_vars
             PROVE  TypeOK' /\ VictimTyped'
  OBVIOUS
<1> USE ConstantsAssumption
<1>0. CASE UNCHANGED vars
  BY <1>0 DEF TypeOK, VictimTyped, Ending, vars, handlerVars, sessionVars, tableVars, adminVars, historyVars
<1>1. ASSUME NEW a \in Actors, EndStep(a) PROVE TypeOK' /\ VictimTyped'
  <2>1. CASE StopSend(a)
    BY <2>1 DEF TypeOK, VictimTyped, Ending, historyVars, Actors, Stages, StartStages, EndStages,
       StopSend, Goto, tableVars, adminVars
  <2>2. CASE StopRecv(a)
    BY <2>2 DEF TypeOK, VictimTyped, Ending, historyVars, Actors, Stages, StartStages, EndStages,
       StopRecv, Goto, tableVars, adminVars
  <2>3. CASE CloseWl(a)
    <3>1. victim[a] \in Handlers
      BY <2>3 DEF CloseWl, VictimTyped, Ending, EndStages
    <3>2. PICK left \in {FALSE, wlReady[victim[a]]} :
              wlReady' = [wlReady EXCEPT ![victim[a]] = left]
      BY <2>3 DEF CloseWl
    <3>3. left \in BOOLEAN
      BY <3>1, <3>2 DEF TypeOK
    <3>4. wlReady' \in [Handlers -> BOOLEAN]
      BY <3>2, <3>3 DEF TypeOK
    <3>. QED
      BY <2>3, <3>4 DEF TypeOK, VictimTyped, Ending, historyVars, Goto, Actors, Stages, StartStages,
         EndStages, CloseWl, tableVars, adminVars
  <2>4. CASE EndRow(a)
    BY <2>4 DEF TypeOK, VictimTyped, Ending, historyVars, Actors, Stages, StartStages, EndStages,
       EndRow, Goto, sessionVars, tableVars, adminVars
  <2>. QED
    BY <1>1, <2>1, <2>2, <2>3, <2>4 DEF EndStep
<1>2. ASSUME NEW h \in Handlers, StartStep(h) PROVE TypeOK' /\ VictimTyped'
  <2>1. CASE ReadFlag(h)
    BY <2>1 DEF TypeOK, VictimTyped, Ending, historyVars, Actors, Stages, StartStages, EndStages,
       ReadFlag, Goto, sessionVars, tableVars, adminVars
  <2>2. CASE StartSession(h)
    BY <2>2 DEF TypeOK, VictimTyped, Ending, historyVars, Actors, Stages, StartStages, EndStages,
       StartSession, Goto, Pop, OffAirBy, tableVars, adminVars
  <2>3. CASE EndedThenInsert(h)
    BY <2>3 DEF TypeOK, VictimTyped, Ending, historyVars, Actors, Stages, StartStages, EndStages,
       EndedThenInsert, Goto, sessionVars, tableVars, adminVars
  <2>4. CASE InsertRow(h)
    BY <2>4 DEF TypeOK, VictimTyped, Ending, historyVars, Actors, Stages, StartStages, EndStages,
       InsertRow, Goto, sessionVars, adminVars
  <2>5. CASE Install(h)
    BY <2>5 DEF TypeOK, VictimTyped, Ending, historyVars, Actors, Stages, StartStages, EndStages,
       Install, Goto, OffAirBy, Tasks, tableVars, adminVars
  <2>. QED
    BY <1>2, <2>1, <2>2, <2>3, <2>4, <2>5 DEF StartStep
<1>3. ASSUME NEW h \in Handlers, Accept(h) PROVE TypeOK' /\ VictimTyped'
  BY <1>3 DEF TypeOK, VictimTyped, Ending, historyVars, Actors, Stages, StartStages, EndStages,
     Accept, Goto, sessionVars, tableVars, adminVars
<1>4. ASSUME NEW h \in Handlers, Chunk(h) PROVE TypeOK' /\ VictimTyped'
  BY <1>4 DEF TypeOK, VictimTyped, Ending, historyVars, Actors, Stages, StartStages, EndStages,
     Chunk, handlerVars, tableVars, adminVars
<1>5. ASSUME NEW h \in Handlers, Disconnect(h) PROVE TypeOK' /\ VictimTyped'
  BY <1>5 DEF TypeOK, VictimTyped, Ending, historyVars, Actors, Stages, StartStages, EndStages,
     Disconnect, Goto, Pop, OffAirBy, OnOffline, tableVars, adminVars
<1>6. ASSUME NEW h \in Handlers, EndedThenOffline(h) PROVE TypeOK' /\ VictimTyped'
  BY <1>6 DEF TypeOK, VictimTyped, Ending, historyVars, Actors, Stages, StartStages, EndStages,
     EndedThenOffline, Goto, OnOffline, sessionVars, tableVars, adminVars
<1>7. ASSUME NEW t \in Stoppers, Shutdown(t) PROVE TypeOK' /\ VictimTyped'
  BY <1>7 DEF TypeOK, VictimTyped, Ending, historyVars, Actors, Stages, StartStages, EndStages,
     Shutdown, Goto, Pop, OffAirBy, tableVars, adminVars
<1>8. ASSUME NEW s \in Handlers, WlUp(s) PROVE TypeOK' /\ VictimTyped'
  BY <1>8 DEF TypeOK, VictimTyped, Ending, historyVars, Actors, Stages, StartStages, EndStages, WlUp,
     Tell, OnLive, handlerVars, tableVars, adminVars
<1>9. ASSUME NEW s \in Handlers, WlDown(s) PROVE TypeOK' /\ VictimTyped'
  BY <1>9 DEF TypeOK, VictimTyped, Ending, historyVars, Actors, Stages, StartStages, EndStages,
     WlDown, Tell, OnOffline, handlerVars, tableVars, adminVars
<1>13. ASSUME NEW s \in Handlers, Drain(s) PROVE TypeOK' /\ VictimTyped'
  BY <1>13 DEF TypeOK, VictimTyped, Ending, historyVars, Actors, Stages, StartStages, EndStages,
     Drain, handlerVars, tableVars, adminVars
<1>14. ASSUME NEW s \in Handlers, ScheduleFlush(s) \/ FlushEnds(s) PROVE TypeOK' /\ VictimTyped'
  <2>1. loops' \in [Handlers -> SUBSET (Tasks \cup {"flush"})]
    BY <1>14 DEF TypeOK, ScheduleFlush, FlushEnds
  <2>. QED
    BY <1>14, <2>1 DEF TypeOK, VictimTyped, Ending, historyVars, ScheduleFlush, FlushEnds,
       handlerVars, tableVars, adminVars
<1>10. ASSUME NEW p \in Admins, SelectVenue(p) PROVE TypeOK' /\ VictimTyped'
  BY <1>10 DEF TypeOK, VictimTyped, Ending, historyVars, Actors, Stages, StartStages, EndStages,
     SelectVenue, handlerVars, sessionVars, tableVars
<1>11. ASSUME NEW p \in Admins, CommitVenue(p) PROVE TypeOK' /\ VictimTyped'
  BY <1>11 DEF TypeOK, VictimTyped, Ending, historyVars, Actors, Stages, StartStages, EndStages,
     CommitVenue, Crossing, handlerVars, sessionVars, tableVars
<1>12. ASSUME NEW p \in Admins, ApplyToSession(p) PROVE TypeOK' /\ VictimTyped'
  BY <1>12 DEF TypeOK, VictimTyped, Ending, historyVars, Actors, Stages, StartStages, EndStages,
     ApplyToSession, OnEnabled, IsLive, handlerVars, tableVars
<1>. QED
  BY <1>0, <1>1, <1>2, <1>3, <1>4, <1>5, <1>6, <1>7, <1>8, <1>9, <1>10, <1>11, <1>12, <1>13, <1>14
  DEF Next

\* Every variable of every reachable state has its type.
THEOREM TypeCorrect == Spec => []TypeOK
<1>. QED
  BY InitTypeOK, NextTypeOK, PTL DEF Spec

-----------------------------------------------------------------------------
(* The inductive invariant                                                 *)

\* It holds when nobody has connected.
LEMMA InitIInv == Init => IInv
<1> SUFFICES ASSUME Init PROVE IInv
  OBVIOUS
<1>1. TypeOK
  BY InitTypeOK
<1>2. TeardownInv /\ RowInv
  BY ConstantsAssumption DEF Init, TeardownInv, RowInv, Ending, EndStages, Actors
<1>3. CurrentIsRunning /\ EndAnnouncedLast /\ NotAbandoned
  BY DEF Init, CurrentIsRunning, EndAnnouncedLast, NotAbandoned
<1>. QED
  BY <1>1, <1>2, <1>3 DEF IInv

\* Everything in IInv but the types.
Core == TeardownInv /\ RowInv /\ CurrentIsRunning /\ EndAnnouncedLast /\ NotAbandoned

\* Steps that touch none of the variables it speaks of preserve it.
LEMMA CoreStutter == Core /\ UNCHANGED coreVars => Core'
  BY DEF Core, coreVars, TeardownInv, RowInv, CurrentIsRunning, EndAnnouncedLast,
     NotAbandoned, Ending

\* The atomic first step of end_session, whoever runs it: an actor that is not
\* ending anything takes the current session, which nobody else has taken.
LEMMA CorePop ==
  ASSUME TypeOK, Core, NEW a \in Actors, Pop(a),
         pc[a] \in {"idle", "flagged", "streaming"},
         UNCHANGED <<loops, row, announced>>
  PROVE  Core'
<1> USE ConstantsAssumption
<1>1. /\ current \in Handlers
      /\ current \notin stopped /\ current \notin announced
      /\ row[current] = "open" /\ pc[current] = "streaming"
  BY DEF Pop, TypeOK, Core, CurrentIsRunning, RowInv
<1>2. /\ pc' = [pc EXCEPT ![a] = "stopSend"]
      /\ victim' = [victim EXCEPT ![a] = current]
      /\ stopped' = stopped \cup {current}
      /\ current' = NoOne
      /\ UNCHANGED <<loops, row, announced>>
  BY DEF Pop, Goto
<1>3. ~Ending(a) /\ pc[a] # "dead"
  BY DEF Ending, EndStages
<1>4. TeardownInv'
  BY <1>1, <1>2, <1>3 DEF TypeOK, Core, TeardownInv, Ending, EndStages
<1>5. RowInv'
  BY <1>1, <1>2 DEF TypeOK, Core, RowInv, Actors
<1>6. CurrentIsRunning' /\ EndAnnouncedLast'
  BY <1>2 DEF Core, CurrentIsRunning, EndAnnouncedLast
<1>7. NotAbandoned'
  BY <1>1, <1>2, <1>3 DEF TypeOK, Core, NotAbandoned, Ending, EndStages
<1>. QED
  BY <1>4, <1>5, <1>6, <1>7 DEF Core

\* A handler that only moves on, and is not ending anything, disturbs nothing
\* as long as RowInv knows it in its new place.
LEMMA CoreMove ==
  ASSUME TypeOK, Core, NEW h \in Handlers, NEW stage \in Stages \ EndStages,
         pc[h] \notin EndStages \cup {"dead", "streaming", "install"},
         pc' = [pc EXCEPT ![h] = stage],
         stage \in {"reading", "flagged", "insert"} => row[h] = "none",
         stage \notin {"idle", "install", "streaming"},
         UNCHANGED <<victim, current, stopped, loops, row, announced>>
  PROVE  Core'
<1> USE ConstantsAssumption
<1>1. TeardownInv'
  BY DEF TypeOK, Core, TeardownInv, Ending, EndStages, Actors
<1>2. RowInv'
  BY DEF TypeOK, Core, RowInv, Actors, Stages
<1>3. CurrentIsRunning'
  BY DEF TypeOK, Core, CurrentIsRunning, Actors
<1>4. EndAnnouncedLast'
  BY DEF TypeOK, Core, TeardownInv, EndAnnouncedLast, EndStages, Actors
<1>5. NotAbandoned'
  BY DEF TypeOK, Core, NotAbandoned, Ending, EndStages, Actors
<1>. QED
  BY <1>1, <1>2, <1>3, <1>4, <1>5 DEF Core

\* A teardown step that only takes tasks away from its own victim.
LEMMA CoreTeardown ==
  ASSUME TypeOK, Core, NEW a \in Actors, NEW stage, NEW S \in SUBSET (Tasks \cup {"flush"}),
         Ending(a),
         \/ stage = "stopRecv" /\ "send" \notin S
         \/ stage \in {"closeWl", "endRow"} /\ S \cap Tasks = {},
         pc' = [pc EXCEPT ![a] = stage],
         S \subseteq loops[victim[a]],
         loops' = [loops EXCEPT ![victim[a]] = S],
         UNCHANGED <<victim, current, stopped, row, announced>>
  PROVE  Core'
<1> USE ConstantsAssumption
<1>1. /\ victim[a] \in Handlers /\ victim[a] \in stopped
      /\ \A b \in Actors \ {a} : Ending(b) => victim[b] # victim[a]
  BY DEF TypeOK, Core, TeardownInv
<1>2. victim[a] # current /\ pc[a] \in EndStages /\ stage \in EndStages
  <2>1. victim[a] # current
    BY <1>1, ConstantsAssumption DEF Core, CurrentIsRunning, Actors
  <2>2. stage \in EndStages
    BY DEF EndStages
  <2>. QED
    BY <2>1, <2>2 DEF Ending
<1>3. \A t \in Handlers : loops'[t] \subseteq loops[t]
  BY <1>1 DEF TypeOK
<1>4. loops'[victim[a]] = S
  BY <1>1 DEF TypeOK
<1>5. TeardownInv'
  <2>1. /\ pc'[a] = stage
        /\ victim' = victim /\ stopped' = stopped /\ row' = row /\ announced' = announced
        /\ \A b \in Actors \ {a} : pc'[b] = pc[b] /\ (Ending(b)' <=> Ending(b))
    BY DEF TypeOK, Ending
  <2>2. /\ victim[a] \in stopped /\ victim[a] \notin announced /\ row[victim[a]] = "open"
        /\ \A b \in Actors \ {a} : Ending(b)' => victim[b] # victim[a]
        /\ stage = "stopRecv" => "send" \notin loops'[victim[a]]
        /\ stage \notin {"stopSend", "stopRecv"} => loops'[victim[a]] \cap Tasks = {}
    BY <1>1, <1>4, <2>1 DEF Core, TeardownInv
  <2>3. ASSUME NEW b \in Actors \ {a}, victim[b] # NoOne
        PROVE  /\ victim[b] \in stopped
               /\ pc[b] \notin {"stopSend", "stopRecv"} => loops'[victim[b]] \cap Tasks = {}
    <3>1. victim[b] \in Handlers
      BY <2>3 DEF TypeOK
    <3>. QED
      BY <1>3, <2>3, <3>1 DEF Core, TeardownInv
  <2>4. ASSUME NEW b \in Actors \ {a}, Ending(b)
        PROVE  /\ victim[b] \in stopped /\ victim[b] \notin announced
               /\ row[victim[b]] = "open"
               /\ \A c \in Actors \ {b} : Ending(c)' => victim[c] # victim[b]
               /\ pc[b] = "stopRecv" => "send" \notin loops'[victim[b]]
    <3>1. victim[b] \in Handlers
      BY <2>4 DEF TypeOK, Core, TeardownInv
    <3>2. \A c \in Actors \ {b} : Ending(c)' => victim[c] # victim[b]
      BY <2>1, <2>4 DEF Core, TeardownInv
    <3>. QED
      BY <1>3, <2>4, <3>1, <3>2 DEF Core, TeardownInv
  <2>5. \A b \in Actors \ {a} : pc[b] = "stopRecv" => Ending(b)
    BY DEF Ending, EndStages
  <2>6. Ending(a)'
    BY <1>2, <2>1 DEF Ending
  <2>. QED
    BY <2>1, <2>2, <2>3, <2>4, <2>5, <2>6 DEF TeardownInv
<1>6. RowInv'
  BY <1>2 DEF TypeOK, Core, RowInv, Actors, EndStages
<1>7. CurrentIsRunning'
  BY <1>1, <1>2 DEF TypeOK, Core, CurrentIsRunning, Actors, EndStages
<1>8. EndAnnouncedLast'
  <2>1. announced \subseteq Handlers /\ \A b \in Actors : pc'[b] = "dead" => pc[b] = "dead"
    BY <1>2 DEF TypeOK, EndStages
  <2>2. \A b \in Actors : victim[b] # NoOne => victim[b] \in Handlers
    BY DEF TypeOK
  <2>. QED
    BY <1>3, <2>1, <2>2 DEF Core, EndAnnouncedLast
<1>9. NotAbandoned'
  BY <1>2 DEF TypeOK, Core, NotAbandoned, Ending, EndStages
<1>. QED
  BY <1>5, <1>6, <1>7, <1>8, <1>9 DEF Core

\* A flush that comes or goes is none of its business.
LEMMA CoreFlush ==
  ASSUME TypeOK, Core,
         loops' \in [Handlers -> SUBSET (Tasks \cup {"flush"})],
         \A t \in Handlers : loops'[t] \cap Tasks = loops[t] \cap Tasks,
         UNCHANGED <<pc, victim, current, stopped, row, announced>>
  PROVE  Core'
<1>1. /\ announced \subseteq Handlers /\ current \in Handlers \cup {NoOne}
      /\ \A a \in Actors : victim[a] # NoOne => victim[a] \in Handlers
      /\ \A a \in Actors : Ending(a)' <=> Ending(a)
  BY DEF TypeOK, Ending
<1>2. TeardownInv'
  <2>1. ASSUME NEW a \in Actors, pc[a] = "stopRecv"
        PROVE  "send" \notin loops'[victim[a]]
    <3>1. victim[a] \in Handlers /\ "send" \notin loops[victim[a]] /\ "send" \in Tasks
      BY <2>1 DEF TypeOK, Core, TeardownInv, Ending, EndStages, Tasks
    <3>. QED
      BY <3>1
  <2>. QED
    BY <1>1, <2>1 DEF Core, TeardownInv
<1>3. CurrentIsRunning'
  BY <1>1 DEF Core, CurrentIsRunning
<1>4. EndAnnouncedLast'
  BY <1>1 DEF Core, EndAnnouncedLast
<1>5. RowInv' /\ NotAbandoned'
  BY DEF Core, RowInv, NotAbandoned, Ending
<1>. QED
  BY <1>2, <1>3, <1>4, <1>5 DEF Core

\* Every step of the system preserves it.
LEMMA NextIInv == IInv /\ [Next]_vars => IInv'
<1> SUFFICES ASSUME IInv, [Next]_vars
             PROVE  IInv'
  OBVIOUS
<1> USE ConstantsAssumption
<1>1. TypeOK /\ Core
  BY DEF IInv, Core
<1>2. TypeOK'
  BY <1>1, NextTypeOK DEF Core, TeardownInv, VictimTyped, TypeOK
<1>3. SUFFICES Core'
  BY <1>2 DEF IInv, Core
<1>4. CASE UNCHANGED coreVars
  BY <1>1, <1>4, CoreStutter
<1>5. ASSUME NEW a \in Actors, EndStep(a) PROVE Core'
  <2>1. CASE StopSend(a)
    <3>1. Ending(a) /\ victim[a] \in Handlers
      BY <1>1, <2>1 DEF StopSend, Ending, EndStages, TypeOK, Core, TeardownInv
    <3>2. loops[victim[a]] \ {"send", "flush"} \in SUBSET (Tasks \cup {"flush"})
      BY <1>1, <3>1 DEF TypeOK
    <3>3. loops' = [loops EXCEPT ![victim[a]] = loops[victim[a]] \ {"send", "flush"}]
      BY <2>1 DEF StopSend
    <3>. QED
      BY <1>1, <2>1, <3>1, <3>2, <3>3, CoreTeardown DEF StopSend, Goto, tableVars
  <2>2. CASE StopRecv(a)
    <3>1. Ending(a) /\ victim[a] \in Handlers
      BY <1>1, <2>2 DEF StopRecv, Ending, EndStages, TypeOK, Core, TeardownInv
    <3>2. /\ loops[victim[a]] \ {"recv"} \in SUBSET (Tasks \cup {"flush"})
          /\ (loops[victim[a]] \ {"recv"}) \cap Tasks = {}
      BY <1>1, <2>2, <3>1 DEF TypeOK, StopRecv, Core, TeardownInv, Tasks
    <3>3. loops' = [loops EXCEPT ![victim[a]] = loops[victim[a]] \ {"recv"}]
      BY <2>2 DEF StopRecv
    <3>. QED
      BY <1>1, <2>2, <3>1, <3>2, <3>3, CoreTeardown DEF StopRecv, Goto, tableVars
  <2>3. CASE CloseWl(a)
    <3>1. /\ Ending(a) /\ victim[a] \in Handlers
          /\ loops[victim[a]] \in SUBSET (Tasks \cup {"flush"})
          /\ loops[victim[a]] \cap Tasks = {}
      BY <1>1, <2>3, ConstantsAssumption
      DEF CloseWl, Ending, EndStages, TypeOK, Core, TeardownInv, Actors
    <3>2. loops' = [loops EXCEPT ![victim[a]] = loops[victim[a]]]
      BY <1>1, <2>3, <3>1 DEF TypeOK, CloseWl
    <3>. QED
      BY <1>1, <2>3, <3>1, <3>2, CoreTeardown DEF CloseWl, Goto, tableVars
  <2>4. CASE EndRow(a)
    <3>1. /\ Ending(a) /\ pc[a] = "endRow"
          /\ victim[a] \in Handlers /\ victim[a] \in stopped
          /\ victim[a] # current
          /\ row[victim[a]] = "open" /\ loops[victim[a]] \cap Tasks = {}
          /\ \A b \in Actors \ {a} : Ending(b) => victim[b] # victim[a]
      <4>1. pc[a] = "endRow" /\ Ending(a)
        BY <2>4 DEF EndRow, Ending, EndStages
      <4>2. victim[a] \in stopped /\ victim[a] \in Handlers /\ victim[a] # NoOne
        BY <1>1, <4>1 DEF TypeOK, Core, TeardownInv, Actors
      <4>3. victim[a] # current
        BY <1>1, <4>2 DEF Core, CurrentIsRunning
      <4>. QED
        BY <1>1, <4>1, <4>2, <4>3 DEF Core, TeardownInv
    <3>2. UNCHANGED <<victim, current, stopped, loops>>
      BY <2>4 DEF EndRow, sessionVars
    <3>3. CASE /\ row' = [row EXCEPT ![victim[a]] = "ended"]
               /\ announced' = announced \cup {victim[a]}
               /\ pc' = [pc EXCEPT ![a] = "ended"]
      <4>1. TeardownInv'
        BY <1>1, <3>1, <3>2, <3>3 DEF TypeOK, Core, TeardownInv, Ending, EndStages
      <4>2. RowInv'
        BY <1>1, <3>1, <3>2, <3>3 DEF TypeOK, Core, RowInv, Actors
      <4>3. CurrentIsRunning'
        BY <1>1, <3>1, <3>2, <3>3 DEF TypeOK, Core, CurrentIsRunning, Actors
      <4>4. EndAnnouncedLast'
        BY <1>1, <3>1, <3>2, <3>3 DEF TypeOK, Core, EndAnnouncedLast
      <4>5. NotAbandoned'
        BY <1>1, <3>1, <3>2, <3>3 DEF TypeOK, Core, NotAbandoned, Ending, EndStages
      <4>. QED
        BY <4>1, <4>2, <4>3, <4>4, <4>5 DEF Core
    <3>4. CASE pc' = [pc EXCEPT ![a] = "dead"] /\ UNCHANGED tableVars
      <4>1. TeardownInv'
        BY <1>1, <3>1, <3>2, <3>4 DEF TypeOK, Core, TeardownInv, Ending, EndStages, tableVars
      <4>2. RowInv'
        BY <1>1, <3>1, <3>2, <3>4 DEF TypeOK, Core, RowInv, Actors, tableVars
      <4>3. CurrentIsRunning' /\ EndAnnouncedLast'
        BY <1>1, <3>1, <3>2, <3>4
        DEF TypeOK, Core, CurrentIsRunning, EndAnnouncedLast, Actors, tableVars
      <4>4. NotAbandoned'
        BY <1>1, <3>1, <3>2, <3>4 DEF TypeOK, Core, NotAbandoned, Ending, EndStages, tableVars
      <4>. QED
        BY <4>1, <4>2, <4>3, <4>4 DEF Core
    <3>. QED
      BY <2>4, <3>3, <3>4 DEF EndRow, Goto
  <2>. QED
    BY <1>5, <2>1, <2>2, <2>3, <2>4 DEF EndStep
<1>6. ASSUME NEW h \in Handlers, StartStep(h) PROVE Core'
  <2>1. CASE ReadFlag(h)
    BY <1>1, <2>1, CoreMove
    DEF ReadFlag, Goto, Core, RowInv, EndStages, Stages, StartStages, sessionVars, tableVars
  <2>2. CASE StartSession(h)
    <3>1. CASE Pop(h)
      BY <1>1, <2>2, <3>1, CorePop DEF StartSession, Actors, tableVars
    <3>2. CASE current = NoOne /\ Goto(h, "insert") /\ UNCHANGED <<victim, current, stopped>>
      BY <1>1, <2>2, <3>2, CoreMove
      DEF StartSession, Goto, Core, RowInv, EndStages, Stages, StartStages, tableVars
    <3>. QED
      BY <2>2, <3>1, <3>2 DEF StartSession
  <2>3. CASE EndedThenInsert(h)
    BY <1>1, <2>3, CoreMove
    DEF EndedThenInsert, Goto, EndStages, Stages, StartStages, sessionVars, tableVars
  <2>4. CASE InsertRow(h)
    <3>1. /\ pc[h] = "insert" /\ row[h] = "none" /\ h \notin stopped
          /\ h \notin announced /\ h # current /\ ~Ending(h)
      <4>1. pc[h] = "insert" /\ ~Ending(h)
        BY <2>4 DEF InsertRow, Ending, EndStages
      <4>2. row[h] = "none" /\ h \notin stopped /\ h \notin announced
        BY <1>1, <4>1 DEF Core, RowInv
      <4>3. h # current
        BY <1>1, <4>1 DEF Core, CurrentIsRunning, Actors
      <4>. QED
        BY <4>1, <4>2, <4>3
    <3>2. UNCHANGED <<victim, current, stopped, loops, announced>>
      BY <2>4 DEF InsertRow, sessionVars
    <3>3. CASE row' = [row EXCEPT ![h] = "open"] /\ pc' = [pc EXCEPT ![h] = "install"]
      <4>1. TeardownInv'
        BY <1>1, <3>1, <3>2, <3>3 DEF TypeOK, Core, TeardownInv, Ending, EndStages, Actors
      <4>2. RowInv'
        BY <1>1, <3>1, <3>2, <3>3 DEF TypeOK, Core, RowInv, Actors
      <4>3. CurrentIsRunning' /\ EndAnnouncedLast'
        BY <1>1, <3>1, <3>2, <3>3 DEF TypeOK, Core, CurrentIsRunning, EndAnnouncedLast, Actors
      <4>4. NotAbandoned'
        BY <1>1, <3>1, <3>2, <3>3 DEF TypeOK, Core, NotAbandoned, Ending, EndStages
      <4>. QED
        BY <4>1, <4>2, <4>3, <4>4 DEF Core
    <3>4. CASE pc' = [pc EXCEPT ![h] = "dead"] /\ UNCHANGED row
      BY <1>1, <3>1, <3>2, <3>4, CoreMove DEF EndStages, Stages
    <3>. QED
      BY <2>4, <3>3, <3>4 DEF InsertRow, Goto
  <2>5. CASE Install(h)
    <3>1. /\ pc[h] = "install" /\ row[h] = "open" /\ h \notin stopped
          /\ h \notin announced /\ ~Ending(h)
      BY <1>1, <2>5 DEF Install, TypeOK, Core, RowInv, Ending, EndStages
    <3>2. /\ current' = h /\ loops' = [loops EXCEPT ![h] = Tasks]
          /\ pc' = [pc EXCEPT ![h] = "streaming"]
          /\ UNCHANGED <<victim, stopped, row, announced>>
      BY <2>5 DEF Install, Goto, tableVars
    <3>3. TeardownInv'
      BY <1>1, <3>1, <3>2 DEF TypeOK, Core, TeardownInv, Ending, EndStages, Actors
    <3>4. RowInv'
      BY <1>1, <3>1, <3>2 DEF TypeOK, Core, RowInv, Actors
    <3>5. CurrentIsRunning'
      BY <1>1, <3>1, <3>2 DEF TypeOK, Core, CurrentIsRunning, Actors
    <3>7. EndAnnouncedLast'
      <4>1. \A t \in announced : t \in Handlers /\ t # h
        BY <1>1, <3>1 DEF TypeOK
      <4>2. \A b \in Actors : victim[b] # NoOne => victim[b] \in Handlers /\ victim[b] # h
        BY <1>1, <3>1 DEF TypeOK, Core, TeardownInv
      <4>3. \A t \in Handlers : t # h => loops'[t] = loops[t]
        BY <1>1, <3>2 DEF TypeOK
      <4>4. \A b \in Actors : pc'[b] = "dead" => pc[b] = "dead"
        BY <1>1, <3>2 DEF TypeOK
      <4>. QED
        BY <1>1, <3>2, <4>1, <4>2, <4>3, <4>4 DEF Core, EndAnnouncedLast
    <3>6. NotAbandoned'
      BY <1>1, <3>1, <3>2 DEF TypeOK, Core, NotAbandoned, Ending, EndStages
    <3>. QED
      BY <3>3, <3>4, <3>5, <3>6, <3>7 DEF Core
  <2>. QED
    BY <1>6, <2>1, <2>2, <2>3, <2>4, <2>5 DEF StartStep
<1>7. ASSUME NEW h \in Handlers, Accept(h) PROVE Core'
  BY <1>1, <1>7, CoreMove
  DEF Accept, Goto, Core, RowInv, EndStages, Stages, StartStages, sessionVars, tableVars
<1>8. ASSUME NEW h \in Handlers, Disconnect(h) PROVE Core'
  <2>1. CASE Pop(h)
    BY <1>1, <1>8, <2>1, CorePop DEF Disconnect, Actors, tableVars
  <2>2. CASE current = NoOne /\ pc' = [pc EXCEPT ![h] = "done"]
             /\ UNCHANGED <<victim, current, stopped>>
    <3>1. pc[h] = "streaming" /\ UNCHANGED <<loops, row, announced>>
      BY <1>8 DEF Disconnect, tableVars
    <3>2. TeardownInv' /\ RowInv'
      BY <1>1, <2>2, <3>1 DEF TypeOK, Core, TeardownInv, RowInv, Ending, EndStages, Actors
    <3>3. CurrentIsRunning' /\ EndAnnouncedLast'
      BY <1>1, <2>2, <3>1 DEF Core, CurrentIsRunning, EndAnnouncedLast
    <3>4. NotAbandoned'
      BY <1>1, <2>2, <3>1 DEF TypeOK, Core, NotAbandoned, Ending, EndStages
    <3>. QED
      BY <3>2, <3>3, <3>4 DEF Core
  <2>. QED
    BY <1>8, <2>1, <2>2 DEF Disconnect, Goto
<1>9. ASSUME NEW h \in Handlers, EndedThenOffline(h) PROVE Core'
  BY <1>1, <1>9, CoreMove
  DEF EndedThenOffline, Goto, EndStages, Stages, StartStages, sessionVars, tableVars
<1>10. ASSUME NEW t \in Stoppers, Shutdown(t) PROVE Core'
  BY <1>1, <1>10, CorePop DEF Shutdown, Actors, tableVars
<1>11. ASSUME NEW h \in Handlers, Chunk(h) \/ Drain(h) PROVE UNCHANGED coreVars
  BY <1>11 DEF Chunk, Drain, coreVars, handlerVars, tableVars
<1>12. ASSUME NEW s \in Handlers, WlUp(s) \/ WlDown(s) PROVE UNCHANGED coreVars
  BY <1>12 DEF WlUp, WlDown, coreVars, handlerVars, tableVars
<1>13. ASSUME NEW p \in Admins, SelectVenue(p) \/ CommitVenue(p) \/ ApplyToSession(p)
       PROVE  UNCHANGED coreVars
  BY <1>13
  DEF SelectVenue, CommitVenue, ApplyToSession, coreVars, handlerVars, sessionVars, tableVars
<1>15. ASSUME NEW s \in Handlers, ScheduleFlush(s) \/ FlushEnds(s) PROVE Core'
  <2>1. /\ loops' \in [Handlers -> SUBSET (Tasks \cup {"flush"})]
        /\ UNCHANGED <<pc, victim, current, stopped, row, announced>>
    BY <1>2, <1>15 DEF TypeOK, ScheduleFlush, FlushEnds, handlerVars, tableVars
  <2>2. \A t \in Handlers : loops'[t] \cap Tasks = loops[t] \cap Tasks
    BY <1>1, <1>15 DEF TypeOK, ScheduleFlush, FlushEnds, Tasks
  <2>. QED
    BY <1>1, <2>1, <2>2, CoreFlush
<1>14. CASE UNCHANGED vars
  BY <1>4, <1>14 DEF vars, coreVars, handlerVars, sessionVars, tableVars
<1>. QED
  BY <1>4, <1>5, <1>6, <1>7, <1>8, <1>9, <1>10, <1>11, <1>12, <1>13, <1>14, <1>15 DEF Next

\* IInv holds in every reachable state.
LEMMA IInvHolds == Spec => []IInv
<1>. QED
  BY InitIInv, NextIInv, PTL DEF Spec

-----------------------------------------------------------------------------
(* The safety properties                                                   *)

\* One actor per teardown, and no second teardown of a session.
THEOREM TeardownExclusive == Spec => []EndIsExclusive
<1>1. IInv => EndIsExclusive
  BY DEF IInv, TeardownInv, EndIsExclusive
<1>. QED
  BY <1>1, IInvHolds, PTL

\* The session in the dictionary is a running one with an open row.
THEOREM CurrentSessionRuns == Spec => []CurrentIsRunning
<1>1. IInv => CurrentIsRunning
  BY DEF IInv
<1>. QED
  BY <1>1, IInvHolds, PTL

\* session_end follows the last task and the row's ended_at.
THEOREM AnnouncedLast == Spec => []EndAnnouncedLast
<1>1. IInv => EndAnnouncedLast
  BY DEF IInv
<1>. QED
  BY <1>1, IInvHolds, PTL

\* No session is left half ended but by a database error.
THEOREM NeverAbandoned == Spec => []NotAbandoned
<1>1. IInv => NotAbandoned
  BY DEF IInv
<1>. QED
  BY <1>1, IInvHolds, PTL

-----------------------------------------------------------------------------
(* The action properties                                                   *)

\* Audio only enters the queue of the current session, which is not stopped.
THEOREM NoLateAudio == Spec => NoAudioAfterStop
<1>1. IInv /\ [Next]_vars => [\A s \in stopped : queued'[s] => queued[s]]_vars
  <2>. SUFFICES ASSUME IInv, Next
                PROVE  \A s \in stopped : queued'[s] => queued[s]
    BY DEF vars, sessionVars
  <2>1. ASSUME NEW h \in Handlers, Chunk(h)
        PROVE  \A s \in stopped : queued'[s] => queued[s]
    BY <2>1 DEF Chunk, IInv, TypeOK, CurrentIsRunning
  <2>2. CASE queued' = queued
    BY <2>2
  <2>3. ASSUME NEW a \in Actors, EndStep(a) PROVE queued' = queued
    BY <2>3 DEF EndStep, StopSend, StopRecv, CloseWl, EndRow, sessionVars
  <2>4. ASSUME NEW h \in Handlers,
               Accept(h) \/ StartStep(h) \/ Disconnect(h) \/ EndedThenOffline(h)
        PROVE  queued' = queued
    BY <2>4
    DEF Accept, StartStep, ReadFlag, StartSession, EndedThenInsert, InsertRow, Install,
        Disconnect, EndedThenOffline, sessionVars
  <2>5. ASSUME NEW t \in Stoppers, Shutdown(t) PROVE queued' = queued
    BY <2>5 DEF Shutdown
  <2>6. ASSUME NEW s \in Handlers, WlUp(s) \/ WlDown(s) \/ ScheduleFlush(s) \/ FlushEnds(s)
        PROVE  queued' = queued
    BY <2>6 DEF WlUp, WlDown, ScheduleFlush, FlushEnds
  <2>8. ASSUME NEW h \in Handlers, Drain(h)
        PROVE  \A s \in stopped : queued'[s] => queued[s]
    BY <2>8 DEF Drain, IInv, TypeOK
  <2>7. ASSUME NEW p \in Admins, SelectVenue(p) \/ CommitVenue(p) \/ ApplyToSession(p)
        PROVE  queued' = queued
    BY <2>7 DEF SelectVenue, CommitVenue, ApplyToSession, sessionVars
  <2>. QED
    BY <2>1, <2>2, <2>3, <2>4, <2>5, <2>6, <2>7, <2>8 DEF Next
<1>. QED
  BY <1>1, IInvHolds, PTL DEF Spec, NoAudioAfterStop

\* A viewer is never told "live" by a session that is not the live one.
THEOREM LiveNeverStale == Spec => LiveIsTrue
<1> DEFINE Told == viewer' = "live" /\ viewer # "live" => IsLive'
<1>1. IInv /\ [Next]_vars => [Told]_vars
  <2>. SUFFICES ASSUME IInv, Next
                PROVE  Told
    BY DEF vars
  <2>1. ASSUME NEW s \in Handlers, WlUp(s) PROVE Told
    BY <2>1, ConstantsAssumption DEF WlUp, Tell, OnLive, IsLive, IInv, TypeOK, Actors
  <2>2. ASSUME NEW s \in Handlers, WlDown(s) PROVE Told
    BY <2>2 DEF WlDown, Tell, OnOffline
  <2>3. ASSUME NEW p \in Admins, ApplyToSession(p) PROVE Told
    BY <2>3 DEF ApplyToSession, OnEnabled, IsLive
  <2>4. ASSUME NEW h \in Handlers, Install(h) PROVE Told
    BY <2>4 DEF Install
  <2>5. ASSUME NEW h \in Handlers, Disconnect(h) \/ EndedThenOffline(h) PROVE Told
    BY <2>5 DEF Disconnect, EndedThenOffline, OnOffline
  <2>6. CASE viewer' = viewer
    BY <2>6
  <2>7. ASSUME NEW a \in Actors, EndStep(a) PROVE viewer' = viewer
    BY <2>7 DEF EndStep, StopSend, StopRecv, CloseWl, EndRow
  <2>8. ASSUME NEW h \in Handlers,
               \/ Accept(h) \/ ReadFlag(h) \/ StartSession(h)
               \/ EndedThenInsert(h) \/ InsertRow(h) \/ Chunk(h)
               \/ Drain(h) \/ ScheduleFlush(h) \/ FlushEnds(h)
        PROVE  viewer' = viewer
    BY <2>8 DEF Accept, ReadFlag, StartSession, EndedThenInsert, InsertRow, Chunk,
                Drain, ScheduleFlush, FlushEnds
  <2>9. ASSUME NEW t \in Stoppers, Shutdown(t) PROVE viewer' = viewer
    BY <2>9 DEF Shutdown
  <2>10. ASSUME NEW p \in Admins, SelectVenue(p) \/ CommitVenue(p) PROVE viewer' = viewer
    BY <2>10 DEF SelectVenue, CommitVenue
  <2>. QED
    BY <2>1, <2>2, <2>3, <2>4, <2>5, <2>6, <2>7, <2>8, <2>9, <2>10 DEF Next, StartStep
<1>. QED
  BY <1>1, IInvHolds, PTL DEF Spec, LiveIsTrue

-----------------------------------------------------------------------------
(* The rows                                                                *)

\* A step keeps the reason why each open row is open, or gives it another.
LEMMA OpenRowKept ==
    ASSUME IInv, OpenRowIsActive, [Next]_vars
    PROVE  OpenRowIsActive'
<1> USE ConstantsAssumption DEF Goto, Ending, EndStages, Actors
<1>1. TypeOK
  BY DEF IInv
<1>2. CASE UNCHANGED <<current, victim, pc, row, overwritten>>
  BY <1>2 DEF OpenRowIsActive
<1>3. ASSUME NEW a \in Actors, EndStep(a)
      PROVE  OpenRowIsActive'
  <2>1. CASE EndRow(a)
    <3>1. UNCHANGED <<current, victim, overwritten>> /\ pc[a] = "endRow" /\ Ending(a)
      BY <2>1 DEF EndRow, sessionVars, historyVars
    <3>2. CASE row' = [row EXCEPT ![victim[a]] = "ended"] /\ pc' = [pc EXCEPT ![a] = "ended"]
      BY <1>1, <3>1, <3>2 DEF OpenRowIsActive, TypeOK, IInv, TeardownInv
    <3>3. CASE UNCHANGED row /\ pc' = [pc EXCEPT ![a] = "dead"]
      BY <1>1, <3>1, <3>3 DEF OpenRowIsActive, TypeOK
    <3>4. QED
      BY <2>1, <3>2, <3>3 DEF EndRow, tableVars
  <2>2. CASE StopSend(a) \/ StopRecv(a) \/ CloseWl(a)
    <3>1. /\ UNCHANGED <<current, victim, row, overwritten>> /\ Ending(a)
          /\ \E stage \in EndStages : pc' = [pc EXCEPT ![a] = stage]
      BY <2>2 DEF StopSend, StopRecv, CloseWl, tableVars, historyVars
    <3>2. \A b \in Actors : (Ending(b) => Ending(b)') /\ (~Ending(b) => pc'[b] = pc[b])
      BY <1>1, <3>1 DEF TypeOK
    <3>3. QED
      BY <3>1, <3>2 DEF OpenRowIsActive
  <2>3. QED
    BY <1>3, <2>1, <2>2 DEF EndStep
<1>4. ASSUME NEW a \in Actors, Pop(a), UNCHANGED <<row, overwritten>>,
             pc[a] \in {"idle", "flagged", "streaming"}
      PROVE  OpenRowIsActive'
  BY <1>1, <1>4 DEF Pop, OpenRowIsActive, TypeOK
<1>5. ASSUME NEW h \in Handlers, NEW stage, UNCHANGED <<current, victim, row, overwritten>>,
             pc[h] \notin EndStages \cup {"install", "dead"}, pc' = [pc EXCEPT ![h] = stage]
      PROVE  OpenRowIsActive'
  BY <1>1, <1>5 DEF OpenRowIsActive, TypeOK
<1>6. ASSUME NEW h \in Handlers, Accept(h) \/ ReadFlag(h) \/ EndedThenInsert(h)
      PROVE  OpenRowIsActive'
  <2>1. UNCHANGED <<current, victim, row, overwritten>>
    BY <1>6 DEF Accept, ReadFlag, EndedThenInsert, sessionVars, tableVars, historyVars
  <2>2. /\ pc[h] \notin EndStages \cup {"install", "dead"}
        /\ \E stage \in Stages : pc' = [pc EXCEPT ![h] = stage]
    BY <1>6 DEF Accept, ReadFlag, EndedThenInsert, Stages, StartStages
  <2>3. QED
    BY <1>5, <2>1, <2>2
<1>7. ASSUME NEW h \in Handlers, EndedThenOffline(h)
      PROVE  OpenRowIsActive'
  BY <1>5, <1>7 DEF EndedThenOffline, sessionVars, tableVars
<1>8. ASSUME NEW h \in Handlers, StartSession(h)
      PROVE  OpenRowIsActive'
  <2>1. UNCHANGED <<row, overwritten>> /\ pc[h] = "flagged"
    BY <1>8 DEF StartSession, tableVars
  <2>2. QED
    BY <1>4, <1>5, <1>8, <2>1 DEF StartSession
<1>9. ASSUME NEW h \in Handlers, Disconnect(h)
      PROVE  OpenRowIsActive'
  <2>1. UNCHANGED <<row, overwritten>> /\ pc[h] = "streaming"
    BY <1>9 DEF Disconnect, tableVars
  <2>2. QED
    BY <1>4, <1>5, <1>9, <2>1 DEF Disconnect
<1>10. ASSUME NEW h \in Handlers, InsertRow(h)
      PROVE  OpenRowIsActive'
  <2>1. UNCHANGED <<current, victim, overwritten>> /\ pc[h] = "insert"
    BY <1>10 DEF InsertRow, sessionVars, historyVars
  <2>2. CASE row' = [row EXCEPT ![h] = "open"] /\ pc' = [pc EXCEPT ![h] = "install"]
    BY <1>1, <2>1, <2>2 DEF OpenRowIsActive, TypeOK
  <2>3. CASE UNCHANGED row /\ pc' = [pc EXCEPT ![h] = "dead"]
    BY <1>1, <2>1, <2>3 DEF OpenRowIsActive, TypeOK
  <2>4. QED
    BY <1>10, <2>2, <2>3 DEF InsertRow
<1>11. ASSUME NEW h \in Handlers, Install(h)
      PROVE  OpenRowIsActive'
  <2>1. /\ UNCHANGED <<victim, row>> /\ current' = h /\ pc[h] = "install"
        /\ pc' = [pc EXCEPT ![h] = "streaming"]
        /\ overwritten \subseteq overwritten' /\ (current # NoOne => current \in overwritten')
    BY <1>11 DEF Install, tableVars
  <2>2. QED
    BY <1>1, <2>1 DEF OpenRowIsActive, TypeOK
<1>12. ASSUME NEW t \in Stoppers, Shutdown(t)
      PROVE  OpenRowIsActive'
  BY <1>4, <1>12 DEF Shutdown, tableVars
<1>13. ASSUME NEW h \in Handlers,
              \/ Chunk(h) \/ Drain(h) \/ WlUp(h) \/ WlDown(h)
              \/ ScheduleFlush(h) \/ FlushEnds(h)
       PROVE  UNCHANGED <<current, victim, pc, row, overwritten>>
  BY <1>13 DEF Chunk, Drain, WlUp, WlDown, ScheduleFlush, FlushEnds,
               handlerVars, tableVars, historyVars
<1>14. ASSUME NEW p \in Admins, SelectVenue(p) \/ CommitVenue(p) \/ ApplyToSession(p)
       PROVE  UNCHANGED <<current, victim, pc, row, overwritten>>
  BY <1>14 DEF SelectVenue, CommitVenue, ApplyToSession, handlerVars, sessionVars, tableVars,
               historyVars
<1>15. CASE UNCHANGED vars
  BY <1>2, <1>15 DEF vars, handlerVars, sessionVars, tableVars, historyVars
<1>16. QED
  BY <1>2, <1>3, <1>6, <1>7, <1>8, <1>9, <1>10, <1>11, <1>12, <1>13, <1>14, <1>15
     DEF Next, StartStep

\* A row without ended_at is that of a session that is there, starting or
\* ending; or its teardown died of the database; or a start overwrote it.
THEOREM OpenRowsAreActive == Spec => []OpenRowIsActive
<1>1. Init => OpenRowIsActive
  BY DEF Init, OpenRowIsActive
<1>2. IInv /\ OpenRowIsActive /\ [Next]_vars => OpenRowIsActive'
  BY OpenRowKept
<1>3. QED
  BY <1>1, <1>2, IInvHolds, PTL DEF Spec

-----------------------------------------------------------------------------
(* The pause switch                                                        *)

\* What holds while the last change of the flag crossed nothing.
PauseInv ==
    ~crossed =>
        /\ \A p, q \in Admins : patch[p] = "committed" /\ patch[q] = "committed" => p = q
        /\ \A p \in Admins : patch[p] = "committed" => want[p] = enabledDb
        /\ \A h \in Handlers : HoldsFlag(h) => enabledRead[h] = enabledDb
        /\ (\A p \in Admins : patch[p] # "committed") /\ current # NoOne
              => paused[current] = ~enabledDb

\* Only reading the flag makes a handler hold it.
LEMMA HoldsFlagFrame ==
    ASSUME IInv, [Next]_vars, NEW g \in Handlers, HoldsFlag(g)', ~ReadFlag(g)
    PROVE  HoldsFlag(g)
<1> USE ConstantsAssumption DEF Goto, HoldsFlag, Ending, EndStages, Actors
<1>1. TypeOK
  BY DEF IInv
<1>2. CASE UNCHANGED <<pc, row>>
  BY <1>2
<1>3. ASSUME NEW a \in Actors, EndStep(a) PROVE HoldsFlag(g)
  <2>1. row'[g] = "none" => row[g] = "none"
    BY <1>1, <1>3 DEF EndStep, StopSend, StopRecv, CloseWl, EndRow, TypeOK, tableVars
  <2>2. Ending(a) /\ \E stage \in EndStages \cup {"ended", "dead"} : pc' = [pc EXCEPT ![a] = stage]
    BY <1>3 DEF EndStep, StopSend, StopRecv, CloseWl, EndRow
  <2>3. QED
    BY <1>1, <2>1, <2>2 DEF TypeOK
<1>4. ASSUME NEW h \in Handlers, ReadFlag(h), h # g PROVE HoldsFlag(g)
  BY <1>1, <1>4 DEF ReadFlag, TypeOK, tableVars
<1>5. ASSUME NEW h \in Handlers, StartSession(h) PROVE HoldsFlag(g)
  BY <1>1, <1>5 DEF StartSession, Pop, TypeOK, tableVars
<1>6. ASSUME NEW h \in Handlers, EndedThenInsert(h) PROVE HoldsFlag(g)
  BY <1>1, <1>6 DEF EndedThenInsert, TypeOK, tableVars
<1>7. ASSUME NEW h \in Handlers, InsertRow(h) PROVE HoldsFlag(g)
  BY <1>1, <1>7 DEF InsertRow, TypeOK
<1>8. ASSUME NEW h \in Handlers, Accept(h) \/ EndedThenOffline(h) \/ Install(h)
      PROVE  HoldsFlag(g)
  BY <1>1, <1>8 DEF Accept, EndedThenOffline, Install, TypeOK, tableVars
<1>9. ASSUME NEW h \in Handlers, Disconnect(h) PROVE HoldsFlag(g)
  <2>1. pc[h] = "streaming" /\ row[h] # "none" /\ UNCHANGED row
    BY <1>9 DEF Disconnect, IInv, RowInv, tableVars
  <2>2. \E stage \in {"stopSend", "done"} : pc' = [pc EXCEPT ![h] = stage]
    BY <1>9 DEF Disconnect, Pop
  <2>3. QED
    BY <1>1, <2>1, <2>2 DEF TypeOK
<1>10. ASSUME NEW t \in Stoppers, Shutdown(t) PROVE HoldsFlag(g)
  BY <1>1, <1>10 DEF Shutdown, Pop, TypeOK, tableVars
<1>11. QED
  BY <1>2, <1>3, <1>4, <1>5, <1>6, <1>7, <1>8, <1>9, <1>10
     DEF Next, StartStep, Chunk, Drain, WlUp, WlDown, ScheduleFlush, FlushEnds, SelectVenue,
         CommitVenue, ApplyToSession, vars, handlerVars, tableVars

LEMMA PauseKept ==
    ASSUME IInv, PauseInv, [Next]_vars
    PROVE  PauseInv'
<1> USE ConstantsAssumption DEF Goto
<1>1. TypeOK
  BY DEF IInv
<1>2. CASE /\ \A h \in Handlers : ~ReadFlag(h)
           /\ UNCHANGED <<enabledRead, enabledDb, patch, want, paused, crossed>>
           /\ current' \in {current, NoOne}
  <2>1. \A h \in Handlers : HoldsFlag(h)' => HoldsFlag(h)
    BY <1>2, HoldsFlagFrame
  <2>2. QED
    BY <1>2, <2>1 DEF PauseInv
<1>3. ASSUME NEW h \in Handlers, ReadFlag(h)
      PROVE  PauseInv'
  <2>1. UNCHANGED <<enabledDb, patch, want, paused, current, crossed>>
    BY <1>3 DEF ReadFlag, sessionVars, tableVars, adminVars, historyVars
  <2>2. \A g \in Handlers \ {h} : enabledRead'[g] = enabledRead[g] /\ (HoldsFlag(g)' => HoldsFlag(g))
    <3>1. SUFFICES ASSUME NEW g \in Handlers \ {h}
                   PROVE  enabledRead'[g] = enabledRead[g] /\ (HoldsFlag(g)' => HoldsFlag(g))
      OBVIOUS
    <3>2. enabledRead'[g] = enabledRead[g] /\ pc'[g] = pc[g] /\ row' = row
      BY <1>1, <1>3 DEF ReadFlag, TypeOK, Actors, tableVars
    <3>3. QED
      BY <3>2 DEF HoldsFlag, Ending
  <2>3. HoldsFlag(h)' => enabledRead'[h] = enabledDb
    BY <1>1, <1>3 DEF ReadFlag, TypeOK, Actors, HoldsFlag, Ending, EndStages
  <2>4. QED
    BY <2>1, <2>2, <2>3 DEF PauseInv
<1>4. ASSUME NEW h \in Handlers, Install(h)
      PROVE  PauseInv'
  <2>1. /\ pc[h] = "install" /\ current' = h
        /\ paused' = [paused EXCEPT ![h] = ~enabledRead[h]]
        /\ UNCHANGED <<enabledRead, enabledDb, patch, want, crossed>>
    BY <1>4 DEF Install, adminVars
  <2>2. \A g \in Handlers : HoldsFlag(g)' => HoldsFlag(g)
    <3>1. \A g \in Handlers : ~ReadFlag(g)
      <4>. SUFFICES ASSUME NEW g \in Handlers, ReadFlag(g) PROVE FALSE
        OBVIOUS
      <4>1. pc[g] = "reading" /\ pc'[g] \in {"flagged", "dead"}
        BY <1>1 DEF ReadFlag, TypeOK, Actors
      <4>2. pc' = [pc EXCEPT ![h] = "streaming"] /\ g # h
        BY <1>4, <4>1 DEF Install
      <4>. QED
        BY <1>1, <4>1, <4>2 DEF TypeOK
    <3>2. QED
      BY <3>1, HoldsFlagFrame
  <2>3. HoldsFlag(h)
    BY <2>1 DEF HoldsFlag
  <2>4. paused'[current'] = ~enabledRead[h]
    BY <1>1, <2>1 DEF TypeOK
  <2>5. QED
    BY <2>1, <2>2, <2>3, <2>4 DEF PauseInv
<1>5. ASSUME NEW p \in Admins, SelectVenue(p)
      PROVE  PauseInv'
  <2>1. /\ patch[p] = "idle"
        /\ UNCHANGED <<enabledRead, enabledDb, paused, current, row, pc, crossed>>
    BY <1>5 DEF SelectVenue, handlerVars, sessionVars, tableVars, historyVars
  <2>2. PICK v \in BOOLEAN : /\ want' = [want EXCEPT ![p] = v]
                             /\ patch' = [patch EXCEPT ![p] = IF v # enabledDb THEN "changed" ELSE "done"]
    BY <1>5 DEF SelectVenue
  <2>3. /\ patch'[p] # "committed" /\ patch[p] # "committed"
        /\ \A q \in Admins \ {p} : patch'[q] = patch[q] /\ want'[q] = want[q]
    BY <1>1, <2>1, <2>2 DEF TypeOK
  <2>4. \A h \in Handlers : HoldsFlag(h)' => HoldsFlag(h)
    BY <2>1 DEF HoldsFlag, Ending
  <2>5. QED
    BY <2>1, <2>3, <2>4 DEF PauseInv
<1>6. ASSUME NEW p \in Admins, CommitVenue(p)
      PROVE  PauseInv'
  <2>1. patch[p] = "changed" /\ UNCHANGED <<enabledRead, want, paused, current, row, pc>>
    BY <1>6 DEF CommitVenue, handlerVars, sessionVars, tableVars
  <2>2. \A h \in Handlers : HoldsFlag(h)' => HoldsFlag(h)
    BY <2>1 DEF HoldsFlag, Ending
  <2>3. CASE /\ enabledDb' = want[p] /\ patch' = [patch EXCEPT ![p] = "committed"]
             /\ crossed' = Crossing(p)
    <3>1. SUFFICES ASSUME ~Crossing(p) PROVE PauseInv'
      BY <2>3 DEF PauseInv
    <3>2. patch'[p] = "committed" /\ \A q \in Admins \ {p} : patch'[q] # "committed"
      BY <1>1, <2>3, <3>1 DEF Crossing, TypeOK
    <3>3. \A h \in Handlers : ~HoldsFlag(h)'
      BY <2>2, <3>1 DEF Crossing
    <3>4. want'[p] = enabledDb'
      BY <2>1, <2>3
    <3>5. QED
      BY <3>2, <3>3, <3>4 DEF PauseInv
  <2>4. CASE crossed' = TRUE
    BY <2>4 DEF PauseInv
  <2>5. CASE patch' = [patch EXCEPT ![p] = "done"] /\ UNCHANGED <<enabledDb, crossed>>
    <3>1. /\ patch'[p] # "committed" /\ patch[p] # "committed"
          /\ \A q \in Admins \ {p} : patch'[q] = patch[q]
      BY <1>1, <2>1, <2>5 DEF TypeOK
    <3>2. QED
      BY <2>1, <2>2, <2>5, <3>1 DEF PauseInv
  <2>6. QED
    BY <1>6, <2>3, <2>4, <2>5 DEF CommitVenue
<1>7. ASSUME NEW p \in Admins, ApplyToSession(p)
      PROVE  PauseInv'
  <2>1. /\ patch[p] = "committed" /\ patch' = [patch EXCEPT ![p] = "done"]
        /\ paused' = IF current = NoOne THEN paused ELSE [paused EXCEPT ![current] = ~want[p]]
        /\ UNCHANGED <<enabledRead, enabledDb, want, current, row, pc, crossed>>
    BY <1>7 DEF ApplyToSession, handlerVars, tableVars
  <2>2. \A h \in Handlers : HoldsFlag(h)' => HoldsFlag(h)
    BY <2>1 DEF HoldsFlag, Ending
  <2>3. patch'[p] # "committed" /\ \A q \in Admins \ {p} : patch'[q] = patch[q]
    BY <1>1, <2>1 DEF TypeOK
  <2>4. current # NoOne => paused'[current] = ~want[p]
    BY <1>1, <2>1 DEF TypeOK
  <2>5. QED
    BY <2>1, <2>2, <2>3, <2>4 DEF PauseInv
<1>8. ASSUME NEW a \in Actors, EndStep(a)
      PROVE  /\ UNCHANGED <<enabledRead, enabledDb, patch, want, paused, crossed>>
             /\ current' \in {current, NoOne}
  BY <1>8 DEF EndStep, StopSend, StopRecv, CloseWl, EndRow, adminVars, sessionVars, historyVars
<1>9. ASSUME NEW h \in Handlers,
             \/ Accept(h) \/ StartSession(h) \/ EndedThenInsert(h) \/ InsertRow(h)
             \/ Disconnect(h) \/ EndedThenOffline(h)
      PROVE  /\ UNCHANGED <<enabledRead, enabledDb, patch, want, paused, crossed>>
             /\ current' \in {current, NoOne}
  BY <1>9 DEF Accept, StartSession, EndedThenInsert, InsertRow, Disconnect, EndedThenOffline,
              Pop, adminVars, sessionVars, historyVars
<1>10. ASSUME NEW h \in Handlers,
              \/ Chunk(h) \/ Drain(h) \/ WlUp(h) \/ WlDown(h)
              \/ ScheduleFlush(h) \/ FlushEnds(h)
       PROVE  /\ UNCHANGED <<enabledRead, enabledDb, patch, want, paused, crossed>>
              /\ current' \in {current, NoOne}
  BY <1>10 DEF Chunk, Drain, WlUp, WlDown, ScheduleFlush, FlushEnds,
               handlerVars, adminVars, historyVars
<1>11. ASSUME NEW t \in Stoppers, Shutdown(t)
       PROVE  /\ UNCHANGED <<enabledRead, enabledDb, patch, want, paused, crossed>>
              /\ current' \in {current, NoOne}
  BY <1>11 DEF Shutdown, Pop, adminVars
<1>12. CASE UNCHANGED vars
  BY <1>2, <1>3, <1>12 DEF vars, handlerVars, sessionVars, adminVars, historyVars
<1>13. QED
  BY <1>2, <1>3, <1>4, <1>5, <1>6, <1>7, <1>8, <1>9, <1>10, <1>11, <1>12 DEF Next, StartStep

\* The session that runs is paused exactly if the database says so, whoever
\* takes over from whom, unless the last change of the flag crossed another
\* change or a starting session, or was never applied.
THEOREM PauseIsHonoured == Spec => []PauseHonoured
<1>1. Init => PauseInv
  <2>. SUFFICES ASSUME Init PROVE PauseInv
    OBVIOUS
  <2>1. \A h \in Handlers : ~HoldsFlag(h)
    BY DEF Init, HoldsFlag, Ending, EndStages, Actors
  <2>. QED
    BY <2>1 DEF Init, PauseInv
<1>2. IInv /\ PauseInv /\ [Next]_vars => PauseInv'
  BY PauseKept
<1>3. PauseInv => PauseHonoured
  BY DEF PauseInv, PauseHonoured
<1>4. QED
  BY <1>1, <1>2, <1>3, IInvHolds, PTL DEF Spec

-----------------------------------------------------------------------------
(* The status on screen                                                    *)

\* A session has no tasks, and its link is down, until it is installed.
FreshInv ==
    \A h \in Handlers :
        row[h] = "none" \/ pc[h] = "install" => loops[h] \cap Tasks = {} /\ ~wlReady[h]

\* A link of a session without tasks stays down, and a session that has an open
\* row and is not being installed had one before.
LEMMA FreshKept ==
    ASSUME IInv, FreshInv, [Next]_vars
    PROVE  FreshInv'
<1> USE ConstantsAssumption DEF Goto, Actors
<1>1. TypeOK
  BY DEF IInv
<1>2. CASE /\ \A h \in Handlers : row'[h] = "none" \/ pc'[h] = "install" =>
                                      row[h] = "none" \/ pc[h] = "install"
           /\ \A h \in Handlers : loops[h] \cap Tasks = {} => loops'[h] \cap Tasks = {}
           /\ \A h \in Handlers : loops[h] \cap Tasks = {} /\ wlReady'[h] => wlReady[h]
  BY <1>2 DEF FreshInv
<1>3. ASSUME NEW a \in Actors, EndStep(a) PROVE FreshInv'
  <2>1. Ending(a) /\ victim[a] \in Handlers /\ row[victim[a]] = "open"
    BY <1>1, <1>3 DEF EndStep, StopSend, StopRecv, CloseWl, EndRow, Ending, EndStages,
                      TypeOK, IInv, TeardownInv
  <2>2. \A h \in Handlers : row'[h] = "none" \/ pc'[h] = "install" =>
                                row[h] = "none" \/ pc[h] = "install"
    <3>1. \A h \in Handlers : row'[h] = "none" => row[h] = "none"
      BY <1>1, <1>3, <2>1 DEF EndStep, StopSend, StopRecv, CloseWl, EndRow, TypeOK, tableVars
    <3>2. \A h \in Handlers : pc'[h] = "install" => pc[h] = "install"
      BY <1>1, <1>3 DEF EndStep, StopSend, StopRecv, CloseWl, EndRow, TypeOK
    <3>3. QED
      BY <3>1, <3>2
  <2>3. \A h \in Handlers : loops'[h] \subseteq loops[h]
    BY <1>1, <1>3, <2>1 DEF EndStep, StopSend, StopRecv, CloseWl, EndRow, TypeOK, sessionVars
  <2>4. \A h \in Handlers : wlReady'[h] => wlReady[h]
    <3>1. CASE CloseWl(a)
      BY <1>1, <2>1, <3>1 DEF CloseWl, TypeOK
    <3>2. CASE UNCHANGED wlReady
      BY <3>2
    <3>3. QED
      BY <1>3, <3>1, <3>2 DEF EndStep, StopSend, StopRecv, EndRow, sessionVars
  <2>5. QED
    BY <1>2, <2>2, <2>3, <2>4
<1>4. ASSUME NEW h \in Handlers, Accept(h) \/ ReadFlag(h) \/ EndedThenInsert(h) \/ EndedThenOffline(h)
      PROVE  FreshInv'
  <2>1. UNCHANGED <<row, loops, wlReady>>
    BY <1>4 DEF Accept, ReadFlag, EndedThenInsert, EndedThenOffline, sessionVars, tableVars
  <2>2. \A g \in Handlers : pc'[g] = "install" => pc[g] = "install"
    BY <1>1, <1>4 DEF Accept, ReadFlag, EndedThenInsert, EndedThenOffline, TypeOK
  <2>3. QED
    BY <1>2, <2>1, <2>2
<1>5. ASSUME NEW a \in Actors, Pop(a), UNCHANGED <<row, loops, wlReady>> PROVE FreshInv'
  BY <1>1, <1>2, <1>5 DEF Pop, TypeOK
<1>6. ASSUME NEW h \in Handlers, StartSession(h) \/ Disconnect(h) PROVE FreshInv'
  <2>1. UNCHANGED <<row, loops, wlReady>>
    BY <1>6 DEF StartSession, Disconnect, tableVars
  <2>2. CASE \E stage \in {"insert", "done"} : pc' = [pc EXCEPT ![h] = stage]
    BY <1>1, <1>2, <2>1, <2>2 DEF TypeOK
  <2>3. QED
    BY <1>5, <1>6, <2>1, <2>2 DEF StartSession, Disconnect
<1>7. ASSUME NEW t \in Stoppers, Shutdown(t) PROVE FreshInv'
  BY <1>5, <1>7 DEF Shutdown, tableVars
<1>8. ASSUME NEW h \in Handlers, InsertRow(h) PROVE FreshInv'
  <2>1. UNCHANGED <<loops, wlReady>> /\ row[h] = "none"
    BY <1>8 DEF InsertRow, sessionVars, IInv, RowInv
  <2>2. \A g \in Handlers \ {h} : row'[g] = row[g] /\ pc'[g] = pc[g]
    BY <1>1, <1>8 DEF InsertRow, TypeOK
  <2>3. QED
    BY <1>2, <2>1, <2>2
<1>9. ASSUME NEW h \in Handlers, Install(h) PROVE FreshInv'
  <2>1. /\ UNCHANGED <<row, wlReady>> /\ pc'[h] = "streaming" /\ row[h] # "none"
        /\ \A g \in Handlers \ {h} : pc'[g] = pc[g] /\ loops'[g] = loops[g]
    BY <1>1, <1>9 DEF Install, TypeOK, tableVars, IInv, RowInv
  <2>2. QED
    BY <2>1 DEF FreshInv
<1>10. ASSUME NEW s \in Handlers, WlUp(s) \/ WlDown(s) PROVE FreshInv'
  <2>1. UNCHANGED <<row, pc, loops>> /\ loops[s] \cap Tasks # {}
    BY <1>10 DEF WlUp, WlDown, handlerVars, tableVars
  <2>2. \A g \in Handlers \ {s} : wlReady'[g] = wlReady[g]
    BY <1>1, <1>10 DEF WlUp, WlDown, TypeOK
  <2>3. QED
    BY <1>2, <2>1, <2>2
<1>11. ASSUME NEW s \in Handlers, ScheduleFlush(s) \/ FlushEnds(s) PROVE FreshInv'
  <2>1. UNCHANGED <<row, pc, wlReady>>
    BY <1>11 DEF ScheduleFlush, FlushEnds, handlerVars, tableVars
  <2>2. \A h \in Handlers : loops'[h] \cap Tasks = loops[h] \cap Tasks
    BY <1>1, <1>11 DEF ScheduleFlush, FlushEnds, TypeOK, Tasks
  <2>3. QED
    BY <1>2, <2>1, <2>2
<1>12. CASE UNCHANGED <<row, pc, loops, wlReady>>
  BY <1>2, <1>12
<1>13. ASSUME NEW p \in Admins, SelectVenue(p) \/ CommitVenue(p) \/ ApplyToSession(p)
       PROVE  UNCHANGED <<row, pc, loops, wlReady>>
  BY <1>13 DEF SelectVenue, CommitVenue, ApplyToSession, handlerVars, sessionVars, tableVars
<1>14. ASSUME NEW h \in Handlers, Chunk(h) \/ Drain(h) PROVE UNCHANGED <<row, pc, loops, wlReady>>
  BY <1>14 DEF Chunk, Drain, handlerVars, tableVars
<1>15. CASE UNCHANGED vars
  BY <1>12, <1>15 DEF vars, handlerVars, sessionVars, tableVars
<1>16. QED
  BY <1>3, <1>4, <1>6, <1>7, <1>8, <1>9, <1>10, <1>11, <1>12, <1>13, <1>14, <1>15
     DEF Next, StartStep

\* The status stays as it was, the venue's state too, and nobody's doing is
\* undone.
LEMMA StatusFrame ==
    ASSUME TypeOK, StatusIsTrue, viewer' = viewer, misled' = misled, IsLive' <=> IsLive,
           \A a \in Actors : pc'[a] = "done" <=> pc[a] = "done"
    PROVE  StatusIsTrue'
  BY DEF StatusIsTrue, TypeOK

LEMMA StatusKept ==
    ASSUME IInv, FreshInv, StatusIsTrue, [Next]_vars
    PROVE  StatusIsTrue'
<1> USE ConstantsAssumption DEF Goto, Actors
<1>1. TypeOK
  BY DEF IInv
<1>2. ASSUME NEW a \in Actors, EndStep(a) PROVE StatusIsTrue'
  <2>1. /\ UNCHANGED <<viewer, misled, current>>
        /\ \E stage \in EndStages \cup {"ended", "dead"} : pc' = [pc EXCEPT ![a] = stage]
        /\ Ending(a)
    BY <1>2 DEF EndStep, StopSend, StopRecv, CloseWl, EndRow, Ending, EndStages,
                sessionVars, historyVars
  <2>2. victim[a] \in Handlers /\ victim[a] \in stopped
    BY <1>1, <2>1 DEF IInv, TeardownInv, TypeOK
  <2>3. current # NoOne => wlReady'[current] = wlReady[current]
    <3>1. CASE CloseWl(a)
      BY <1>1, <2>2, <3>1 DEF CloseWl, TypeOK, IInv, CurrentIsRunning
    <3>2. CASE UNCHANGED wlReady
      BY <3>2
    <3>3. QED
      BY <1>2, <3>1, <3>2 DEF EndStep, StopSend, StopRecv, EndRow, sessionVars
  <2>4. \A b \in Actors : pc'[b] = "done" <=> pc[b] = "done"
    BY <1>1, <2>1 DEF TypeOK, Ending, EndStages
  <2>5. QED
    BY <1>1, <2>1, <2>3, <2>4, StatusFrame DEF IsLive
<1>3. ASSUME NEW h \in Handlers, Accept(h) \/ ReadFlag(h) \/ EndedThenInsert(h) \/ InsertRow(h)
      PROVE  StatusIsTrue'
  <2>1. UNCHANGED <<viewer, misled, current, wlReady>>
    BY <1>3 DEF Accept, ReadFlag, EndedThenInsert, InsertRow, sessionVars, historyVars
  <2>2. \A b \in Actors : pc'[b] = "done" <=> pc[b] = "done"
    BY <1>1, <1>3 DEF Accept, ReadFlag, EndedThenInsert, InsertRow, TypeOK
  <2>3. QED
    BY <1>1, <2>1, <2>2, StatusFrame DEF IsLive
<1>4. ASSUME NEW a \in Actors, Pop(a), UNCHANGED viewer,
             pc[a] \in {"idle", "flagged", "streaming"}
      PROVE  StatusIsTrue'
  <2>1. ~IsLive' /\ misled' = (IF IsLive THEN a ELSE misled)
    BY <1>4 DEF Pop, OffAirBy, IsLive
  <2>2. pc'[a] # "done" /\ \A b \in Actors : pc'[b] = "done" <=> pc[b] = "done"
    BY <1>1, <1>4 DEF Pop, TypeOK
  <2>3. a # NoOne
    OBVIOUS
  <2>4. QED
    BY <1>1, <1>4, <2>1, <2>2, <2>3 DEF StatusIsTrue, TypeOK
<1>5. ASSUME NEW h \in Handlers, StartSession(h) PROVE StatusIsTrue'
  <2>1. UNCHANGED <<viewer, wlReady>> /\ pc[h] = "flagged"
    BY <1>5 DEF StartSession
  <2>2. CASE pc' = [pc EXCEPT ![h] = "insert"] /\ UNCHANGED <<current, misled>>
    <3>1. \A b \in Actors : pc'[b] = "done" <=> pc[b] = "done"
      BY <1>1, <2>1, <2>2 DEF TypeOK
    <3>2. QED
      BY <1>1, <2>1, <2>2, <3>1, StatusFrame DEF IsLive
  <2>3. QED
    BY <1>4, <1>5, <2>1, <2>2 DEF StartSession
<1>6. ASSUME NEW h \in Handlers, Install(h) PROVE StatusIsTrue'
  <2>1. /\ current' = h /\ UNCHANGED wlReady /\ pc[h] = "install"
        /\ viewer' \in {viewer, "paused"}
        /\ misled' = (IF IsLive THEN h ELSE misled)
    BY <1>6 DEF Install, OffAirBy
  <2>2. ~IsLive'
    BY <2>1 DEF FreshInv, IsLive
  <2>3. pc'[h] = "streaming" /\ \A b \in Actors : pc'[b] = "done" <=> pc[b] = "done"
    BY <1>1, <1>6 DEF Install, TypeOK
  <2>4. QED
    BY <1>1, <2>1, <2>2, <2>3 DEF StatusIsTrue, TypeOK
<1>7. ASSUME NEW h \in Handlers, Disconnect(h) PROVE StatusIsTrue'
  <2>1. pc[h] = "streaming"
    BY <1>7 DEF Disconnect
  <2>2. CASE current = NoOne /\ viewer' = OnOffline(viewer) /\ UNCHANGED current
    BY <2>2 DEF OnOffline, IsLive, StatusIsTrue
  <2>3. QED
    BY <1>4, <1>7, <2>1, <2>2 DEF Disconnect
<1>8. ASSUME NEW h \in Handlers, EndedThenOffline(h) PROVE StatusIsTrue'
  <2>1. /\ viewer' = OnOffline(viewer) /\ UNCHANGED <<current, wlReady>>
        /\ misled' = (IF IsLive THEN h ELSE NoOne) /\ pc'[h] = "done"
    BY <1>1, <1>8 DEF EndedThenOffline, sessionVars, TypeOK
  <2>2. QED
    BY <2>1 DEF OnOffline, IsLive, StatusIsTrue
<1>9. ASSUME NEW t \in Stoppers, Shutdown(t) PROVE StatusIsTrue'
  BY <1>4, <1>9 DEF Shutdown
<1>10. ASSUME NEW s \in Handlers, WlUp(s) \/ WlDown(s) PROVE StatusIsTrue'
  <2>1. UNCHANGED <<pc, current>>
    BY <1>10 DEF WlUp, WlDown, handlerVars
  <2>2. CASE current = s
    <3>1. \/ viewer' = OnLive(viewer) /\ IsLive'
          \/ viewer' = OnOffline(viewer) /\ ~IsLive'
      BY <1>1, <1>10, <2>1, <2>2 DEF WlUp, WlDown, Tell, IsLive, TypeOK
    <3>2. QED
      BY <3>1 DEF OnLive, OnOffline, StatusIsTrue
  <2>3. CASE current # s
    <3>1. UNCHANGED <<viewer, misled>> /\ (current # NoOne => wlReady'[current] = wlReady[current])
      BY <1>1, <1>10, <2>3 DEF WlUp, WlDown, Tell, TypeOK
    <3>2. QED
      BY <1>1, <2>1, <3>1, StatusFrame DEF IsLive
  <2>4. QED
    BY <2>2, <2>3
<1>11. ASSUME NEW p \in Admins, ApplyToSession(p) PROVE StatusIsTrue'
  <2>1. /\ UNCHANGED <<pc, current, wlReady>>
        /\ viewer' = IF want[p] THEN OnEnabled(viewer, IsLive) ELSE "paused"
        /\ misled' = IF want[p] /\ viewer = "paused" THEN NoOne ELSE misled
    BY <1>11 DEF ApplyToSession, handlerVars
  <2>2. QED
    BY <2>1 DEF OnEnabled, IsLive, StatusIsTrue
<1>12. CASE UNCHANGED <<pc, current, wlReady, viewer, misled>>
  BY <1>1, <1>12, StatusFrame DEF IsLive
<1>13. ASSUME NEW p \in Admins, SelectVenue(p) \/ CommitVenue(p)
       PROVE  UNCHANGED <<pc, current, wlReady, viewer, misled>>
  BY <1>13 DEF SelectVenue, CommitVenue, handlerVars, sessionVars, historyVars
<1>14. ASSUME NEW h \in Handlers, Chunk(h) \/ Drain(h) \/ ScheduleFlush(h) \/ FlushEnds(h)
       PROVE  UNCHANGED <<pc, current, wlReady, viewer, misled>>
  BY <1>14 DEF Chunk, Drain, ScheduleFlush, FlushEnds, handlerVars, historyVars
<1>15. CASE UNCHANGED vars
  BY <1>12, <1>15 DEF vars, handlerVars, sessionVars, historyVars
<1>16. QED
  BY <1>2, <1>3, <1>5, <1>6, <1>7, <1>8, <1>9, <1>10, <1>11, <1>12, <1>13, <1>14, <1>15
     DEF Next, StartStep

\* In every environment, a viewer's status is wrong only by the doing of one
\* actor: "live" of one that took the venue off air and is not through, or
\* "offline" of one that ended an older session than the live one.
THEOREM StatusIsAlwaysTrue == Spec => []StatusIsTrue
<1>1. Init => FreshInv /\ StatusIsTrue
  BY DEF Init, FreshInv, StatusIsTrue, IsLive
<1>2. IInv /\ FreshInv /\ StatusIsTrue /\ [Next]_vars => FreshInv' /\ StatusIsTrue'
  BY FreshKept, StatusKept
<1>3. QED
  BY <1>1, <1>2, IInvHolds, PTL DEF Spec
=============================================================================
