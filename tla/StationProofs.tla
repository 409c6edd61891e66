---------------------------- MODULE StationProofs ----------------------------
(***************************************************************************)
(* Proofs about Station, for every value of its constants.                 *)
(***************************************************************************)
EXTENDS Station, FiniteSetTheorems, TLAPS

-----------------------------------------------------------------------------
(* Type correctness.                                                       *)

\* The labels the actions use are labels of the types they are used for
LEMMA Labels ==
    /\ "idle" \in StationState /\ "register" \in StationState
    /\ "online" \in StationState /\ "reconnect" \in StationState
    /\ \A label \in {"off", "reinit", "check", "renew", "enter", "dial", "send",
                      "select", "wait", "exit"} : label \in AgentPC
    /\ \A label \in {"off", "check", "load", "read", "body", "disc", "setId",
                      "setOnline", "forceOnline", "forceId"} : label \in RecvPC
  BY DEF StationState, AgentPC, RecvPC

\* Moving a goroutine to a label keeps the program counters typed
LEMMA GotoType ==
    ASSUME TypeOK, NEW a, NEW label \in AgentPC, Goto(a, label)
    PROVE  pc' \in [Agents -> AgentPC]
  BY DEF TypeOK, Goto

\* The same for the receive loops
LEMMA RGotoType ==
    ASSUME TypeOK, NEW c, NEW label \in RecvPC, RGoto(c, label)
    PROVE  rpc' \in [Conns -> RecvPC]
  BY DEF TypeOK, RGoto

\* The critical section of Stop keeps the types of what it changes
LEMMA StopBodyType ==
    ASSUME TypeOK, StopBody
    PROVE  /\ state' \in StationState /\ conn' \in 0..MaxConns /\ devId' \in 0..MaxConns
           /\ cancelled' \subseteq Gens /\ reconnecting' \in BOOLEAN
           /\ closedL' \subseteq Conns /\ stops' \in Nat
<1>1. state' \in StationState
  BY Labels DEF StopBody
<1>2. conn' \in 0..MaxConns /\ devId' \in 0..MaxConns /\ closedL' \subseteq Conns
  BY StationAssumption DEF StopBody, DropConn, TypeOK, Conns
<1>3. cancelled' \subseteq Gens
  BY DEF StopBody, TypeOK
<1>4. reconnecting' \in BOOLEAN
  BY DEF StopBody
<1>5. stops' \in Nat
  BY DEF StopBody, TypeOK
<1> QED BY <1>1, <1>2, <1>3, <1>4, <1>5

\* ... and so does that of handleDisconnect
LEMMA DisconnectBodyType ==
    ASSUME TypeOK, DisconnectBody
    PROVE  /\ state' \in StationState /\ conn' \in 0..MaxConns /\ devId' \in 0..MaxConns
           /\ closedL' \subseteq Conns /\ pend' \in Nat
<1>1. state' \in StationState
  BY Labels DEF DisconnectBody
<1>2. conn' \in 0..MaxConns /\ devId' \in 0..MaxConns /\ closedL' \subseteq Conns
  BY StationAssumption DEF DisconnectBody, DropConn, TypeOK, Conns
<1>3. pend' \in Nat
  BY DEF DisconnectBody, SpawnReconnect, TypeOK
<1> QED BY <1>1, <1>2, <1>3

\* TypeOK is inductive: no goroutine of the station leaves the types
THEOREM TypeCorrect == Spec => []TypeOK
<1>1. Init => TypeOK
  <2> SUFFICES ASSUME Init PROVE TypeOK
    OBVIOUS
  <2>1. 1 \in Gens /\ 0 \in 0..MaxConns
    BY StationAssumption DEF Gens
  <2>2. state \in StationState /\ pc \in [Agents -> AgentPC] /\ rpc \in [Conns -> RecvPC]
    BY Labels DEF Init
  <2> QED BY <2>1, <2>2 DEF Init, TypeOK
<1>2. TypeOK /\ [Next]_vars => TypeOK'
  <2> SUFFICES ASSUME TypeOK, [Next]_vars PROVE TypeOK'
    OBVIOUS
  <2> USE DEF structVars, agentVars, recvVars, timerVars, hbVars, sockVars
  <2>1. CASE UNCHANGED vars
    BY <2>1 DEF vars, TypeOK
  <2>2. ASSUME NEW a \in Callers, StartCheck(a) PROVE TypeOK'
    <3>1. pc' \in [Agents -> AgentPC]
      BY <2>2, Labels, GotoType DEF StartCheck
    <3> QED BY <2>2, <3>1 DEF StartCheck, TypeOK
  <2>3. ASSUME NEW a \in Callers, StartRenew(a) PROVE TypeOK'
    <3>1. pc' \in [Agents -> AgentPC]
      BY <2>3, Labels, GotoType DEF StartRenew
    <3>2. ctx' \in Gens
      BY <2>3, StationAssumption DEF StartRenew, TypeOK, Gens
    <3> QED BY <2>3, <3>1, <3>2 DEF StartRenew, TypeOK
  <2>4. ASSUME NEW a \in Callers, Stop(a) PROVE TypeOK'
    <3>1. StopBody BY <2>4 DEF Stop
    <3> QED BY <2>4, <3>1, StopBodyType DEF Stop, TypeOK
  <2>5. ASSUME NEW a \in Callers, RestartStop(a) PROVE TypeOK'
    <3>1. StopBody BY <2>5 DEF RestartStop
    <3>2. pc' \in [Agents -> AgentPC]
      BY <2>5, Labels, GotoType DEF RestartStop
    <3> QED BY <2>5, <3>1, StopBodyType, <3>2 DEF RestartStop, TypeOK
  <2>6. ASSUME NEW a \in Callers, RestartRenew(a) PROVE TypeOK'
    <3>1. pc' \in [Agents -> AgentPC]
      BY <2>6, Labels, GotoType DEF RestartRenew
    <3>2. ctx' \in Gens
      BY <2>6, StationAssumption DEF RestartRenew, TypeOK, Gens
    <3> QED BY <2>6, <3>1, <3>2 DEF RestartRenew, TypeOK
  <2>7. ASSUME NEW a \in Agents, EnterRegister(a) PROVE TypeOK'
    <3>1. pc' \in [Agents -> AgentPC]
      BY <2>7, Labels, GotoType DEF EnterRegister
    <3>2. state' \in StationState
      BY <2>7, Labels DEF EnterRegister, TypeOK
    <3> QED BY <2>7, <3>1, <3>2 DEF EnterRegister, TypeOK
  <2>8. ASSUME NEW a \in Agents, DialFail(a) PROVE TypeOK'
    <3>1. pc' \in [Agents -> AgentPC]
      BY <2>8, Labels, GotoType DEF DialFail, Failed
    <3>2. state' \in StationState
      BY <2>8, Labels DEF DialFail, TypeOK
    <3>3. pend' \in Nat
      BY <2>8 DEF DialFail, TypeOK, SpawnReconnect
    <3> QED BY <2>8, <3>1, <3>2, <3>3 DEF DialFail, TypeOK
  <2>9. ASSUME NEW a \in Agents, DialOk(a) PROVE TypeOK'
    <3>1. pc' \in [Agents -> AgentPC]
      BY <2>9, Labels, GotoType DEF DialOk
    <3>2. rpc' \in [Conns -> RecvPC]
      BY <2>9, Labels, RGotoType DEF DialOk
    <3>3. dials' \in 0..MaxConns /\ conn' \in 0..MaxConns
      BY <2>9, StationAssumption DEF DialOk, TypeOK
    <3> QED BY <2>9, <3>1, <3>2, <3>3 DEF DialOk, TypeOK
  <2>10. ASSUME NEW a \in Agents, RegisterSent(a) PROVE TypeOK'
    <3>1. pc' \in [Agents -> AgentPC]
      BY <2>10, Labels, GotoType DEF RegisterSent, Succeeded
    <3>2. req' \in [Conns -> Nat]
      <4>1. CASE conn \in Conns
        <5>1. req[conn] \in Nat
          BY <4>1 DEF TypeOK
        <5> QED BY <2>10, <4>1, <5>1 DEF RegisterSent, TypeOK
      <4>2. CASE conn \notin Conns
        <5>1. req' = req
          BY <2>10, <4>2 DEF RegisterSent, TypeOK
        <5> QED BY <5>1 DEF TypeOK
      <4> QED BY <4>1, <4>2
    <3>3. watchers' \in Nat
      BY <2>10 DEF RegisterSent, TypeOK
    <3> QED BY <2>10, <3>1, <3>2, <3>3 DEF RegisterSent, TypeOK
  <2>11. ASSUME NEW a \in Agents, RegisterFailed(a) PROVE TypeOK'
    <3>1. pc' \in [Agents -> AgentPC]
      BY <2>11, Labels, GotoType DEF RegisterFailed, Failed
    <3>2. state' \in StationState
      BY <2>11, Labels DEF RegisterFailed, TypeOK
    <3> QED BY <2>11, <3>1, <3>2 DEF RegisterFailed, TypeOK
  <2>12. ASSUME NEW l \in Loops, LoopWins(l) PROVE TypeOK'
    <3>1. pc' \in [Agents -> AgentPC]
      BY <2>12, Labels, GotoType DEF LoopWins
    <3>2. pend' \in Nat
      BY <2>12 DEF LoopWins, TypeOK
    <3>3. reconnecting' \in BOOLEAN
      BY <2>12 DEF LoopWins, TypeOK
    <3> QED BY <2>12, <3>1, <3>2, <3>3 DEF LoopWins, TypeOK
  <2>13. ASSUME NEW l \in Loops, LoopSelects(l) PROVE TypeOK'
    <3>1. pc' \in [Agents -> AgentPC]
      BY <2>13, Labels, GotoType DEF LoopSelects
    <3>2. held' \in [Loops -> Gens]
      BY <2>13 DEF LoopSelects, TypeOK
    <3> QED BY <2>13, <3>1, <3>2 DEF LoopSelects, TypeOK
  <2>14. ASSUME NEW l \in Loops, LoopTick(l) PROVE TypeOK'
    <3>1. pc' \in [Agents -> AgentPC]
      BY <2>14, Labels, GotoType DEF LoopTick
    <3> QED BY <2>14, <3>1 DEF LoopTick, TypeOK
  <2>15. ASSUME NEW l \in Loops, LoopCancelled(l) PROVE TypeOK'
    <3>1. pc' \in [Agents -> AgentPC]
      BY <2>15, Labels, GotoType DEF LoopCancelled
    <3> QED BY <2>15, <3>1 DEF LoopCancelled, TypeOK
  <2>16. ASSUME NEW l \in Loops, LoopExit(l) PROVE TypeOK'
    <3>1. pc' \in [Agents -> AgentPC]
      BY <2>16, Labels, GotoType DEF LoopExit
    <3>2. reconnecting' \in BOOLEAN
      BY <2>16 DEF LoopExit, TypeOK
    <3> QED BY <2>16, <3>1, <3>2 DEF LoopExit, TypeOK
  <2>17. ASSUME NEW c \in Conns, RecvCheck(c) PROVE TypeOK'
    <3>1. rpc' \in [Conns -> RecvPC]
      BY <2>17, Labels, RGotoType DEF RecvCheck
    <3> QED BY <2>17, <3>1 DEF RecvCheck, TypeOK
  <2>18. ASSUME NEW c \in Conns, RecvLoad(c) PROVE TypeOK'
    <3>1. rpc' \in [Conns -> RecvPC]
      BY <2>18, Labels, RGotoType DEF RecvLoad
    <3>2. rconn' \in [Conns -> 0..MaxConns]
      BY <2>18 DEF RecvLoad, TypeOK
    <3> QED BY <2>18, <3>1, <3>2 DEF RecvLoad, TypeOK
  <2>19. ASSUME NEW c \in Conns, RecvPanic(c) PROVE TypeOK'
    <3>1. crashed' \in BOOLEAN
      BY <2>19 DEF RecvPanic, TypeOK
    <3> QED BY <2>19, <3>1 DEF RecvPanic, TypeOK
  <2>20. ASSUME NEW c \in Conns, RecvError(c) PROVE TypeOK'
    <3>1. rpc' \in [Conns -> RecvPC]
      BY <2>20, Labels, RGotoType DEF RecvError
    <3> QED BY <2>20, <3>1 DEF RecvError, TypeOK
  <2>21. ASSUME NEW c \in Conns, RecvOther(c) PROVE TypeOK'
    <3>1. rpc' \in [Conns -> RecvPC]
      BY <2>21, Labels, RGotoType DEF RecvOther
    <3> QED BY <2>21, <3>1 DEF RecvOther, TypeOK
  <2>22. ASSUME NEW c \in Conns, RecvHeader(c) PROVE TypeOK'
    <3>1. rpc' \in [Conns -> RecvPC]
      BY <2>22, Labels, RGotoType DEF RecvHeader
    <3>2. req' \in [Conns -> Nat]
      <4>1. CASE rconn[c] \in Conns
        <5>1. req[rconn[c]] \in Nat
          BY <4>1 DEF TypeOK
        <5> QED BY <2>22, <4>1, <5>1 DEF RecvHeader, TypeOK
      <4>2. CASE rconn[c] \notin Conns
        <5>1. req' = req
          BY <2>22, <4>2 DEF RecvHeader, TypeOK
        <5> QED BY <5>1 DEF TypeOK
      <4> QED BY <4>1, <4>2
    <3> QED BY <2>22, <3>1, <3>2 DEF RecvHeader, TypeOK
  <2>23. ASSUME NEW c \in Conns, RecvBody(c) PROVE TypeOK'
    <3>1. rpc' \in [Conns -> RecvPC]
      BY <2>23, Labels, RGotoType DEF RecvBody
    <3>2. resends' \in Nat
      BY <2>23 DEF RecvBody, TypeOK
    <3>3. state' \in StationState
      BY <2>23, Labels DEF RecvBody, TypeOK
    <3> QED BY <2>23, <3>1, <3>2, <3>3 DEF RecvBody, TypeOK
  <2>24. ASSUME NEW c \in Conns, ReplySetId(c) PROVE TypeOK'
    <3>1. rpc' \in [Conns -> RecvPC]
      BY <2>24, Labels, RGotoType DEF ReplySetId
    <3>2. devId' \in 0..MaxConns
      BY <2>24 DEF ReplySetId, TypeOK
    <3> QED BY <2>24, <3>1, <3>2 DEF ReplySetId, TypeOK
  <2>25. ASSUME NEW c \in Conns, ReplySetOnline(c) PROVE TypeOK'
    <3>1. rpc' \in [Conns -> RecvPC]
      BY <2>25, Labels, RGotoType DEF ReplySetOnline
    <3>2. devId' \in 0..MaxConns
      BY <2>25 DEF ReplySetOnline, TypeOK, HeaderFallback
    <3>3. state' \in StationState
      BY <2>25, Labels DEF ReplySetOnline, TypeOK
    <3>4. hbNew' \in Nat
      BY <2>25 DEF ReplySetOnline, TypeOK, SpawnHeartbeat
    <3> QED BY <2>25, <3>1, <3>2, <3>3, <3>4 DEF ReplySetOnline, TypeOK
  <2>26. ASSUME NEW c \in Conns, ReplyForceOnline(c) PROVE TypeOK'
    <3>1. rpc' \in [Conns -> RecvPC]
      BY <2>26, Labels, RGotoType DEF ReplyForceOnline
    <3>2. state' \in StationState
      BY <2>26, Labels DEF ReplyForceOnline, TypeOK
    <3> QED BY <2>26, <3>1, <3>2 DEF ReplyForceOnline, TypeOK
  <2>27. ASSUME NEW c \in Conns, ReplyForceId(c) PROVE TypeOK'
    <3>1. rpc' \in [Conns -> RecvPC]
      BY <2>27, Labels, RGotoType DEF ReplyForceId
    <3>2. devId' \in 0..MaxConns
      BY <2>27 DEF ReplyForceId, TypeOK, HeaderFallback
    <3>3. hbNew' \in Nat
      BY <2>27 DEF ReplyForceId, TypeOK, SpawnHeartbeat
    <3> QED BY <2>27, <3>1, <3>2, <3>3 DEF ReplyForceId, TypeOK
  <2>28. ASSUME NEW c \in Conns, RecvDisconnect(c) PROVE TypeOK'
    <3>1. rpc' \in [Conns -> RecvPC]
      BY <2>28, Labels, RGotoType DEF RecvDisconnect
    <3>2. DisconnectBody BY <2>28 DEF RecvDisconnect
    <3> QED BY <2>28, <3>1, <3>2, DisconnectBodyType DEF RecvDisconnect, TypeOK
  <2>29. ASSUME NEW c \in Conns, ServerClose(c) PROVE TypeOK'
    <3>1. closedR' \subseteq Conns
      BY <2>29 DEF ServerClose, TypeOK
    <3> QED BY <2>29, <3>1 DEF ServerClose, TypeOK
  <2>30. CASE WatcherWakes
    <3>1. watchers' \in Nat
      BY <2>30 DEF WatcherWakes, TypeOK
    <3>2. expired' \in Nat
      BY <2>30 DEF WatcherWakes, TypeOK
    <3> QED BY <2>30, <3>1, <3>2 DEF WatcherWakes, TypeOK
  <2>31. CASE WatcherExpires
    <3>1. expired' \in Nat
      BY <2>31 DEF WatcherExpires, TypeOK
    <3>2. state' \in StationState
      BY <2>31, Labels DEF WatcherExpires, TypeOK
    <3>3. pend' \in Nat
      BY <2>31 DEF WatcherExpires, TypeOK, SpawnReconnect
    <3> QED BY <2>31, <3>1, <3>2, <3>3 DEF WatcherExpires, TypeOK
  <2>32. CASE LoopLoses
    <3>1. pend' \in Nat
      BY <2>32 DEF LoopLoses, TypeOK
    <3> QED BY <2>32, <3>1 DEF LoopLoses, TypeOK
  <2>33. CASE ResendRegister
    <3>1. resends' \in Nat
      BY <2>33 DEF ResendRegister, TypeOK
    <3>2. req' \in [Conns -> Nat]
      BY <2>33 DEF ResendRegister, TypeOK
    <3> QED BY <2>33, <3>1, <3>2 DEF ResendRegister, TypeOK
  <2>34. ASSUME NEW g \in Gens, HbTick(g) PROVE TypeOK'
    <3>1. hb' \in [Gens -> Nat]
      BY <2>34 DEF HbTick, TypeOK
    <3>2. hbSending' \in Nat
      BY <2>34 DEF HbTick, TypeOK
    <3> QED BY <2>34, <3>1, <3>2 DEF HbTick, TypeOK
  <2>35. ASSUME NEW g \in Gens, HbCancelled(g) PROVE TypeOK'
    <3>1. hb' \in [Gens -> Nat]
      BY <2>35 DEF HbCancelled, TypeOK
    <3> QED BY <2>35, <3>1 DEF HbCancelled, TypeOK
  <2>36. CASE HbSelects
    <3>1. hbNew' \in Nat
      BY <2>36 DEF HbSelects, TypeOK
    <3>2. hb' \in [Gens -> Nat]
      BY <2>36 DEF HbSelects, TypeOK
    <3> QED BY <2>36, <3>1, <3>2 DEF HbSelects, TypeOK
  <2>37. CASE HbSent
    <3>1. hbSending' \in Nat
      BY <2>37 DEF HbSent, TypeOK
    <3>2. hbNew' \in Nat
      BY <2>37 DEF HbSent, TypeOK
    <3> QED BY <2>37, <3>1, <3>2 DEF HbSent, TypeOK
  <2>38. CASE HbFails
    <3>1. hbSending' \in Nat
      BY <2>38 DEF HbFails, TypeOK
    <3>2. hbFailing' \in Nat
      BY <2>38 DEF HbFails, TypeOK
    <3> QED BY <2>38, <3>1, <3>2 DEF HbFails, TypeOK
  <2>39. CASE HbDisconnect
    <3>1. hbFailing' \in Nat
      BY <2>39 DEF HbDisconnect, TypeOK
    <3>2. DisconnectBody BY <2>39 DEF HbDisconnect
    <3> QED BY <2>39, <3>1, <3>2, DisconnectBodyType DEF HbDisconnect, TypeOK
  <2> QED
    BY <2>1, <2>2, <2>3, <2>4, <2>5, <2>6, <2>7, <2>8, <2>9, <2>10, <2>11, <2>12, <2>13, <2>14,
      <2>15, <2>16, <2>17, <2>18, <2>19, <2>20, <2>21, <2>22, <2>23, <2>24, <2>25, <2>26, <2>27,
      <2>28, <2>29, <2>30, <2>31, <2>32, <2>33, <2>34, <2>35, <2>36, <2>37, <2>38, <2>39
    DEF Next, CallerStep, ConnectStep, LoopStep, RecvStep, TimerStep, HbStep
<1> QED BY <1>1, <1>2, PTL DEF Spec

-----------------------------------------------------------------------------
(* The guard of reconnectLoop.                                             *)

\* A loop that moves from one label inside to another stays inside
LEMMA LiveLoopsMove ==
    ASSUME TypeOK, NEW a \in Agents, NEW label \in AgentPC, Goto(a, label),
           a \in Loops => pc[a] # "off" /\ label # "off"
    PROVE  LiveLoops' = LiveLoops
<1>1. \A l \in Loops : pc'[l] # "off" <=> pc[l] # "off"
  BY DEF TypeOK, Goto, Agents
<1> QED BY <1>1 DEF LiveLoops

\* A step that neither changes who is inside nor the guard keeps both properties
LEMMA GuardFrame ==
    ASSUME ReconnectGuard, GuardHeld,
           LiveLoops' = LiveLoops, reconnecting' = reconnecting, stops' = stops
    PROVE  ReconnectGuard' /\ GuardHeld'
  BY DEF ReconnectGuard, GuardHeld

\* The loops inside the guard can be counted
LEMMA LiveLoopsFinite ==
    IsFiniteSet(LiveLoops) /\ Cardinality(LiveLoops) \in Nat
  BY StationAssumption, FS_Subset, FS_CardinalityType DEF LiveLoops

\* Stop resets the guard and counts itself, so the loop it forgot is accounted for
LEMMA GuardStop ==
    ASSUME TypeOK, ReconnectGuard, StopBody, LiveLoops' = LiveLoops
    PROVE  ReconnectGuard' /\ GuardHeld'
<1>1. ~reconnecting' /\ stops' = stops + 1
  BY DEF StopBody
<1>2. Cardinality(LiveLoops) <= stops + 1
  BY LiveLoopsFinite DEF ReconnectGuard, TypeOK
<1> QED BY <1>1, <1>2 DEF ReconnectGuard, GuardHeld, TypeOK

\* The two are inductive together with the types: a loop gets in by taking the
\* guard, and every loop that leaves gives it back
THEOREM GuardCorrect == Spec => [](ReconnectGuard /\ GuardHeld)
<1>1. Init => ReconnectGuard /\ GuardHeld
  <2> SUFFICES ASSUME Init PROVE ReconnectGuard /\ GuardHeld
    OBVIOUS
  <2>1. LiveLoops = {}
    BY DEF Init, LiveLoops, Agents
  <2>2. Cardinality(LiveLoops) = 0
    BY <2>1, FS_EmptySet
  <2> QED BY <2>2 DEF Init, ReconnectGuard, GuardHeld
<1>2. TypeOK /\ ReconnectGuard /\ GuardHeld /\ [Next]_vars
        => ReconnectGuard' /\ GuardHeld'
  <2> SUFFICES ASSUME TypeOK, ReconnectGuard, GuardHeld, [Next]_vars
               PROVE  ReconnectGuard' /\ GuardHeld'
    OBVIOUS
  <2>1. CASE UNCHANGED vars
    BY <2>1, GuardFrame DEF vars, structVars, agentVars, LiveLoops
  <2>2. ASSUME NEW a \in Callers, StartCheck(a) PROVE ReconnectGuard' /\ GuardHeld'
    <3>1. LiveLoops' = LiveLoops
      BY <2>2, StationAssumption, Labels, LiveLoopsMove DEF StartCheck, Agents
    <3> QED BY <2>2, <3>1, GuardFrame DEF StartCheck, structVars
  <2>3. ASSUME NEW a \in Callers, StartRenew(a) PROVE ReconnectGuard' /\ GuardHeld'
    <3>1. LiveLoops' = LiveLoops
      BY <2>3, StationAssumption, Labels, LiveLoopsMove DEF StartRenew, Agents
    <3> QED BY <2>3, <3>1, GuardFrame DEF StartRenew, structVars
  <2>4. ASSUME NEW a \in Callers, Stop(a) PROVE ReconnectGuard' /\ GuardHeld'
    <3>1. LiveLoops' = LiveLoops
      BY <2>4 DEF Stop, agentVars, LiveLoops
    <3> QED BY <2>4, <3>1, GuardStop DEF Stop
  <2>5. ASSUME NEW a \in Callers, RestartStop(a) PROVE ReconnectGuard' /\ GuardHeld'
    <3>1. LiveLoops' = LiveLoops
      BY <2>5, StationAssumption, Labels, LiveLoopsMove DEF RestartStop, Agents
    <3> QED BY <2>5, <3>1, GuardStop DEF RestartStop
  <2>6. ASSUME NEW a \in Callers, RestartRenew(a) PROVE ReconnectGuard' /\ GuardHeld'
    <3>1. LiveLoops' = LiveLoops
      BY <2>6, StationAssumption, Labels, LiveLoopsMove DEF RestartRenew, Agents
    <3> QED BY <2>6, <3>1, GuardFrame DEF RestartRenew, structVars
  <2>7. ASSUME NEW a \in Agents, EnterRegister(a) PROVE ReconnectGuard' /\ GuardHeld'
    <3>1. LiveLoops' = LiveLoops
      BY <2>7, Labels, LiveLoopsMove DEF EnterRegister, Agents
    <3> QED BY <2>7, <3>1, GuardFrame DEF EnterRegister, structVars
  <2>8. ASSUME NEW a \in Agents, DialFail(a) PROVE ReconnectGuard' /\ GuardHeld'
    <3>1. LiveLoops' = LiveLoops
      BY <2>8, Labels, LiveLoopsMove DEF DialFail, Failed, Agents
    <3> QED BY <2>8, <3>1, GuardFrame DEF DialFail, structVars
  <2>9. ASSUME NEW a \in Agents, DialOk(a) PROVE ReconnectGuard' /\ GuardHeld'
    <3>1. LiveLoops' = LiveLoops
      BY <2>9, Labels, LiveLoopsMove DEF DialOk, Agents
    <3> QED BY <2>9, <3>1, GuardFrame DEF DialOk, structVars
  <2>10. ASSUME NEW a \in Agents, RegisterSent(a) PROVE ReconnectGuard' /\ GuardHeld'
    <3>1. LiveLoops' = LiveLoops
      BY <2>10, Labels, LiveLoopsMove DEF RegisterSent, Succeeded, Agents
    <3> QED BY <2>10, <3>1, GuardFrame DEF RegisterSent, structVars
  <2>11. ASSUME NEW a \in Agents, RegisterFailed(a) PROVE ReconnectGuard' /\ GuardHeld'
    <3>1. LiveLoops' = LiveLoops
      BY <2>11, Labels, LiveLoopsMove DEF RegisterFailed, Failed, Agents
    <3> QED BY <2>11, <3>1, GuardFrame DEF RegisterFailed, structVars
  <2>12. ASSUME NEW l \in Loops, LoopWins(l) PROVE ReconnectGuard' /\ GuardHeld'
    <3>1. LiveLoops' = LiveLoops \cup {l} /\ l \notin LiveLoops
      BY <2>12 DEF LoopWins, Goto, LiveLoops, TypeOK, Agents
    <3>2. Cardinality(LiveLoops') = Cardinality(LiveLoops) + 1
      BY <3>1, LiveLoopsFinite, FS_AddElement
    <3>3. Cardinality(LiveLoops) <= stops
      BY <2>12 DEF LoopWins, ReconnectGuard, TypeOK
    <3>4. reconnecting' /\ stops' = stops
      BY <2>12 DEF LoopWins
    <3>5. Cardinality(LiveLoops') <= stops' + 1
      BY <3>2, <3>3, <3>4, LiveLoopsFinite DEF TypeOK
    <3> QED BY <3>1, <3>4, <3>5 DEF ReconnectGuard, GuardHeld
  <2>13. ASSUME NEW l \in Loops, LoopSelects(l) PROVE ReconnectGuard' /\ GuardHeld'
    <3>1. LiveLoops' = LiveLoops
      BY <2>13, Labels, LiveLoopsMove DEF LoopSelects, Agents
    <3> QED BY <2>13, <3>1, GuardFrame DEF LoopSelects, structVars
  <2>14. ASSUME NEW l \in Loops, LoopTick(l) PROVE ReconnectGuard' /\ GuardHeld'
    <3>1. LiveLoops' = LiveLoops
      BY <2>14, Labels, LiveLoopsMove DEF LoopTick, Agents
    <3> QED BY <2>14, <3>1, GuardFrame DEF LoopTick, structVars
  <2>15. ASSUME NEW l \in Loops, LoopCancelled(l) PROVE ReconnectGuard' /\ GuardHeld'
    <3>1. LiveLoops' = LiveLoops
      BY <2>15, Labels, LiveLoopsMove DEF LoopCancelled, Agents
    <3> QED BY <2>15, <3>1, GuardFrame DEF LoopCancelled, structVars
  <2>16. ASSUME NEW l \in Loops, LoopExit(l) PROVE ReconnectGuard' /\ GuardHeld'
    <3>1. LiveLoops' = LiveLoops \ {l} /\ l \in LiveLoops
      BY <2>16 DEF LoopExit, Goto, LiveLoops, TypeOK, Agents
    <3>2. Cardinality(LiveLoops') = Cardinality(LiveLoops) - 1
      BY <3>1, LiveLoopsFinite, FS_RemoveElement
    <3>3. Cardinality(LiveLoops) <= stops + 1
      BY LiveLoopsFinite DEF ReconnectGuard, TypeOK
    <3>4. ~reconnecting' /\ stops' = stops
      BY <2>16 DEF LoopExit
    <3>5. Cardinality(LiveLoops') <= stops'
      BY <3>2, <3>3, <3>4, LiveLoopsFinite DEF TypeOK
    <3>6. stops' + (IF reconnecting' THEN 1 ELSE 0) = stops'
      BY <3>4 DEF TypeOK
    <3> QED BY <3>4, <3>5, <3>6 DEF ReconnectGuard, GuardHeld
  <2>17. ASSUME NEW c \in Conns, RecvCheck(c) PROVE ReconnectGuard' /\ GuardHeld'
    BY <2>17, GuardFrame DEF RecvCheck, structVars, agentVars, LiveLoops
  <2>18. ASSUME NEW c \in Conns, RecvLoad(c) PROVE ReconnectGuard' /\ GuardHeld'
    BY <2>18, GuardFrame DEF RecvLoad, structVars, agentVars, LiveLoops
  <2>19. ASSUME NEW c \in Conns, RecvPanic(c) PROVE ReconnectGuard' /\ GuardHeld'
    BY <2>19, GuardFrame DEF RecvPanic, structVars, agentVars, LiveLoops
  <2>20. ASSUME NEW c \in Conns, RecvError(c) PROVE ReconnectGuard' /\ GuardHeld'
    BY <2>20, GuardFrame DEF RecvError, structVars, agentVars, LiveLoops
  <2>21. ASSUME NEW c \in Conns, RecvOther(c) PROVE ReconnectGuard' /\ GuardHeld'
    BY <2>21, GuardFrame DEF RecvOther, structVars, agentVars, LiveLoops
  <2>22. ASSUME NEW c \in Conns, RecvHeader(c) PROVE ReconnectGuard' /\ GuardHeld'
    BY <2>22, GuardFrame DEF RecvHeader, structVars, agentVars, LiveLoops
  <2>23. ASSUME NEW c \in Conns, RecvBody(c) PROVE ReconnectGuard' /\ GuardHeld'
    BY <2>23, GuardFrame DEF RecvBody, structVars, agentVars, LiveLoops
  <2>24. ASSUME NEW c \in Conns, ReplySetId(c) PROVE ReconnectGuard' /\ GuardHeld'
    BY <2>24, GuardFrame DEF ReplySetId, structVars, agentVars, LiveLoops
  <2>25. ASSUME NEW c \in Conns, ReplySetOnline(c) PROVE ReconnectGuard' /\ GuardHeld'
    BY <2>25, GuardFrame DEF ReplySetOnline, structVars, agentVars, LiveLoops
  <2>26. ASSUME NEW c \in Conns, ReplyForceOnline(c) PROVE ReconnectGuard' /\ GuardHeld'
    BY <2>26, GuardFrame DEF ReplyForceOnline, structVars, agentVars, LiveLoops
  <2>27. ASSUME NEW c \in Conns, ReplyForceId(c) PROVE ReconnectGuard' /\ GuardHeld'
    BY <2>27, GuardFrame DEF ReplyForceId, structVars, agentVars, LiveLoops
  <2>28. ASSUME NEW c \in Conns, RecvDisconnect(c) PROVE ReconnectGuard' /\ GuardHeld'
    BY <2>28, GuardFrame DEF RecvDisconnect, structVars, agentVars, LiveLoops
  <2>29. ASSUME NEW c \in Conns, ServerClose(c) PROVE ReconnectGuard' /\ GuardHeld'
    BY <2>29, GuardFrame DEF ServerClose, structVars, agentVars, LiveLoops
  <2>30. CASE WatcherWakes
    BY <2>30, GuardFrame DEF WatcherWakes, structVars, agentVars, LiveLoops
  <2>31. CASE WatcherExpires
    BY <2>31, GuardFrame DEF WatcherExpires, structVars, agentVars, LiveLoops
  <2>32. CASE LoopLoses
    BY <2>32, GuardFrame DEF LoopLoses, structVars, agentVars, LiveLoops
  <2>33. CASE ResendRegister
    BY <2>33, GuardFrame DEF ResendRegister, structVars, agentVars, LiveLoops
  <2>34. ASSUME NEW g \in Gens, HbTick(g) PROVE ReconnectGuard' /\ GuardHeld'
    BY <2>34, GuardFrame DEF HbTick, structVars, agentVars, LiveLoops
  <2>35. ASSUME NEW g \in Gens, HbCancelled(g) PROVE ReconnectGuard' /\ GuardHeld'
    BY <2>35, GuardFrame DEF HbCancelled, structVars, agentVars, LiveLoops
  <2>36. CASE HbSelects
    BY <2>36, GuardFrame DEF HbSelects, structVars, agentVars, LiveLoops
  <2>37. CASE HbSent
    BY <2>37, GuardFrame DEF HbSent, structVars, agentVars, LiveLoops
  <2>38. CASE HbFails
    BY <2>38, GuardFrame DEF HbFails, structVars, agentVars, LiveLoops
  <2>39. CASE HbDisconnect
    BY <2>39, GuardFrame DEF HbDisconnect, structVars, agentVars, LiveLoops
  <2> QED
    BY <2>1, <2>2, <2>3, <2>4, <2>5, <2>6, <2>7, <2>8, <2>9, <2>10, <2>11, <2>12, <2>13, <2>14,
      <2>15, <2>16, <2>17, <2>18, <2>19, <2>20, <2>21, <2>22, <2>23, <2>24, <2>25, <2>26, <2>27,
      <2>28, <2>29, <2>30, <2>31, <2>32, <2>33, <2>34, <2>35, <2>36, <2>37, <2>38, <2>39
    DEF Next, CallerStep, ConnectStep, LoopStep, RecvStep, TimerStep, HbStep
<1> QED BY <1>1, <1>2, TypeCorrect, PTL DEF Spec

\* The guard, with the types it needs
THEOREM GuardInvCorrect == Spec => []GuardInv
BY TypeCorrect, GuardCorrect, PTL DEF GuardInv

-----------------------------------------------------------------------------
(* The current socket.                                                     *)

\* Connection numbers are given out in order, to sockets not closed before
SocketBound == conn <= dials /\ closedL \subseteq 1..dials

\* A step that leaves the sockets alone
LEMMA SocketFrame ==
    ASSUME ConnOpen, SocketBound, UNCHANGED <<conn, closedL, dials>>
    PROVE  ConnOpen' /\ SocketBound'
  BY DEF ConnOpen, SocketBound

\* Closing the current socket clears it
LEMMA SocketDrop ==
    ASSUME TypeOK, SocketBound, DropConn, dials' = dials
    PROVE  ConnOpen' /\ SocketBound'
<1>1. conn' = 0
  BY DEF DropConn
<1>2. closedL' \subseteq 1..dials
  BY DEF DropConn, SocketBound, TypeOK
<1> QED BY <1>1, <1>2 DEF ConnOpen, SocketBound, TypeOK

\* A socket is new when it becomes current, and no longer current once it is closed
THEOREM ConnOpenCorrect == Spec => []ConnOpen
<1>1. Init => ConnOpen /\ SocketBound
  BY DEF Init, ConnOpen, SocketBound
<1>2. TypeOK /\ ConnOpen /\ SocketBound /\ [Next]_vars => ConnOpen' /\ SocketBound'
  <2> SUFFICES ASSUME TypeOK, ConnOpen, SocketBound, [Next]_vars
               PROVE  ConnOpen' /\ SocketBound'
    OBVIOUS
  <2>1. CASE UNCHANGED vars
    BY <2>1, SocketFrame DEF vars, structVars, sockVars
  <2>2. ASSUME NEW a \in Callers, StartCheck(a) PROVE ConnOpen' /\ SocketBound'
    BY <2>2, SocketFrame DEF StartCheck, structVars, sockVars
  <2>3. ASSUME NEW a \in Callers, StartRenew(a) PROVE ConnOpen' /\ SocketBound'
    BY <2>3, SocketFrame DEF StartRenew, structVars, sockVars
  <2>4. ASSUME NEW a \in Callers, Stop(a) PROVE ConnOpen' /\ SocketBound'
    <3>1. DropConn /\ dials' = dials
      BY <2>4 DEF Stop, StopBody
    <3> QED BY <3>1, SocketDrop
  <2>5. ASSUME NEW a \in Callers, RestartStop(a) PROVE ConnOpen' /\ SocketBound'
    <3>1. DropConn /\ dials' = dials
      BY <2>5 DEF RestartStop, StopBody
    <3> QED BY <3>1, SocketDrop
  <2>6. ASSUME NEW a \in Callers, RestartRenew(a) PROVE ConnOpen' /\ SocketBound'
    BY <2>6, SocketFrame DEF RestartRenew, structVars, sockVars
  <2>7. ASSUME NEW a \in Agents, EnterRegister(a) PROVE ConnOpen' /\ SocketBound'
    BY <2>7, SocketFrame DEF EnterRegister, structVars, sockVars
  <2>8. ASSUME NEW a \in Agents, DialFail(a) PROVE ConnOpen' /\ SocketBound'
    BY <2>8, SocketFrame DEF DialFail, structVars, sockVars
  <2>9. ASSUME NEW a \in Agents, DialOk(a) PROVE ConnOpen' /\ SocketBound'
    <3>1. conn' = dials + 1 /\ dials' = dials + 1 /\ closedL' = closedL
      BY <2>9 DEF DialOk
    <3> QED BY <3>1 DEF ConnOpen, SocketBound, TypeOK
  <2>10. ASSUME NEW a \in Agents, RegisterSent(a) PROVE ConnOpen' /\ SocketBound'
    BY <2>10, SocketFrame DEF RegisterSent, structVars, sockVars
  <2>11. ASSUME NEW a \in Agents, RegisterFailed(a) PROVE ConnOpen' /\ SocketBound'
    BY <2>11, SocketFrame DEF RegisterFailed, structVars, sockVars
  <2>12. ASSUME NEW l \in Loops, LoopWins(l) PROVE ConnOpen' /\ SocketBound'
    BY <2>12, SocketFrame DEF LoopWins, structVars, sockVars
  <2>13. ASSUME NEW l \in Loops, LoopSelects(l) PROVE ConnOpen' /\ SocketBound'
    BY <2>13, SocketFrame DEF LoopSelects, structVars, sockVars
  <2>14. ASSUME NEW l \in Loops, LoopTick(l) PROVE ConnOpen' /\ SocketBound'
    BY <2>14, SocketFrame DEF LoopTick, structVars, sockVars
  <2>15. ASSUME NEW l \in Loops, LoopCancelled(l) PROVE ConnOpen' /\ SocketBound'
    BY <2>15, SocketFrame DEF LoopCancelled, structVars, sockVars
  <2>16. ASSUME NEW l \in Loops, LoopExit(l) PROVE ConnOpen' /\ SocketBound'
    BY <2>16, SocketFrame DEF LoopExit, structVars, sockVars
  <2>17. ASSUME NEW c \in Conns, RecvCheck(c) PROVE ConnOpen' /\ SocketBound'
    BY <2>17, SocketFrame DEF RecvCheck, structVars, sockVars
  <2>18. ASSUME NEW c \in Conns, RecvLoad(c) PROVE ConnOpen' /\ SocketBound'
    BY <2>18, SocketFrame DEF RecvLoad, structVars, sockVars
  <2>19. ASSUME NEW c \in Conns, RecvPanic(c) PROVE ConnOpen' /\ SocketBound'
    BY <2>19, SocketFrame DEF RecvPanic, structVars, sockVars
  <2>20. ASSUME NEW c \in Conns, RecvError(c) PROVE ConnOpen' /\ SocketBound'
    BY <2>20, SocketFrame DEF RecvError, structVars, sockVars
  <2>21. ASSUME NEW c \in Conns, RecvOther(c) PROVE ConnOpen' /\ SocketBound'
    BY <2>21, SocketFrame DEF RecvOther, structVars, sockVars
  <2>22. ASSUME NEW c \in Conns, RecvHeader(c) PROVE ConnOpen' /\ SocketBound'
    BY <2>22, SocketFrame DEF RecvHeader, structVars, sockVars
  <2>23. ASSUME NEW c \in Conns, RecvBody(c) PROVE ConnOpen' /\ SocketBound'
    BY <2>23, SocketFrame DEF RecvBody, structVars, sockVars
  <2>24. ASSUME NEW c \in Conns, ReplySetId(c) PROVE ConnOpen' /\ SocketBound'
    BY <2>24, SocketFrame DEF ReplySetId, structVars, sockVars
  <2>25. ASSUME NEW c \in Conns, ReplySetOnline(c) PROVE ConnOpen' /\ SocketBound'
    BY <2>25, SocketFrame DEF ReplySetOnline, structVars, sockVars
  <2>26. ASSUME NEW c \in Conns, ReplyForceOnline(c) PROVE ConnOpen' /\ SocketBound'
    BY <2>26, SocketFrame DEF ReplyForceOnline, structVars, sockVars
  <2>27. ASSUME NEW c \in Conns, ReplyForceId(c) PROVE ConnOpen' /\ SocketBound'
    BY <2>27, SocketFrame DEF ReplyForceId, structVars, sockVars
  <2>28. ASSUME NEW c \in Conns, RecvDisconnect(c) PROVE ConnOpen' /\ SocketBound'
    <3>1. DropConn /\ dials' = dials
      BY <2>28 DEF RecvDisconnect, DisconnectBody
    <3> QED BY <3>1, SocketDrop
  <2>29. ASSUME NEW c \in Conns, ServerClose(c) PROVE ConnOpen' /\ SocketBound'
    BY <2>29, SocketFrame DEF ServerClose, structVars, sockVars
  <2>30. CASE WatcherWakes
    BY <2>30, SocketFrame DEF WatcherWakes, structVars, sockVars
  <2>31. CASE WatcherExpires
    BY <2>31, SocketFrame DEF WatcherExpires, structVars, sockVars
  <2>32. CASE LoopLoses
    BY <2>32, SocketFrame DEF LoopLoses, structVars, sockVars
  <2>33. CASE ResendRegister
    BY <2>33, SocketFrame DEF ResendRegister, structVars, sockVars
  <2>34. ASSUME NEW g \in Gens, HbTick(g) PROVE ConnOpen' /\ SocketBound'
    BY <2>34, SocketFrame DEF HbTick, structVars, sockVars
  <2>35. ASSUME NEW g \in Gens, HbCancelled(g) PROVE ConnOpen' /\ SocketBound'
    BY <2>35, SocketFrame DEF HbCancelled, structVars, sockVars
  <2>36. CASE HbSelects
    BY <2>36, SocketFrame DEF HbSelects, structVars, sockVars
  <2>37. CASE HbSent
    BY <2>37, SocketFrame DEF HbSent, structVars, sockVars
  <2>38. CASE HbFails
    BY <2>38, SocketFrame DEF HbFails, structVars, sockVars
  <2>39. CASE HbDisconnect
    <3>1. DropConn /\ dials' = dials
      BY <2>39 DEF HbDisconnect, DisconnectBody
    <3> QED BY <3>1, SocketDrop
  <2> QED
    BY <2>1, <2>2, <2>3, <2>4, <2>5, <2>6, <2>7, <2>8, <2>9, <2>10, <2>11, <2>12, <2>13, <2>14,
      <2>15, <2>16, <2>17, <2>18, <2>19, <2>20, <2>21, <2>22, <2>23, <2>24, <2>25, <2>26, <2>27,
      <2>28, <2>29, <2>30, <2>31, <2>32, <2>33, <2>34, <2>35, <2>36, <2>37, <2>38, <2>39
    DEF Next, CallerStep, ConnectStep, LoopStep, RecvStep, TimerStep, HbStep
<1> QED BY <1>1, <1>2, TypeCorrect, PTL DEF Spec

-----------------------------------------------------------------------------
(* The receiver and the heartbeat of a station that was never stopped.     *)

\* Only Stop cancels a context
NeverStopped == stops = 0 => cancelled = {}

\* Stop is remembered, and leaves the station offline
LEMMA StopCounts ==
    ASSUME TypeOK, StopBody
    PROVE  stops' # 0 /\ state' # "online"
  BY DEF TypeOK, StopBody

\* A station that was never stopped has its contexts alive: nothing but Stop cancels one
LEMMA OnlyStopCancels == Spec => []NeverStopped
<1>1. Init => NeverStopped
  BY DEF Init, NeverStopped
<1>2. TypeOK /\ NeverStopped /\ [Next]_vars => NeverStopped'
  <2> SUFFICES ASSUME TypeOK, NeverStopped, [Next]_vars PROVE NeverStopped'
    OBVIOUS
  <2>1. ASSUME StopBody PROVE NeverStopped'
    BY <2>1, StopCounts DEF NeverStopped
  <2>2. ASSUME UNCHANGED <<cancelled, stops>> PROVE NeverStopped'
    BY <2>2 DEF NeverStopped
  <2>3. StopBody \/ UNCHANGED <<cancelled, stops>>
    <3> USE DEF structVars
    <3>1. CASE UNCHANGED vars
      BY <3>1 DEF vars
    <3>2. ASSUME NEW a \in Callers, CallerStep(a) PROVE StopBody \/ UNCHANGED <<cancelled, stops>>
      BY <3>2 DEF CallerStep, StartCheck, StartRenew, Stop, RestartStop, RestartRenew
    <3>3. ASSUME NEW a \in Agents, ConnectStep(a) PROVE UNCHANGED <<cancelled, stops>>
      BY <3>3 DEF ConnectStep, EnterRegister, DialFail, DialOk, RegisterSent, RegisterFailed
    <3>4. ASSUME NEW l \in Loops, LoopStep(l) PROVE UNCHANGED <<cancelled, stops>>
      BY <3>4 DEF LoopStep, LoopWins, LoopSelects, LoopTick, LoopCancelled, LoopExit
    <3>5. ASSUME NEW c \in Conns, RecvStep(c) \/ ServerClose(c) PROVE UNCHANGED <<cancelled, stops>>
      BY <3>5 DEF RecvStep, RecvCheck, RecvLoad, RecvPanic, RecvError, RecvOther, RecvHeader,
         RecvBody, ReplySetId, ReplySetOnline, ReplyForceOnline, ReplyForceId,
         RecvDisconnect, ServerClose
    <3>6. CASE TimerStep \/ HbStep
      BY <3>6 DEF TimerStep, WatcherWakes, WatcherExpires, ResendRegister, LoopLoses,
         HbStep, HbTick, HbCancelled, HbSelects, HbSent, HbFails, HbDisconnect
    <3> QED BY <3>1, <3>2, <3>3, <3>4, <3>5, <3>6 DEF Next
  <2> QED BY <2>1, <2>2, <2>3
<1> QED BY <1>1, <1>2, TypeCorrect, PTL DEF Spec

\* A receiveLoop that moves, but neither ends nor enters a read from outside, keeps
\* the current connection read
LEMMA ReadMove ==
    ASSUME TypeOK, CurrentConnRead, NEW c \in Conns, NEW label \in RecvPC, RGoto(c, label),
           label # "off", label \in {"read", "body"} => rpc[c] \in {"read", "body"},
           UNCHANGED <<conn, rconn, stops>>
    PROVE  CurrentConnRead'
<1> SUFFICES ASSUME conn # 0, stops = 0
             PROVE  rpc'[conn] # "off" /\ (rpc'[conn] \in {"read", "body"} => rconn[conn] = conn)
  BY DEF CurrentConnRead
<1>1. rpc[conn] # "off" /\ (rpc[conn] \in {"read", "body"} => rconn[conn] = conn)
  BY DEF CurrentConnRead
<1>2. CASE conn = c
  BY <1>1, <1>2 DEF TypeOK, RGoto
<1>3. CASE conn # c
  <2>1. rpc'[conn] = rpc[conn]
    BY <1>3 DEF TypeOK, RGoto, Conns
  <2> QED BY <1>1, <2>1
<1> QED BY <1>2, <1>3

\* A step that moves no receiver, or that comes after a Stop
LEMMA ReadFrame ==
    ASSUME CurrentConnRead, UNCHANGED <<conn, rpc, rconn>>, stops' = stops \/ stops' # 0
    PROVE  CurrentConnRead'
  BY DEF CurrentConnRead

\* Without a connection there is nothing to read
LEMMA ReadDrop ==
    ASSUME DropConn
    PROVE  CurrentConnRead'
  BY DEF DropConn, CurrentConnRead

\* A receiveLoop looks at s.conn before every frame, so it is on the connection it was
\* spawned for until that connection fails or is replaced
THEOREM CurrentConnReadCorrect == Spec => []CurrentConnRead
<1>1. Init => CurrentConnRead
  BY DEF Init, CurrentConnRead
<1>2. TypeOK /\ NeverStopped /\ CurrentConnRead /\ [Next]_vars => CurrentConnRead'
  <2> SUFFICES ASSUME TypeOK, NeverStopped, CurrentConnRead, [Next]_vars
               PROVE  CurrentConnRead'
    OBVIOUS
  <2>1. CASE UNCHANGED vars
    BY <2>1, ReadFrame DEF vars, structVars, recvVars
  <2>2. ASSUME NEW a \in Callers, StartCheck(a) PROVE CurrentConnRead'
    BY <2>2, ReadFrame DEF StartCheck, structVars, recvVars
  <2>3. ASSUME NEW a \in Callers, StartRenew(a) PROVE CurrentConnRead'
    BY <2>3, ReadFrame DEF StartRenew, structVars, recvVars
  <2>4. ASSUME NEW a \in Callers, Stop(a) PROVE CurrentConnRead'
    <3>1. DropConn
      BY <2>4 DEF Stop, StopBody
    <3> QED BY <3>1, ReadDrop
  <2>5. ASSUME NEW a \in Callers, RestartStop(a) PROVE CurrentConnRead'
    <3>1. DropConn
      BY <2>5 DEF RestartStop, StopBody
    <3> QED BY <3>1, ReadDrop
  <2>6. ASSUME NEW a \in Callers, RestartRenew(a) PROVE CurrentConnRead'
    BY <2>6, ReadFrame DEF RestartRenew, structVars, recvVars
  <2>7. ASSUME NEW a \in Agents, EnterRegister(a) PROVE CurrentConnRead'
    BY <2>7, ReadFrame DEF EnterRegister, structVars, recvVars
  <2>8. ASSUME NEW a \in Agents, DialFail(a) PROVE CurrentConnRead'
    BY <2>8, ReadFrame DEF DialFail, structVars, recvVars
  <2>9. ASSUME NEW a \in Agents, DialOk(a) PROVE CurrentConnRead'
    <3>1. conn' \in Conns /\ rpc'[conn'] = "check"
      BY <2>9, StationAssumption DEF DialOk, RGoto, TypeOK, Conns
    <3> QED BY <3>1 DEF CurrentConnRead
  <2>10. ASSUME NEW a \in Agents, RegisterSent(a) PROVE CurrentConnRead'
    BY <2>10, ReadFrame DEF RegisterSent, structVars, recvVars
  <2>11. ASSUME NEW a \in Agents, RegisterFailed(a) PROVE CurrentConnRead'
    BY <2>11, ReadFrame DEF RegisterFailed, structVars, recvVars
  <2>12. ASSUME NEW l \in Loops, LoopWins(l) PROVE CurrentConnRead'
    BY <2>12, ReadFrame DEF LoopWins, structVars, recvVars
  <2>13. ASSUME NEW l \in Loops, LoopSelects(l) PROVE CurrentConnRead'
    BY <2>13, ReadFrame DEF LoopSelects, structVars, recvVars
  <2>14. ASSUME NEW l \in Loops, LoopTick(l) PROVE CurrentConnRead'
    BY <2>14, ReadFrame DEF LoopTick, structVars, recvVars
  <2>15. ASSUME NEW l \in Loops, LoopCancelled(l) PROVE CurrentConnRead'
    BY <2>15, ReadFrame DEF LoopCancelled, structVars, recvVars
  <2>16. ASSUME NEW l \in Loops, LoopExit(l) PROVE CurrentConnRead'
    BY <2>16, ReadFrame DEF LoopExit, structVars, recvVars
  <2>17. ASSUME NEW c \in Conns, RecvCheck(c) PROVE CurrentConnRead'
    <3>1. CASE ctx \in cancelled \/ conn = 0
      <4>1. conn' = 0 \/ stops' # 0
        BY <2>17, <3>1 DEF RecvCheck, NeverStopped, structVars
      <4> QED BY <4>1 DEF CurrentConnRead
    <3>2. CASE ~(ctx \in cancelled \/ conn = 0)
      <4>1. RGoto(c, "load")
        BY <2>17, <3>2 DEF RecvCheck
      <4> QED BY <2>17, <4>1, Labels, ReadMove DEF RecvCheck, structVars
    <3> QED BY <3>1, <3>2
  <2>18. ASSUME NEW c \in Conns, RecvLoad(c) PROVE CurrentConnRead'
    <3> SUFFICES ASSUME conn # 0, stops = 0
                 PROVE  /\ rpc'[conn] # "off"
                        /\ rpc'[conn] \in {"read", "body"} => rconn'[conn] = conn
      BY <2>18 DEF RecvLoad, CurrentConnRead, structVars
    <3>1. CASE c = conn
      BY <2>18, <3>1 DEF RecvLoad, RGoto, TypeOK, Conns
    <3>2. CASE c # conn
      <4>1. rpc'[conn] = rpc[conn] /\ rconn'[conn] = rconn[conn]
        BY <2>18, <3>2 DEF RecvLoad, RGoto, TypeOK, Conns
      <4> QED BY <4>1 DEF CurrentConnRead
    <3> QED BY <3>1, <3>2
  <2>19. ASSUME NEW c \in Conns, RecvPanic(c) PROVE CurrentConnRead'
    BY <2>19, ReadFrame DEF RecvPanic, structVars, recvVars
  <2>20. ASSUME NEW c \in Conns, RecvError(c) PROVE CurrentConnRead'
    BY <2>20, Labels, ReadMove DEF RecvError, structVars
  <2>21. ASSUME NEW c \in Conns, RecvOther(c) PROVE CurrentConnRead'
    BY <2>21, Labels, ReadMove DEF RecvOther, structVars
  <2>22. ASSUME NEW c \in Conns, RecvHeader(c) PROVE CurrentConnRead'
    BY <2>22, Labels, ReadMove DEF RecvHeader, structVars
  <2>23. ASSUME NEW c \in Conns, RecvBody(c) PROVE CurrentConnRead'
    <3>1. PICK label \in {"setId", "setOnline", "forceOnline", "check"} : RGoto(c, label)
      BY <2>23 DEF RecvBody
    <3> QED BY <2>23, <3>1, Labels, ReadMove DEF RecvBody
  <2>24. ASSUME NEW c \in Conns, ReplySetId(c) PROVE CurrentConnRead'
    BY <2>24, Labels, ReadMove DEF ReplySetId, structVars
  <2>25. ASSUME NEW c \in Conns, ReplySetOnline(c) PROVE CurrentConnRead'
    BY <2>25, Labels, ReadMove DEF ReplySetOnline, structVars
  <2>26. ASSUME NEW c \in Conns, ReplyForceOnline(c) PROVE CurrentConnRead'
    BY <2>26, Labels, ReadMove DEF ReplyForceOnline, structVars
  <2>27. ASSUME NEW c \in Conns, ReplyForceId(c) PROVE CurrentConnRead'
    BY <2>27, Labels, ReadMove DEF ReplyForceId, structVars
  <2>28. ASSUME NEW c \in Conns, RecvDisconnect(c) PROVE CurrentConnRead'
    <3>1. DropConn
      BY <2>28 DEF RecvDisconnect, DisconnectBody
    <3> QED BY <3>1, ReadDrop
  <2>29. ASSUME NEW c \in Conns, ServerClose(c) PROVE CurrentConnRead'
    BY <2>29, ReadFrame DEF ServerClose, structVars, recvVars
  <2>30. CASE WatcherWakes
    BY <2>30, ReadFrame DEF WatcherWakes, structVars, recvVars
  <2>31. CASE WatcherExpires
    BY <2>31, ReadFrame DEF WatcherExpires, structVars, recvVars
  <2>32. CASE LoopLoses
    BY <2>32, ReadFrame DEF LoopLoses, structVars, recvVars
  <2>33. CASE ResendRegister
    BY <2>33, ReadFrame DEF ResendRegister, structVars, recvVars
  <2>34. ASSUME NEW g \in Gens, HbTick(g) PROVE CurrentConnRead'
    BY <2>34, ReadFrame DEF HbTick, structVars, recvVars
  <2>35. ASSUME NEW g \in Gens, HbCancelled(g) PROVE CurrentConnRead'
    BY <2>35, ReadFrame DEF HbCancelled, structVars, recvVars
  <2>36. CASE HbSelects
    BY <2>36, ReadFrame DEF HbSelects, structVars, recvVars
  <2>37. CASE HbSent
    BY <2>37, ReadFrame DEF HbSent, structVars, recvVars
  <2>38. CASE HbFails
    BY <2>38, ReadFrame DEF HbFails, structVars, recvVars
  <2>39. CASE HbDisconnect
    <3>1. DropConn
      BY <2>39 DEF HbDisconnect, DisconnectBody
    <3> QED BY <3>1, ReadDrop
  <2> QED
    BY <2>1, <2>2, <2>3, <2>4, <2>5, <2>6, <2>7, <2>8, <2>9, <2>10, <2>11, <2>12, <2>13, <2>14,
      <2>15, <2>16, <2>17, <2>18, <2>19, <2>20, <2>21, <2>22, <2>23, <2>24, <2>25, <2>26, <2>27,
      <2>28, <2>29, <2>30, <2>31, <2>32, <2>33, <2>34, <2>35, <2>36, <2>37, <2>38, <2>39
    DEF Next, CallerStep, ConnectStep, LoopStep, RecvStep, TimerStep, HbStep
<1> QED BY <1>1, <1>2, TypeCorrect, OnlyStopCancels, PTL DEF Spec

\* The current connection is open and read by its own loop
THEOREM SocketInvCorrect == Spec => []SocketInv
BY ConnOpenCorrect, CurrentConnReadCorrect, PTL DEF SocketInv

\* A connection that was not dialled yet has no receiveLoop
Undialled == \A c \in Conns : c > dials => rpc[c] = "off"

\* Only a receiveLoop that is already running moves
LEMMA UndialledMove ==
    ASSUME TypeOK, Undialled, NEW c \in Conns, rpc[c] # "off",
           \A d \in Conns \ {c} : rpc'[d] = rpc[d], UNCHANGED dials
    PROVE  Undialled'
  BY DEF Undialled

\* A dial gives the new connection its receiveLoop, and no other step starts one
LEMMA ReceiverDialled == Spec => []Undialled
<1>1. Init => Undialled
  BY DEF Init, Undialled
<1>2. TypeOK /\ Undialled /\ [Next]_vars => Undialled'
  <2> SUFFICES ASSUME TypeOK, Undialled, [Next]_vars PROVE Undialled'
    OBVIOUS
  <2>1. ASSUME UNCHANGED <<dials, rpc>> PROVE Undialled'
    BY <2>1 DEF Undialled
  <2>2. ASSUME NEW a \in Agents, DialOk(a) PROVE Undialled'
    BY <2>2 DEF DialOk, RGoto, Undialled, TypeOK, Conns
  <2>3. ASSUME NEW c \in Conns, RecvStep(c) PROVE Undialled'
    <3>1. rpc[c] # "off"
      BY <2>3 DEF RecvStep, RecvCheck, RecvLoad, RecvPanic, RecvError, RecvOther, RecvHeader,
         RecvBody, ReplySetId, ReplySetOnline, ReplyForceOnline, ReplyForceId, RecvDisconnect
    <3>2. dials' = dials
      BY <2>3 DEF RecvStep, RecvCheck, RecvLoad, RecvPanic, RecvError, RecvOther, RecvHeader,
         RecvBody, ReplySetId, ReplySetOnline, ReplyForceOnline, ReplyForceId, RecvDisconnect,
         sockVars
    <3>3. rpc' = rpc \/ \E label \in RecvPC : RGoto(c, label)
      BY <2>3, Labels DEF RecvStep, RecvCheck, RecvLoad, RecvPanic, RecvError, RecvOther,
         RecvHeader, RecvBody, ReplySetId, ReplySetOnline, ReplyForceOnline, ReplyForceId,
         RecvDisconnect, recvVars
    <3>4. \A d \in Conns \ {c} : rpc'[d] = rpc[d]
      BY <3>3 DEF RGoto, TypeOK
    <3> QED BY <3>1, <3>2, <3>4, UndialledMove
  <2>4. CASE UNCHANGED vars
    BY <2>1, <2>4 DEF vars, sockVars, recvVars
  <2>5. ASSUME NEW a \in Callers, CallerStep(a) PROVE UNCHANGED <<dials, rpc>>
    BY <2>5 DEF CallerStep, StartCheck, StartRenew, Stop, RestartStop, RestartRenew,
       sockVars, recvVars
  <2>6. ASSUME NEW a \in Agents, ConnectStep(a) PROVE Undialled'
    BY <2>1, <2>2, <2>6 DEF ConnectStep, EnterRegister, DialFail, RegisterSent, RegisterFailed,
       sockVars, recvVars
  <2>7. ASSUME NEW l \in Loops, LoopStep(l) PROVE UNCHANGED <<dials, rpc>>
    BY <2>7 DEF LoopStep, LoopWins, LoopSelects, LoopTick, LoopCancelled, LoopExit,
       sockVars, recvVars
  <2>8. ASSUME NEW c \in Conns, ServerClose(c) PROVE UNCHANGED <<dials, rpc>>
    BY <2>8 DEF ServerClose, sockVars, recvVars
  <2>9. CASE TimerStep \/ HbStep
    <3>1. UNCHANGED <<dials, rpc>>
      BY <2>9 DEF TimerStep, WatcherWakes, WatcherExpires, ResendRegister, LoopLoses,
         HbStep, HbTick, HbCancelled, HbSelects, HbSent, HbFails, HbDisconnect,
         sockVars, recvVars
    <3> QED BY <2>1, <3>1
  <2> QED BY <2>1, <2>3, <2>4, <2>5, <2>6, <2>7, <2>8, <2>9 DEF Next
<1> QED BY <1>1, <1>2, TypeCorrect, PTL DEF Spec

\* A step that starts no registration and ends no heartbeat loop
LEMMA HeartbeatFrame ==
    ASSUME HeartbeatAlive, stops' = stops, UNCHANGED hbVars,
           state' = state \/ state' # "online",
           \A c \in Conns : rpc[c] = "forceId" => rpc'[c] = "forceId"
    PROVE  HeartbeatAlive'
  BY DEF HeartbeatAlive, hbVars

\* A receiveLoop that is not between the two halves of a forced registration moves
LEMMA ForceIdMove ==
    ASSUME TypeOK, NEW d, NEW label \in RecvPC, RGoto(d, label), rpc[d] # "forceId"
    PROVE  \A c \in Conns : rpc[c] = "forceId" => rpc'[c] = "forceId"
  BY DEF TypeOK, RGoto

\* Every registration starts a loop, and a loop ends only when the station is offline,
\* when it takes the station offline, or on a cancelled context
THEOREM HeartbeatAliveCorrect == Spec => []HeartbeatAlive
<1>1. Init => HeartbeatAlive
  BY DEF Init, HeartbeatAlive
<1>2. TypeOK /\ NeverStopped /\ Undialled /\ HeartbeatAlive /\ [Next]_vars => HeartbeatAlive'
  <2> SUFFICES ASSUME TypeOK, NeverStopped, Undialled, HeartbeatAlive, [Next]_vars
               PROVE  HeartbeatAlive'
    OBVIOUS
  <2>1. CASE UNCHANGED vars
    BY <2>1, HeartbeatFrame DEF vars, structVars, recvVars
  <2>2. ASSUME NEW a \in Callers, StartCheck(a) PROVE HeartbeatAlive'
    BY <2>2, HeartbeatFrame DEF StartCheck, structVars, recvVars
  <2>3. ASSUME NEW a \in Callers, StartRenew(a) PROVE HeartbeatAlive'
    BY <2>3, HeartbeatFrame DEF StartRenew, structVars, recvVars
  <2>4. ASSUME NEW a \in Callers, Stop(a) PROVE HeartbeatAlive'
    BY <2>4, StopCounts DEF Stop, HeartbeatAlive
  <2>5. ASSUME NEW a \in Callers, RestartStop(a) PROVE HeartbeatAlive'
    BY <2>5, StopCounts DEF RestartStop, HeartbeatAlive
  <2>6. ASSUME NEW a \in Callers, RestartRenew(a) PROVE HeartbeatAlive'
    BY <2>6, HeartbeatFrame DEF RestartRenew, structVars, recvVars
  <2>7. ASSUME NEW a \in Agents, EnterRegister(a) PROVE HeartbeatAlive'
    BY <2>7, HeartbeatFrame DEF EnterRegister, structVars, recvVars
  <2>8. ASSUME NEW a \in Agents, DialFail(a) PROVE HeartbeatAlive'
    BY <2>8, HeartbeatFrame DEF DialFail, structVars, recvVars
  <2>9. ASSUME NEW a \in Agents, DialOk(a) PROVE HeartbeatAlive'
    <3>1. \A c \in Conns : rpc[c] = "forceId" => rpc'[c] = "forceId"
      BY <2>9 DEF DialOk, RGoto, Undialled, TypeOK, Conns
    <3> QED BY <2>9, <3>1, HeartbeatFrame DEF DialOk, structVars
  <2>10. ASSUME NEW a \in Agents, RegisterSent(a) PROVE HeartbeatAlive'
    BY <2>10, HeartbeatFrame DEF RegisterSent, structVars, recvVars
  <2>11. ASSUME NEW a \in Agents, RegisterFailed(a) PROVE HeartbeatAlive'
    BY <2>11, HeartbeatFrame DEF RegisterFailed, structVars, recvVars
  <2>12. ASSUME NEW l \in Loops, LoopWins(l) PROVE HeartbeatAlive'
    BY <2>12, HeartbeatFrame DEF LoopWins, structVars, recvVars
  <2>13. ASSUME NEW l \in Loops, LoopSelects(l) PROVE HeartbeatAlive'
    BY <2>13, HeartbeatFrame DEF LoopSelects, structVars, recvVars
  <2>14. ASSUME NEW l \in Loops, LoopTick(l) PROVE HeartbeatAlive'
    BY <2>14, HeartbeatFrame DEF LoopTick, structVars, recvVars
  <2>15. ASSUME NEW l \in Loops, LoopCancelled(l) PROVE HeartbeatAlive'
    BY <2>15, HeartbeatFrame DEF LoopCancelled, structVars, recvVars
  <2>16. ASSUME NEW l \in Loops, LoopExit(l) PROVE HeartbeatAlive'
    BY <2>16, HeartbeatFrame DEF LoopExit, structVars, recvVars
  <2>17. ASSUME NEW c \in Conns, RecvCheck(c) PROVE HeartbeatAlive'
    <3>1. \A d \in Conns : rpc[d] = "forceId" => rpc'[d] = "forceId"
      BY <2>17, Labels, ForceIdMove DEF RecvCheck
    <3> QED BY <2>17, <3>1, HeartbeatFrame DEF RecvCheck, structVars
  <2>18. ASSUME NEW c \in Conns, RecvLoad(c) PROVE HeartbeatAlive'
    <3>1. \A d \in Conns : rpc[d] = "forceId" => rpc'[d] = "forceId"
      BY <2>18, Labels, ForceIdMove DEF RecvLoad
    <3> QED BY <2>18, <3>1, HeartbeatFrame DEF RecvLoad, structVars
  <2>19. ASSUME NEW c \in Conns, RecvPanic(c) PROVE HeartbeatAlive'
    BY <2>19, HeartbeatFrame DEF RecvPanic, structVars, recvVars
  <2>20. ASSUME NEW c \in Conns, RecvError(c) PROVE HeartbeatAlive'
    <3>1. \A d \in Conns : rpc[d] = "forceId" => rpc'[d] = "forceId"
      BY <2>20, Labels, ForceIdMove DEF RecvError
    <3> QED BY <2>20, <3>1, HeartbeatFrame DEF RecvError, structVars
  <2>21. ASSUME NEW c \in Conns, RecvOther(c) PROVE HeartbeatAlive'
    <3>1. \A d \in Conns : rpc[d] = "forceId" => rpc'[d] = "forceId"
      BY <2>21, Labels, ForceIdMove DEF RecvOther
    <3> QED BY <2>21, <3>1, HeartbeatFrame DEF RecvOther, structVars
  <2>22. ASSUME NEW c \in Conns, RecvHeader(c) PROVE HeartbeatAlive'
    <3>1. \A d \in Conns : rpc[d] = "forceId" => rpc'[d] = "forceId"
      BY <2>22, Labels, ForceIdMove DEF RecvHeader
    <3> QED BY <2>22, <3>1, HeartbeatFrame DEF RecvHeader, structVars
  <2>23. ASSUME NEW c \in Conns, RecvBody(c) PROVE HeartbeatAlive'
    <3>1. \A d \in Conns : rpc[d] = "forceId" => rpc'[d] = "forceId"
      BY <2>23, Labels, ForceIdMove DEF RecvBody
    <3> QED BY <2>23, <3>1, HeartbeatFrame DEF RecvBody, structVars
  <2>24. ASSUME NEW c \in Conns, ReplySetId(c) PROVE HeartbeatAlive'
    <3>1. \A d \in Conns : rpc[d] = "forceId" => rpc'[d] = "forceId"
      BY <2>24, Labels, ForceIdMove DEF ReplySetId
    <3> QED BY <2>24, <3>1, HeartbeatFrame DEF ReplySetId, structVars
  <2>25. ASSUME NEW c \in Conns, ReplySetOnline(c) PROVE HeartbeatAlive'
    <3>1. HeartbeatEnabled => hbNew' > 0
      BY <2>25 DEF ReplySetOnline, SpawnHeartbeat, TypeOK
    <3> QED BY <3>1 DEF HeartbeatAlive
  <2>26. ASSUME NEW c \in Conns, ReplyForceOnline(c) PROVE HeartbeatAlive'
    <3>1. rpc'[c] = "forceId"
      BY <2>26 DEF ReplyForceOnline, RGoto, TypeOK
    <3> QED BY <3>1 DEF HeartbeatAlive
  <2>27. ASSUME NEW c \in Conns, ReplyForceId(c) PROVE HeartbeatAlive'
    <3>1. HeartbeatEnabled => hbNew' > 0
      BY <2>27 DEF ReplyForceId, SpawnHeartbeat, TypeOK
    <3> QED BY <3>1 DEF HeartbeatAlive
  <2>28. ASSUME NEW c \in Conns, RecvDisconnect(c) PROVE HeartbeatAlive'
    BY <2>28 DEF RecvDisconnect, DisconnectBody, HeartbeatAlive
  <2>29. ASSUME NEW c \in Conns, ServerClose(c) PROVE HeartbeatAlive'
    BY <2>29, HeartbeatFrame DEF ServerClose, structVars, recvVars
  <2>30. CASE WatcherWakes
    BY <2>30, HeartbeatFrame DEF WatcherWakes, structVars, recvVars
  <2>31. CASE WatcherExpires
    BY <2>31, HeartbeatFrame DEF WatcherExpires, structVars, recvVars
  <2>32. CASE LoopLoses
    BY <2>32, HeartbeatFrame DEF LoopLoses, structVars, recvVars
  <2>33. CASE ResendRegister
    BY <2>33, HeartbeatFrame DEF ResendRegister, structVars, recvVars
  <2>34. ASSUME NEW g \in Gens, HbTick(g) PROVE HeartbeatAlive'
    <3>1. state' = "online" => hbSending' > 0
      BY <2>34 DEF HbTick, structVars, TypeOK
    <3> QED BY <3>1 DEF HeartbeatAlive
  <2>35. ASSUME NEW g \in Gens, HbCancelled(g) PROVE HeartbeatAlive'
    BY <2>35 DEF HbCancelled, NeverStopped, HeartbeatAlive
  <2>36. CASE HbSelects
    <3>1. ctx \in Gens /\ hb'[ctx] > 0
      BY <2>36 DEF HbSelects, TypeOK
    <3> QED BY <3>1 DEF HeartbeatAlive
  <2>37. CASE HbSent
    <3>1. hbNew' > 0
      BY <2>37 DEF HbSent, TypeOK
    <3> QED BY <3>1 DEF HeartbeatAlive
  <2>38. CASE HbFails
    <3>1. hbFailing' > 0
      BY <2>38 DEF HbFails, TypeOK
    <3> QED BY <3>1 DEF HeartbeatAlive
  <2>39. CASE HbDisconnect
    BY <2>39 DEF HbDisconnect, DisconnectBody, HeartbeatAlive
  <2> QED
    BY <2>1, <2>2, <2>3, <2>4, <2>5, <2>6, <2>7, <2>8, <2>9, <2>10, <2>11, <2>12, <2>13, <2>14,
      <2>15, <2>16, <2>17, <2>18, <2>19, <2>20, <2>21, <2>22, <2>23, <2>24, <2>25, <2>26, <2>27,
      <2>28, <2>29, <2>30, <2>31, <2>32, <2>33, <2>34, <2>35, <2>36, <2>37, <2>38, <2>39
    DEF Next, CallerStep, ConnectStep, LoopStep, RecvStep, TimerStep, HbStep
<1> QED BY <1>1, <1>2, TypeCorrect, OnlyStopCancels, ReceiverDialled, PTL DEF Spec

-----------------------------------------------------------------------------
(* The station that is started once and loses connections only at rest.    *)

\* Start is called once, because there is room for one more context, and answered with code 0; a
\* timer fires when all else is done, and the server closes no connection while the station
\* registers or is about to send a heartbeat
OneStart ==
    /\ Ops \subseteq {"start"} /\ MaxGens <= 2 /\ \A a, b \in Callers : a = b
    /\ Replies \subseteq {"ok"} /\ Timely /\ CalmClose

Reading == {"check", "load", "read"}

\* Nothing of what OneStart excludes has happened
Unharmed == cancelled = {} /\ expired = 0 /\ resends = 0 /\ hbFailing = 0 /\ ~crashed

\* One agent at most is under way, and a loop has the guard as long as it is
Driven ==
    /\ \A a, b \in Agents : pc[a] # "off" /\ pc[b] # "off" => a = b
    /\ \A a \in Callers : pc[a] \in {"off", "renew", "enter", "dial", "send"}
    /\ \A l \in Loops : pc[l] \in {"off", "enter", "dial", "send", "exit", "select", "wait"}
    /\ reconnecting <=> \E l \in Loops : pc[l] # "off"

\* The current connection is the last one made, open, and the only one that is read, by its loop
Linked ==
    /\ conn \in {0, dials} /\ conn \notin closedL
    /\ closedL \subseteq 1..dials /\ closedR \subseteq 1..dials
    /\ \A c \in Conns : c > dials => req[c] = 0
    /\ \A c \in Conns : /\ rpc[c] # "off" => c = conn
                        /\ rpc[c] \in {"read", "body", "setId", "setOnline"} => rconn[c] = c

\* Before the call of Start enters connectAndRegister there is nothing yet
Unstarted ==
    state = "idle" =>
        /\ dials = 0 /\ pend = 0 /\ hbNew = 0 /\ hbSending = 0 /\ \A g \in Gens : hb[g] = 0
        /\ \A a \in Agents : pc[a] \in {"off", "renew", "enter"} /\ (pc[a] = "enter" => ctx = 2)
        /\ \A l \in Loops : pc[l] = "off"

\* Afterwards there is no further call
Started == state # "idle" => ctx = 2 /\ \A a \in Callers : pc[a] \notin {"renew", "enter"}

\* How far the registration on the current connection is
Up ==
    conn # 0 =>
        /\ pend = 0
        /\ conn \in closedR => \A a \in Agents : pc[a] = "off"
        /\ rpc[conn] = "disc" => conn \in closedR
        /\ \/ /\ state = "register" /\ devId = 0 /\ req[conn] = 0 /\ rpc[conn] \in Reading
              /\ \E a \in Agents : pc[a] = "send"
           \/ /\ \A a \in Agents : pc[a] \in {"off", "exit"}
              /\ \/ /\ state = "register"
                    /\ \/ rpc[conn] \in Reading /\ req[conn] = 1 /\ devId = 0
                       \/ rpc[conn] \in {"body", "setId"} /\ req[conn] = 0 /\ devId = 0
                       \/ rpc[conn] = "setOnline" /\ req[conn] = 0 /\ devId = conn
                       \/ rpc[conn] = "disc" /\ devId = 0
                 \/ /\ state = "online" /\ devId = conn
                    /\ rpc[conn] \in Reading \cup {"disc"} /\ req[conn] = 0

\* Who will make the next connection
Down ==
    conn = 0 =>
        /\ devId = 0 /\ \A c \in Conns : rpc[c] = "off"
        /\ \/ state = "idle"
           \/ state = "register" /\ pend = 0 /\ \E a \in Agents : pc[a] = "dial"
           \/ /\ state = "reconnect"
              /\ \/ pend = 1 /\ \A a \in Agents : pc[a] = "off"
                 \/ pend = 0 /\ \E l \in Loops : pc[l] = "enter"
                 \/ \E l \in Loops : pc[l] \in {"select", "wait"}

\* A heartbeat is sent by a station that is online and will not lose its connection meanwhile
Beating ==
    hbSending > 0 => state = "online" /\ conn \notin closedR /\ \A a \in Agents : pc[a] = "off"

Peaceful == Unharmed /\ Driven /\ Linked /\ Unstarted /\ Started /\ Up /\ Down /\ Beating

\* Start is not called a second time
LEMMA OneCall ==
    ASSUME OneStart, TypeOK, Driven, NEW a \in Callers, StartCheck(a)
    PROVE  pc[a] = "off" /\ ctx = 1
<1>1. pc[a] = "off" /\ ctx + ContextsDue < MaxGens
  BY DEF StartCheck, Driven
<1>2. IsFiniteSet(Callers)
  <2>1. Callers = {} \/ \E c \in Callers : Callers = {c}
    <3>1. \A c, d \in Callers : c = d
      BY DEF OneStart
    <3> QED BY <3>1
  <2>2. ASSUME NEW c \in Callers, Callers = {c}
        PROVE  IsFiniteSet(Callers)
    BY <2>2, FS_Singleton
  <2> QED BY <2>1, <2>2, FS_EmptySet
<1>3. ContextsDue \in Nat
  BY <1>2, FS_Subset, FS_CardinalityType DEF ContextsDue
<1> QED BY <1>1, <1>3, StationAssumption DEF StationAssumption, OneStart, TypeOK, Gens

\* A station at rest is not registering: its reply is read, or it has lost its connection
LEMMA RestRegistered ==
    ASSUME TypeOK, Driven, Linked, Up, Down, Quiet
    PROVE  state # "register"
<1>1. conn # 0 => conn \in Conns /\ (rpc[conn] = "read" => rconn[conn] = conn)
  BY DEF TypeOK, Conns, Linked
<1>2. \A a \in Agents : pc[a] \in {"off", "wait"}
  BY DEF Quiet
<1>3. conn # 0 => rpc[conn] = "read" /\ req[conn] = 0
  BY <1>1 DEF Quiet, Up, Reading
<1> QED BY <1>2, <1>3 DEF Up, Down

\* What cannot happen: nobody calls Stop or Restart, the registration is sent and answered, no
\* loop reads through a nil conn, and no heartbeat fails
LEMMA Excluded ==
    ASSUME OneStart, TypeOK, Peaceful
    PROVE  /\ \A a \in Callers : ~Stop(a) /\ ~RestartStop(a) /\ ~RestartRenew(a)
           /\ \A a \in Agents : ~RegisterFailed(a)
           /\ \A l \in Loops : ~LoopCancelled(l)
           /\ \A c \in Conns : ~RecvPanic(c) /\ ~ReplyForceOnline(c) /\ ~ReplyForceId(c)
           /\ ~WatcherExpires /\ ~ResendRegister
           /\ \A g \in Gens : ~HbCancelled(g)
           /\ ~HbFails /\ ~HbDisconnect
<1>1. \A a \in Callers : ~Stop(a) /\ ~RestartStop(a) /\ ~RestartRenew(a)
  BY DEF OneStart, Peaceful, Driven, Stop, RestartStop, RestartRenew
<1>2. \A a \in Agents : ~RegisterFailed(a)
  BY DEF Peaceful, Driven, Linked, Up, Down, Unstarted, RegisterFailed, MayFailWrite, Agents, TypeOK
<1>3. /\ \A l \in Loops : ~LoopCancelled(l)
      /\ \A g \in Gens : ~HbCancelled(g)
  BY DEF Peaceful, Unharmed, LoopCancelled, HbCancelled
<1>4. \A c \in Conns : ~RecvPanic(c)
  BY DEF Peaceful, Down, RecvPanic
<1>5. \A c \in Conns : ~ReplyForceOnline(c) /\ ~ReplyForceId(c)
  BY DEF Peaceful, Linked, Up, Down, Reading, ReplyForceOnline, ReplyForceId
<1>6. ~WatcherExpires /\ ~ResendRegister /\ ~HbDisconnect
  BY DEF Peaceful, Unharmed, WatcherExpires, ResendRegister, HbDisconnect
<1>7. ~HbFails
  BY DEF Peaceful, Linked, Down, Beating, HbFails, MayFailWrite
<1> QED BY <1>1, <1>2, <1>3, <1>4, <1>5, <1>6, <1>7

\* The one call of Start
LEMMA CallPeaceful ==
    ASSUME OneStart, TypeOK, Peaceful, NEW a \in Callers, CallerStep(a)
    PROVE  Peaceful'
<1>1. CASE StartCheck(a)
  <2>1. pc[a] = "off" /\ ctx = 1 /\ state = "idle"
    BY <1>1, OneCall DEF Peaceful, Started
  <2>2. pc' = [pc EXCEPT ![a] = "renew"]
    BY <1>1, <2>1 DEF StartCheck, Goto
  <2>3. /\ \A l \in Loops : pc[l] = "off" /\ l # a
        /\ \A b \in Callers : b = a
    BY <2>1, StationAssumption DEF Peaceful, Unstarted, OneStart, StationAssumption
  <2>4. pc'[a] = "renew" /\ \A b \in Agents : b # a => pc'[b] = "off"
    BY <2>2, <2>3 DEF TypeOK, Agents, AgentPC
  <2>5. Driven'
    BY <1>1, <2>3, <2>4 DEF Peaceful, Driven, StartCheck, structVars, Agents
  <2>6. Unstarted'
    BY <1>1, <2>1, <2>3, <2>4
       DEF Peaceful, Unstarted, StartCheck, structVars, hbVars, sockVars, Agents
  <2>7. Started' /\ Up' /\ Down' /\ Beating'
    BY <1>1, <2>1 DEF Peaceful, Linked, Started, Up, Down, Unstarted, Beating, StartCheck,
       structVars, recvVars, hbVars, sockVars
  <2>8. Unharmed' /\ Linked'
    BY <1>1 DEF Peaceful, Unharmed, Linked, StartCheck, structVars, recvVars, timerVars, hbVars,
       sockVars
  <2> QED BY <2>5, <2>6, <2>7, <2>8 DEF Peaceful
<1>2. CASE StartRenew(a)
  <2>1. Driven'
    BY <1>2 DEF Peaceful, Driven, StartRenew, Goto
  <2>2. ctx' = 2
    BY <1>2, StationAssumption DEF StationAssumption, OneStart, TypeOK, Gens, StartRenew
  <2>3. Unstarted'
    BY <1>2, <2>2 DEF Peaceful, Unstarted, StartRenew, Goto, TypeOK, Agents, sockVars, hbVars
  <2>4. Started'
    BY <1>2 DEF Peaceful, Started, StartRenew
  <2>5. Up'
    BY <1>2 DEF Peaceful, Up, StartRenew, Goto, recvVars, sockVars
  <2>6. Down'
    BY <1>2 DEF Peaceful, Down, StartRenew, Goto, recvVars
  <2>7. Beating'
    BY <1>2 DEF Peaceful, Beating, StartRenew, Goto, hbVars, sockVars
  <2>8. Unharmed' /\ Linked'
    BY <1>2 DEF Peaceful, Unharmed, Linked, StartRenew, recvVars, timerVars, hbVars, sockVars
  <2> QED BY <2>1, <2>3, <2>4, <2>5, <2>6, <2>7, <2>8 DEF Peaceful
<1> QED BY <1>1, <1>2, Excluded DEF CallerStep

\* connectAndRegister: the one agent under way dials, and registers on what it dialled
LEMMA ConnectPeaceful ==
    ASSUME OneStart, TypeOK, Peaceful, NEW a \in Agents, ConnectStep(a)
    PROVE  Peaceful'
<1>1. CASE EnterRegister(a)
  <2>1. Driven'
    BY <1>1 DEF Peaceful, Driven, EnterRegister, Goto
  <2>2. Unstarted'
    BY <1>1 DEF Peaceful, Unstarted, EnterRegister
  <2>3. Started'
    BY <1>1 DEF Peaceful, Driven, Unstarted, Started, TypeOK, Agents, EnterRegister, Goto
  <2>4. Up'
    BY <1>1 DEF Peaceful, Up, EnterRegister, Goto, recvVars, sockVars
  <2>5. Down'
    BY <1>1 DEF Peaceful, Driven, Unstarted, Down, TypeOK, Agents, EnterRegister, Goto, recvVars
  <2>6. Beating'
    BY <1>1 DEF Peaceful, Beating, EnterRegister, hbVars
  <2>7. Unharmed' /\ Linked'
    BY <1>1 DEF Peaceful, Unharmed, Linked, EnterRegister, recvVars, timerVars, hbVars, sockVars
  <2> QED BY <2>1, <2>2, <2>3, <2>4, <2>5, <2>6, <2>7 DEF Peaceful
<1>2. CASE DialFail(a)
  <2>1. Driven'
    BY <1>2, StationAssumption DEF Peaceful, Driven, DialFail, Goto, Failed, StationAssumption
  <2>2. Unstarted'
    BY <1>2 DEF Peaceful, Unstarted, DialFail
  <2>3. Started'
    BY <1>2 DEF Peaceful, Unstarted, Started, DialFail, Goto, Failed
  <2>4. Up'
    BY <1>2 DEF Peaceful, Driven, Up, DialFail
  <2>5. Down'
    BY <1>2 DEF Peaceful, Driven, Unstarted, Down, TypeOK, DialFail, Goto, SpawnReconnect,
       Failed, recvVars
  <2>6. Beating'
    BY <1>2 DEF Peaceful, Beating, DialFail, hbVars
  <2>7. Unharmed' /\ Linked'
    BY <1>2 DEF Peaceful, Unharmed, Linked, DialFail, recvVars, timerVars, hbVars, sockVars
  <2> QED BY <2>1, <2>2, <2>3, <2>4, <2>5, <2>6, <2>7 DEF Peaceful
<1>3. CASE DialOk(a)
  <2>1. Driven'
    BY <1>3 DEF Peaceful, Driven, DialOk, Goto
  <2>2. pc[a] = "dial" /\ conn' = dials + 1 /\ dials' = dials + 1
    BY <1>3 DEF DialOk
  <2>3. conn' \in Conns /\ dials \in Nat
    BY <1>3, StationAssumption DEF StationAssumption, DialOk, TypeOK, Conns
  <2>4. conn = 0 /\ \A c \in Conns : rpc[c] = "off"
    BY <2>2 DEF Peaceful, Driven, Up, Down
  <2>5. rpc' = [rpc EXCEPT ![conn'] = "check"]
    BY <1>3, <2>2 DEF DialOk, RGoto
  <2>6. \A c \in Conns : /\ rpc'[c] # "off" => c = conn'
                         /\ rpc'[c] \notin {"read", "body", "setId", "setOnline"}
    BY <2>3, <2>4, <2>5 DEF TypeOK
  <2>7. /\ closedL \subseteq 1..(dials + 1) /\ closedR \subseteq 1..(dials + 1)
        /\ dials + 1 \notin closedL /\ \A c \in Conns : c > dials + 1 => req[c] = 0
    BY <2>3 DEF Peaceful, Linked, Conns
  <2>8. Linked'
    BY <1>3, <2>2, <2>3, <2>6, <2>7 DEF Linked, DialOk
  <2>9. Unstarted'
    BY <1>3 DEF Peaceful, Unstarted, DialOk
  <2>10. Started'
    BY <1>3 DEF Peaceful, Started, DialOk, Goto
  <2>11. state' = "register" /\ pend' = 0 /\ devId' = 0
    BY <1>3, <2>2, <2>4 DEF Peaceful, Driven, Unstarted, Down, DialOk, Agents
  <2>12. rpc'[conn'] = "check" /\ req'[conn'] = 0 /\ conn' \notin closedR'
    <3>1. dials + 1 > dials /\ dials + 1 \notin 1..dials
      BY <2>3
    <3>2. req[conn'] = 0 /\ conn' \notin closedR
      BY <2>2, <2>3, <3>1 DEF Peaceful, Linked
    <3> QED BY <1>3, <2>3, <2>5, <3>2 DEF DialOk, TypeOK
  <2>13. a \in Agents /\ pc'[a] = "send"
    BY <1>3 DEF DialOk, Goto, TypeOK
  <2>14. Up'
    BY <2>11, <2>12, <2>13 DEF Up, Reading
  <2>15. Down'
    BY <1>3 DEF Peaceful, Down, TypeOK, DialOk
  <2>16. Beating'
    BY <1>3 DEF Peaceful, Beating, DialOk, hbVars
  <2>17. Unharmed'
    BY <1>3 DEF Peaceful, Unharmed, DialOk, timerVars, hbVars
  <2> QED BY <2>1, <2>8, <2>9, <2>10, <2>14, <2>15, <2>16, <2>17 DEF Peaceful
<1>4. CASE RegisterSent(a)
  <2>1. Driven'
    BY <1>4, StationAssumption DEF Peaceful, Driven, RegisterSent, Goto, Succeeded, structVars,
       StationAssumption
  <2>2. Linked'
    BY <1>4 DEF Peaceful, Linked, RegisterSent, Connected, structVars, recvVars
  <2>3. Unstarted'
    BY <1>4 DEF Peaceful, Unstarted, RegisterSent, structVars
  <2>4. Started'
    BY <1>4 DEF Peaceful, Started, RegisterSent, Goto, Succeeded, structVars
  <2>5. Up'
    BY <1>4 DEF Peaceful, Driven, Up, TypeOK, Conns, RegisterSent, Goto, Succeeded, structVars,
       recvVars
  <2>6. Down'
    BY <1>4 DEF Peaceful, Down, RegisterSent, Goto, structVars, recvVars
  <2>7. Beating'
    BY <1>4 DEF Peaceful, Beating, RegisterSent, hbVars
  <2>8. Unharmed'
    BY <1>4 DEF Peaceful, Unharmed, RegisterSent, structVars, hbVars
  <2> QED BY <2>1, <2>2, <2>3, <2>4, <2>5, <2>6, <2>7, <2>8 DEF Peaceful
<1> QED BY <1>1, <1>2, <1>3, <1>4, Excluded DEF ConnectStep

\* A reconnect loop begins, waits or ends
LEMMA LoopPeaceful ==
    ASSUME OneStart, TypeOK, Peaceful, NEW l \in Loops, LoopStep(l)
    PROVE  Peaceful'
<1>1. CASE LoopWins(l)
  <2>1. Driven'
    BY <1>1 DEF Peaceful, Driven, Unstarted, Up, Down, TypeOK, Agents, LoopWins, Goto
  <2>2. Unstarted'
    BY <1>1 DEF Peaceful, Unstarted, LoopWins
  <2>3. Started'
    BY <1>1, StationAssumption DEF Peaceful, Started, LoopWins, Goto, StationAssumption
  <2>4. Up'
    BY <1>1 DEF Peaceful, Up, LoopWins
  <2>5. Down'
    BY <1>1 DEF Peaceful, Down, TypeOK, Agents, LoopWins, Goto, recvVars
  <2>6. Beating'
    BY <1>1 DEF Peaceful, Up, Down, Beating, LoopWins, hbVars
  <2>7. Unharmed' /\ Linked'
    BY <1>1 DEF Peaceful, Unharmed, Linked, LoopWins, recvVars, timerVars, hbVars, sockVars
  <2> QED BY <2>1, <2>2, <2>3, <2>4, <2>5, <2>6, <2>7 DEF Peaceful
<1>2. CASE LoopSelects(l)
  <2>1. Driven'
    BY <1>2 DEF Peaceful, Driven, LoopSelects, Goto, structVars
  <2>2. Unstarted'
    BY <1>2 DEF Peaceful, Unstarted, LoopSelects, structVars
  <2>3. Started'
    BY <1>2 DEF Peaceful, Started, LoopSelects, Goto, structVars
  <2>4. Up'
    BY <1>2 DEF Peaceful, Up, LoopSelects, Goto, structVars, recvVars, sockVars
  <2>5. Down'
    BY <1>2 DEF Peaceful, Down, LoopSelects, Goto, structVars, recvVars
  <2>6. Beating'
    BY <1>2 DEF Peaceful, Beating, LoopSelects, Goto, structVars, hbVars, sockVars
  <2>7. Unharmed' /\ Linked'
    BY <1>2 DEF Peaceful, Unharmed, Linked, LoopSelects, structVars, recvVars, timerVars, hbVars,
       sockVars
  <2> QED BY <2>1, <2>2, <2>3, <2>4, <2>5, <2>6, <2>7 DEF Peaceful
<1>3. CASE LoopTick(l)
  <2>1. Driven'
    BY <1>3 DEF Peaceful, Driven, LoopTick, Goto, structVars
  <2>2. Unstarted'
    BY <1>3 DEF Peaceful, Unstarted, LoopTick, structVars
  <2>3. Started'
    BY <1>3 DEF Peaceful, Driven, Started, LoopTick, Goto, structVars
  <2>4. Up'
    BY <1>3 DEF Peaceful, Up, LoopTick, Goto, structVars, recvVars, sockVars
  <2>5. Down'
    BY <1>3 DEF Peaceful, Down, OneStart, LoopTick, Goto, TimerFires, Quiet, structVars, recvVars
  <2>6. Beating'
    BY <1>3 DEF Peaceful, Beating, LoopTick, Goto, structVars, hbVars, sockVars
  <2>7. Unharmed' /\ Linked'
    BY <1>3 DEF Peaceful, Unharmed, Linked, LoopTick, structVars, recvVars, timerVars, hbVars,
       sockVars
  <2> QED BY <2>1, <2>2, <2>3, <2>4, <2>5, <2>6, <2>7 DEF Peaceful
<1>4. CASE LoopExit(l)
  <2>1. Driven'
    BY <1>4 DEF Peaceful, Driven, TypeOK, Agents, LoopExit, Goto
  <2>2. Unstarted'
    BY <1>4 DEF Peaceful, Unstarted, LoopExit
  <2>3. Started'
    BY <1>4 DEF Peaceful, Started, LoopExit, Goto
  <2>4. Up'
    BY <1>4 DEF Peaceful, Up, LoopExit, Goto, recvVars, sockVars
  <2>5. Down'
    BY <1>4 DEF Peaceful, Down, LoopExit, Goto, recvVars
  <2>6. Beating'
    BY <1>4 DEF Peaceful, Beating, LoopExit, Goto, hbVars, sockVars
  <2>7. Unharmed' /\ Linked'
    BY <1>4 DEF Peaceful, Unharmed, Linked, LoopExit, recvVars, timerVars, hbVars, sockVars
  <2> QED BY <2>1, <2>2, <2>3, <2>4, <2>5, <2>6, <2>7 DEF Peaceful
<1> QED BY <1>1, <1>2, <1>3, <1>4, Excluded DEF LoopStep

\* The loop of the current connection moves on
LEMMA ReceiverLinked ==
    ASSUME TypeOK, Linked, NEW c \in Conns, NEW label \in RecvPC, RGoto(c, label),
           rpc[c] # "off", label \in {"read", "body", "setId", "setOnline"} => rconn'[c] = c,
           \A d \in Conns : d # c => rconn'[d] = rconn[d],
           UNCHANGED <<conn, dials, closedL, closedR>>,
           \A d \in Conns : req[d] = 0 => req'[d] = 0
    PROVE  Linked'
<1>1. rpc'[c] = label /\ \A d \in Conns : d # c => rpc'[d] = rpc[d]
  BY DEF RGoto, TypeOK
<1>2. \A d \in Conns : d > dials => req'[d] = 0
  BY DEF Linked
<1>3. ASSUME NEW d \in Conns
      PROVE  /\ rpc'[d] # "off" => d = conn
             /\ rpc'[d] \in {"read", "body", "setId", "setOnline"} => rconn'[d] = d
  BY <1>1 DEF Linked
<1> QED BY <1>2, <1>3 DEF Linked

\* The receive loop reads the reply of its connection, or loses the connection
LEMMA ReceivePeaceful ==
    ASSUME OneStart, TypeOK, Peaceful, NEW c \in Conns, RecvStep(c)
    PROVE  Peaceful'
<1>1. CASE RecvCheck(c)
  <2>1. Linked'
    BY <1>1, Labels, ReceiverLinked DEF Peaceful, Linked, RecvCheck, structVars, agentVars,
       timerVars, hbVars, sockVars
  <2>2. Up'
    BY <1>1 DEF Peaceful, Unharmed, Up, Reading, RecvCheck, RGoto, structVars, agentVars,
       sockVars
  <2>3. Down'
    BY <1>1 DEF Peaceful, Down, RecvCheck, structVars
  <2>4. Unharmed' /\ Driven' /\ Unstarted' /\ Started' /\ Beating'
    BY <1>1 DEF Peaceful, Unharmed, Driven, Unstarted, Started, Beating, RecvCheck, structVars,
       agentVars, timerVars, hbVars, sockVars
  <2> QED BY <2>1, <2>2, <2>3, <2>4 DEF Peaceful
<1>2. CASE RecvLoad(c)
  <2>1. c = conn /\ rconn' = [rconn EXCEPT ![c] = conn]
    BY <1>2 DEF Peaceful, Linked, RecvLoad
  <2>2. rconn'[c] = c /\ \A d \in Conns : d # c => rconn'[d] = rconn[d]
    BY <2>1 DEF TypeOK
  <2>3. Linked'
    BY <1>2, <2>1, <2>2, Labels, ReceiverLinked
       DEF Peaceful, RecvLoad, structVars, sockVars
  <2>4. Up'
    BY <1>2 DEF Peaceful, Up, Reading, RecvLoad, RGoto, structVars, agentVars, sockVars
  <2>5. Down'
    BY <1>2 DEF Peaceful, Down, RecvLoad, structVars
  <2>6. Unharmed' /\ Driven' /\ Unstarted' /\ Started' /\ Beating'
    BY <1>2 DEF Peaceful, Unharmed, Driven, Unstarted, Started, Beating, RecvLoad, structVars,
       agentVars, timerVars, hbVars, sockVars
  <2> QED BY <2>3, <2>4, <2>5, <2>6 DEF Peaceful
<1>3. CASE RecvError(c)
  <2>1. Linked'
    BY <1>3, Labels, ReceiverLinked DEF Peaceful, Linked, RecvError, Broken, structVars,
       agentVars, timerVars, hbVars, sockVars
  <2>2. Up'
    BY <1>3 DEF Peaceful, Linked, Up, RecvError, RGoto, Broken, structVars, agentVars, sockVars
  <2>3. Down'
    BY <1>3 DEF Peaceful, Down, RecvError, structVars
  <2>4. Unharmed' /\ Driven' /\ Unstarted' /\ Started' /\ Beating'
    BY <1>3 DEF Peaceful, Unharmed, Driven, Unstarted, Started, Beating, RecvError, structVars,
       agentVars, timerVars, hbVars, sockVars
  <2> QED BY <2>1, <2>2, <2>3, <2>4 DEF Peaceful
<1>4. CASE RecvOther(c)
  <2>1. Linked'
    BY <1>4, Labels, ReceiverLinked DEF Peaceful, Linked, RecvOther, structVars, agentVars,
       timerVars, hbVars, sockVars
  <2>2. Up'
    BY <1>4 DEF Peaceful, Up, Reading, RecvOther, RGoto, structVars, agentVars, sockVars
  <2>3. Down'
    BY <1>4 DEF Peaceful, Down, RecvOther, structVars
  <2>4. Unharmed' /\ Driven' /\ Unstarted' /\ Started' /\ Beating'
    BY <1>4 DEF Peaceful, Unharmed, Driven, Unstarted, Started, Beating, RecvOther, structVars,
       agentVars, timerVars, hbVars, sockVars
  <2> QED BY <2>1, <2>2, <2>3, <2>4 DEF Peaceful
<1>5. CASE RecvHeader(c)
  <2>1. Linked'
    BY <1>5, Labels, ReceiverLinked DEF Peaceful, Linked, RecvHeader, structVars, agentVars,
       timerVars, hbVars
  <2>2. Up'
    BY <1>5 DEF Peaceful, Linked, Up, TypeOK, RecvHeader, RGoto, structVars, agentVars
  <2>3. Down'
    BY <1>5 DEF Peaceful, Down, RecvHeader, structVars
  <2>4. Unharmed' /\ Driven' /\ Unstarted' /\ Started' /\ Beating'
    BY <1>5 DEF Peaceful, Unharmed, Driven, Unstarted, Started, Beating, RecvHeader, structVars,
       agentVars, timerVars, hbVars
  <2> QED BY <2>1, <2>2, <2>3, <2>4 DEF Peaceful
<1>6. CASE RecvBody(c)
  <2>1. Unharmed'
    BY <1>6 DEF Peaceful, Unharmed, OneStart, RecvBody, hbVars
  <2>2. Linked'
    BY <1>6, Labels, ReceiverLinked DEF Peaceful, Linked, RecvBody, Connected, agentVars, hbVars,
       sockVars
  <2>3. Unstarted'
    BY <1>6 DEF Peaceful, Unstarted, OneStart, RecvBody, agentVars, hbVars, sockVars
  <2>4. Started'
    BY <1>6 DEF Peaceful, Started, RecvBody, agentVars
  <2>6. c = conn /\ rconn[c] = conn /\ rpc'[conn] = "setId" /\ state' = state
    BY <1>6 DEF Peaceful, Linked, RecvBody, RGoto, OneStart, TypeOK
  <2>7. Up'
    BY <1>6, <2>6 DEF Peaceful, Up, Reading, RecvBody, agentVars, sockVars
  <2>8. Down'
    BY <1>6 DEF Peaceful, Down, RecvBody
  <2>9. Beating'
    BY <1>6 DEF Peaceful, Linked, Up, Beating, Reading, RecvBody, Connected, hbVars
  <2>10. Driven'
    BY <1>6 DEF Peaceful, Driven, RecvBody, agentVars
  <2> QED BY <2>1, <2>2, <2>3, <2>4, <2>7, <2>8, <2>9, <2>10 DEF Peaceful
<1>7. CASE ReplySetId(c)
  <2>1. Linked'
    BY <1>7, Labels, ReceiverLinked DEF Peaceful, Linked, ReplySetId, agentVars, timerVars,
       hbVars, sockVars
  <2>2. Up'
    BY <1>7 DEF Peaceful, Linked, Up, TypeOK, Reading, ReplySetId, RGoto, agentVars, sockVars
  <2>3. Down'
    BY <1>7 DEF Peaceful, Down, ReplySetId
  <2>4. Unharmed' /\ Driven' /\ Unstarted' /\ Started' /\ Beating'
    BY <1>7 DEF Peaceful, Unharmed, Driven, Unstarted, Started, Beating, ReplySetId, agentVars,
       timerVars, hbVars, sockVars
  <2> QED BY <2>1, <2>2, <2>3, <2>4 DEF Peaceful
<1>8. CASE ReplySetOnline(c)
  <2>1. Linked'
    BY <1>8, Labels, ReceiverLinked DEF Peaceful, Linked, ReplySetOnline, HeaderFallback,
       SpawnHeartbeat, agentVars, timerVars, hbVars, sockVars
  <2>2. Unstarted'
    BY <1>8 DEF Peaceful, Unstarted, ReplySetOnline
  <2>3. Started'
    BY <1>8 DEF Peaceful, Started, Up, Down, ReplySetOnline, agentVars
  <2>4. Up'
    BY <1>8 DEF Peaceful, Linked, Up, TypeOK, Reading, ReplySetOnline, RGoto, HeaderFallback,
       agentVars, sockVars
  <2>5. Down'
    BY <1>8 DEF Peaceful, Down, ReplySetOnline
  <2>6. Beating'
    BY <1>8 DEF Peaceful, Beating, ReplySetOnline, agentVars, sockVars
  <2>7. Unharmed' /\ Driven'
    BY <1>8 DEF Peaceful, Unharmed, Driven, ReplySetOnline, agentVars, timerVars
  <2> QED BY <2>1, <2>2, <2>3, <2>4, <2>5, <2>6, <2>7 DEF Peaceful
<1>9. CASE RecvDisconnect(c)
  <2>1. c = conn /\ \A d \in Conns : d # c => rpc[d] = "off"
    BY <1>9 DEF Peaceful, Linked, RecvDisconnect
  <2>2. rpc' \in [Conns -> RecvPC] /\ \A d \in Conns : rpc'[d] = "off"
    BY <1>9, <2>1, Labels DEF RecvDisconnect, RGoto, TypeOK
  <2>3. conn' = 0 /\ closedL' \subseteq 1..dials /\ 0 \notin closedL'
    BY <1>9, <2>1 DEF Peaceful, Linked, RecvDisconnect, DisconnectBody, DropConn, TypeOK, Conns
  <2>4. Linked'
    BY <1>9, <2>2, <2>3 DEF Peaceful, Linked, RecvDisconnect
  <2>5. Unstarted'
    BY <1>9 DEF Peaceful, Unstarted, RecvDisconnect, DisconnectBody
  <2>6. Started'
    BY <1>9 DEF Peaceful, Started, Up, Down, RecvDisconnect, agentVars
  <2>7. Up'
    BY <1>9 DEF Peaceful, Up, RecvDisconnect, DisconnectBody, DropConn
  <2>8. Down'
    BY <1>9 DEF Peaceful, Linked, Up, Down, TypeOK, RecvDisconnect, RGoto, DisconnectBody,
       SpawnReconnect, agentVars
  <2>9. Beating'
    BY <1>9 DEF Peaceful, Linked, Up, Down, Beating, RecvDisconnect, hbVars
  <2>10. Unharmed' /\ Driven'
    BY <1>9 DEF Peaceful, Unharmed, Driven, RecvDisconnect, agentVars, timerVars, hbVars
  <2> QED BY <2>4, <2>5, <2>6, <2>7, <2>8, <2>9, <2>10 DEF Peaceful
<1> QED BY <1>1, <1>2, <1>3, <1>4, <1>5, <1>6, <1>7, <1>8, <1>9, Excluded DEF RecvStep

\* A watcher wakes up at rest and finds the station registered or lost
LEMMA TimerPeaceful ==
    ASSUME OneStart, TypeOK, Peaceful, TimerStep
    PROVE  Peaceful'
<1>1. CASE WatcherWakes
  <2>1. state # "register"
    BY <1>1, RestRegistered DEF Peaceful, WatcherWakes, TimerFires, OneStart
  <2>2. Unharmed'
    BY <1>1, <2>1 DEF Peaceful, Unharmed, WatcherWakes, structVars, hbVars
  <2>3. Driven' /\ Linked' /\ Unstarted' /\ Started' /\ Up' /\ Down' /\ Beating'
    BY <1>1 DEF Peaceful, Driven, Linked, Unstarted, Started, Up, Down, Beating, WatcherWakes,
       structVars, agentVars, recvVars, hbVars, sockVars
  <2> QED BY <2>2, <2>3 DEF Peaceful
<1>2. CASE LoopLoses
  <2>1. Unstarted'
    BY <1>2 DEF Peaceful, Unstarted, LoopLoses, structVars
  <2>2. Up'
    BY <1>2 DEF Peaceful, Up, LoopLoses, structVars
  <2>3. Down'
    BY <1>2 DEF Peaceful, Driven, Down, Agents, LoopLoses, structVars, agentVars, recvVars
  <2>4. Unharmed' /\ Driven' /\ Linked' /\ Started' /\ Beating'
    BY <1>2 DEF Peaceful, Unharmed, Driven, Linked, Started, Beating, LoopLoses, structVars,
       agentVars, recvVars, timerVars, hbVars, sockVars
  <2> QED BY <2>1, <2>2, <2>3, <2>4 DEF Peaceful
<1> QED BY <1>1, <1>2, Excluded DEF TimerStep

\* A heartbeat is sent at rest, on a connection that is open
LEMMA HeartbeatPeaceful ==
    ASSUME OneStart, TypeOK, Peaceful, HbStep
    PROVE  Peaceful'
<1>1. ASSUME NEW g \in Gens, HbTick(g)
      PROVE  Peaceful'
  <2>1. Unstarted'
    BY <1>1 DEF Peaceful, Unstarted, HbTick, structVars
  <2>2. Beating'
    BY <1>1 DEF Peaceful, Linked, Up, Down, Beating, OneStart, TypeOK, Reading, HbTick,
       TimerFires, Quiet, Broken, structVars, agentVars, sockVars
  <2>3. Unharmed' /\ Driven' /\ Linked' /\ Started' /\ Up' /\ Down'
    BY <1>1 DEF Peaceful, Unharmed, Driven, Linked, Started, Up, Down, HbTick, structVars,
       agentVars, recvVars, timerVars, sockVars
  <2> QED BY <2>1, <2>2, <2>3 DEF Peaceful
<1>2. CASE HbSelects
  <2>1. Unstarted'
    BY <1>2 DEF Peaceful, Unstarted, HbSelects, structVars
  <2>2. Unharmed' /\ Driven' /\ Linked' /\ Started' /\ Up' /\ Down' /\ Beating'
    BY <1>2 DEF Peaceful, Unharmed, Driven, Linked, Started, Up, Down, Beating, HbSelects,
       structVars, agentVars, recvVars, timerVars, sockVars
  <2> QED BY <2>1, <2>2 DEF Peaceful
<1>3. CASE HbSent
  <2>1. Unstarted'
    BY <1>3 DEF Peaceful, Unstarted, HbSent, structVars
  <2>2. Beating'
    BY <1>3 DEF Peaceful, Beating, HbSent, structVars, agentVars, sockVars
  <2>3. Unharmed' /\ Driven' /\ Linked' /\ Started' /\ Up' /\ Down'
    BY <1>3 DEF Peaceful, Unharmed, Driven, Linked, Started, Up, Down, HbSent, structVars,
       agentVars, recvVars, timerVars, sockVars
  <2> QED BY <2>1, <2>2, <2>3 DEF Peaceful
<1> QED BY <1>1, <1>2, <1>3, Excluded DEF HbStep

\* The server closes a connection while nobody uses it
LEMMA ClosePeaceful ==
    ASSUME OneStart, TypeOK, Peaceful, NEW c \in Conns, ServerClose(c)
    PROVE  Peaceful'
<1>1. CASE ServerClose(c)
  <2>1. c \in 1..dials
    BY <1>1 DEF ServerClose, Conns
  <2>2. Linked'
    BY <1>1, <2>1 DEF Peaceful, Linked, ServerClose, structVars, recvVars
  <2>3. Up'
    BY <1>1 DEF Peaceful, Up, OneStart, ServerClose, structVars, agentVars, recvVars
  <2>4. Beating'
    BY <1>1 DEF Peaceful, Beating, OneStart, ServerClose, hbVars
  <2>5. Unharmed' /\ Driven' /\ Unstarted' /\ Started' /\ Down'
    BY <1>1 DEF Peaceful, Unharmed, Driven, Unstarted, Started, Down, ServerClose, structVars,
       agentVars, recvVars, timerVars, hbVars
  <2> QED BY <2>2, <2>3, <2>4, <2>5 DEF Peaceful
<1> QED BY <1>1 DEF ServerClose

\* At rest an online station is registered on its connection, and a lost one has a loop waiting
LEMMA PeacefulRest ==
    ASSUME OneStart, TypeOK, Peaceful
    PROVE  RestInv
<1> SUFFICES ASSUME Quiet
             PROVE  /\ state = "online" => conn # 0 /\ conn \notin closedL /\ devId = conn
                    /\ state = "reconnect" => conn = 0 /\ devId = 0
                    /\ state = "reconnect" => \E l \in Loops : pc[l] = "wait"
                    /\ state # "register"
  BY DEF RestInv, QuietConsistent, NotStranded
<1>1. /\ state = "online" => conn # 0 /\ conn \notin closedL /\ devId = conn
      /\ state = "reconnect" => conn = 0 /\ devId = 0
  BY DEF Peaceful, Linked, Up, Down
<1>2. state = "reconnect" => \E l \in Loops : pc[l] = "wait"
  BY <1>1 DEF Peaceful, Down, Quiet, Agents
<1>3. state # "register"
  BY RestRegistered DEF Peaceful
<1> QED BY <1>1, <1>2, <1>3

LEMMA PeacefulCorrect == ASSUME OneStart PROVE Spec => []Peaceful
<1>1. Init => Peaceful
  <2> SUFFICES ASSUME Init
               PROVE  Peaceful
    OBVIOUS
  <2>1. Unharmed /\ Driven /\ Started
    BY DEF Init, Unharmed, Driven, Started, Agents
  <2>2. Linked
    BY DEF Init, Linked
  <2>3. Unstarted /\ Up /\ Down /\ Beating
    BY DEF Init, Unstarted, Up, Down, Beating, Agents
  <2> QED BY <2>1, <2>2, <2>3 DEF Peaceful
<1>2. TypeOK /\ Peaceful /\ [Next]_vars => Peaceful'
  <2> SUFFICES ASSUME TypeOK, Peaceful, [Next]_vars
               PROVE  Peaceful'
    OBVIOUS
  <2>1. CASE UNCHANGED vars
    BY <2>1 DEF Peaceful, Unharmed, Driven, Linked, Unstarted, Started, Up, Down, Beating,
       vars, structVars, agentVars, recvVars, timerVars, hbVars, sockVars
  <2>2. CASE Next
    BY <2>2, CallPeaceful, ConnectPeaceful, LoopPeaceful, ReceivePeaceful, TimerPeaceful,
       HeartbeatPeaceful, ClosePeaceful DEF Next
  <2> QED BY <2>1, <2>2
<1> QED BY <1>1, <1>2, TypeCorrect, PTL DEF Spec

\* After any number of losses a station that was started once is, at rest, what its state says and
\* has someone to get it further: handleDisconnect leaves neither an id nor a connection
\* behind, and the loop it starts makes the next one.  For timers that fire at rest and a
\* server that loses no connection in the middle of a registration
THEOREM RestInvCorrect == ASSUME OneStart PROVE Spec => []RestInv
<1>1. TypeOK /\ Peaceful => RestInv
  BY PeacefulRest
<1> QED BY <1>1, TypeCorrect, PeacefulCorrect, PTL

-----------------------------------------------------------------------------
(* The service of the station that is started once.                        *)

\* Each step of an attempt to connect finds the station as StationService expects it
LEMMA ConnectServes ==
    ASSUME OneStart, TypeOK, Peaceful, NEW a \in Agents, ConnectStep(a)
    PROVE  Service!Next \/ UNCHANGED Service!vars
<1>1. CASE EnterRegister(a)
  <2>1. conn = 0 /\ devId = 0 /\ state \in {"idle", "reconnect"}
    BY <1>1 DEF Peaceful, Driven, Up, Down, EnterRegister
  <2>2. Service!Register
    BY <1>1, <2>1 DEF Service!Register, EnterRegister, sockVars
  <2> QED BY <2>2 DEF Service!Next
<1>2. ASSUME pc[a] = "dial"
      PROVE  conn = 0 /\ state = "register"
  BY <1>2 DEF Peaceful, Driven, Unstarted, Up, Down, Agents
<1>3. CASE DialFail(a)
  <2>1. Service!Fail
    BY <1>2, <1>3 DEF Service!Fail, DialFail, sockVars
  <2> QED BY <2>1 DEF Service!Next
<1>4. CASE DialOk(a)
  <2>1. Service!Connect
    BY <1>2, <1>4 DEF Service!Connect, DialOk
  <2> QED BY <2>1 DEF Service!Next
<1>5. CASE RegisterSent(a)
  BY <1>5 DEF RegisterSent, structVars, Service!vars
<1> QED BY <1>1, <1>3, <1>4, <1>5, Excluded DEF ConnectStep

\* So does each step of the receive loop: it is the loop of the current connection
LEMMA ReceiveServes ==
    ASSUME OneStart, TypeOK, Peaceful, NEW c \in Conns, RecvStep(c)
    PROVE  Service!Next \/ UNCHANGED Service!vars
<1>1. rpc[c] # "off"
  BY DEF RecvStep, RecvCheck, RecvLoad, RecvPanic, RecvError, RecvOther, RecvHeader, RecvBody,
     ReplySetId, ReplySetOnline, ReplyForceOnline, ReplyForceId, RecvDisconnect
<1>2. conn = c /\ conn # 0
  BY <1>1 DEF Peaceful, Linked, Conns
<1>3. CASE RecvCheck(c) \/ RecvLoad(c) \/ RecvError(c) \/ RecvOther(c) \/ RecvHeader(c)
  BY <1>3 DEF RecvCheck, RecvLoad, RecvError, RecvOther, RecvHeader, structVars, sockVars,
     Service!vars
<1>4. CASE RecvBody(c)
  BY <1>4 DEF OneStart, RecvBody, sockVars, Service!vars
<1>5. CASE ReplySetId(c)
  <2>1. state = "register" /\ devId = 0 /\ rconn[c] = conn
    BY <1>2, <1>5 DEF Peaceful, Linked, Up, Reading, ReplySetId
  <2>2. Service!Identify
    BY <1>2, <1>5, <2>1 DEF Service!Identify, ReplySetId, sockVars
  <2> QED BY <2>2 DEF Service!Next
<1>6. CASE ReplySetOnline(c)
  <2>1. state = "register" /\ devId = conn
    BY <1>2, <1>6 DEF Peaceful, Up, Reading, ReplySetOnline
  <2>2. Service!Accept
    BY <1>2, <1>6, <2>1 DEF Service!Accept, ReplySetOnline, HeaderFallback, sockVars
  <2> QED BY <2>2 DEF Service!Next
<1>7. CASE RecvDisconnect(c)
  <2>1. state = "register" => devId = 0
    BY <1>2, <1>7 DEF Peaceful, Up, Reading, RecvDisconnect
  <2>2. Service!Lose
    BY <1>2, <1>7, <2>1 DEF Service!Lose, RecvDisconnect, DisconnectBody, DropConn
  <2> QED BY <2>2 DEF Service!Next
<1> QED BY <1>3, <1>4, <1>5, <1>6, <1>7, Excluded DEF RecvStep

\* Start, the reconnect loops, the receive loops and the losses together are the service: one
\* attempt at a time and each on a new connection, online only with the id assigned on the
\* current connection, and neither connection nor id left over from a lost one
THEOREM Implements == ASSUME OneStart PROVE Spec => ImplementsService
<1>1. Init => Service!Init
  BY DEF Init, Service!Init
<1>2. TypeOK /\ Peaceful /\ [Next]_vars => [Service!Next]_(Service!vars)
  <2> SUFFICES ASSUME TypeOK, Peaceful, [Next]_vars
               PROVE  Service!Next \/ UNCHANGED Service!vars
    OBVIOUS
  <2>1. ASSUME NEW a \in Callers, CallerStep(a)
        PROVE  Service!Next \/ UNCHANGED Service!vars
    BY <2>1, Excluded DEF CallerStep, StartCheck, StartRenew, structVars, sockVars, Service!vars
  <2>2. ASSUME NEW l \in Loops, LoopStep(l)
        PROVE  Service!Next \/ UNCHANGED Service!vars
    BY <2>2, Excluded DEF LoopStep, LoopWins, LoopSelects, LoopTick, LoopExit, structVars,
       sockVars, Service!vars
  <2>3. ASSUME NEW c \in Conns, ServerClose(c)
        PROVE  Service!Next \/ UNCHANGED Service!vars
    BY <2>3 DEF ServerClose, structVars, Service!vars
  <2>4. ASSUME TimerStep
        PROVE  Service!Next \/ UNCHANGED Service!vars
    BY <2>4, Excluded DEF TimerStep, WatcherWakes, LoopLoses, structVars, sockVars, Service!vars
  <2>5. ASSUME HbStep
        PROVE  Service!Next \/ UNCHANGED Service!vars
    BY <2>5, Excluded DEF HbStep, HbTick, HbSelects, HbSent, structVars, sockVars, Service!vars
  <2>6. CASE UNCHANGED vars
    BY <2>6 DEF vars, structVars, sockVars, Service!vars
  <2> QED BY <2>1, <2>2, <2>3, <2>4, <2>5, <2>6, ConnectServes, ReceiveServes DEF Next
<1> QED BY <1>1, <1>2, TypeCorrect, PeacefulCorrect, PTL DEF Spec, ImplementsService, Service!Spec
=============================================================================
