------------------------- MODULE SessionLock_proofs -------------------------
(***************************************************************************)
(* Theorems about SessionLock for every value of its constants.            *)
(*                                                                         *)
(* The Boolean flags are proved apart from the rest of the type invariant: *)
(* they need Zenon, everything with arithmetic or sequences needs SMT.     *)
(***************************************************************************)
EXTENDS SessionLock, SequenceTheorems, TLAPS

-----------------------------------------------------------------------------
(* Lemmas about the operators the steps are built from.                    *)

LEMMA ArmsKeepTheType ==
  ASSUME NEW s \in LockStates
  PROVE  /\ LockRequested(s) \in LockStates
         /\ AuthenticationStarted(s) \in LockStates
         /\ \A outcome \in PamOutcomes :
              Authenticated(s, outcome) \in LockStates
         /\ \A outcome \in LockOutcomes : Reported(s, outcome) \in LockStates
         /\ RendererLost(s) \in LockStates
<1>0. s.attempts + 1 \in Nat /\ s.acquisition + 1 \in Nat
  BY DEF LockStates
<1> USE DEF LockStates, Errors
<1>1. LockRequested(s) \in LockStates
  BY DEF LockRequested
<1>2. AuthenticationStarted(s) \in LockStates
  BY DEF AuthenticationStarted
<1>3. ASSUME NEW outcome \in PamOutcomes
      PROVE  Authenticated(s, outcome) \in LockStates
  <2>1. CASE outcome = "success"
    BY <2>1 DEF Authenticated
  <2>2. CASE outcome = "rejected"
    <3>1. Authenticated(s, outcome) =
            [s EXCEPT !.authenticating = FALSE, !.error = "pam",
                      !.attempts = s.attempts + 1]
      BY <2>2 DEF Authenticated
    <3> QED
      BY <1>0, <3>1
  <2>3. CASE outcome = "broken"
    <3>1. Authenticated(s, outcome) =
            [s EXCEPT !.authenticating = FALSE, !.error = "pam",
                      !.attempts = s.attempts]
      BY <2>3 DEF Authenticated
    <3> QED
      BY <3>1
  <2> QED
    BY <2>1, <2>2, <2>3 DEF PamOutcomes
<1>4. RendererLost(s) \in LockStates
  BY DEF RendererLost
<1>5. ReportedLocked(s) \in LockStates
  BY <1>0 DEF ReportedLocked
<1>6. ReportedRefused(s) \in LockStates
  BY DEF ReportedRefused
<1>7. ReportedEnded(s) \in LockStates
  BY DEF ReportedEnded
<1>8. \A outcome \in LockOutcomes : Reported(s, outcome) \in LockStates
  BY <1>5, <1>6, <1>7 DEF Reported, LockOutcomes
<1> QED
  BY <1>1, <1>2, <1>3, <1>4, <1>8

LEMMA UpdateType ==
  ASSUME NEW S, NEW T, NEW f \in [S -> T], NEW x \in S, NEW y \in T
  PROVE  [f EXCEPT ![x] = y] \in [S -> T]
  OBVIOUS

LEMMA DefaultLockType == DefaultLock \in LockStates
  BY DEF DefaultLock, LockStates, Errors

LEMMA LockCallType ==
  ASSUME SupervisorOK, FlagsOK, LockCall
  PROVE  lock' \in LockStates /\ commands' \in Seq(BOOLEAN)
<1>1. CASE lock' = LockRequested(lock) /\ commands' = Append(commands, TRUE)
  BY <1>1, ArmsKeepTheType DEF SupervisorOK
<1>2. CASE UNCHANGED <<lock, commands>>
  BY <1>2 DEF SupervisorOK
<1> QED
  BY <1>1, <1>2 DEF LockCall

LEMMA LockCallFlag ==
  ASSUME FlagsOK, LockCall
  PROVE  overlapped' \in BOOLEAN
  BY Zenon DEF LockCall, FlagsOK

LEMMA SendsType ==
  ASSUME RenderersOK, CompositorOK, NEW g \in Generations,
         NEW kind \in FrameKinds, NEW id \in Nat, Sends(g, kind, id)
  PROVE  frames' \in [Generations -> Seq(Frames)]
<1> DEFINE frame == [kind |-> kind, id |-> id, grant |-> granted[g]]
<1>1. frame \in Frames
  BY DEF Frames, CompositorOK
<1> HIDE DEF frame
<1>2. Append(frames[g], frame) \in Seq(Frames)
  BY <1>1 DEF RenderersOK
<1>3. \/ frames' = frames
      \/ frames' = [frames EXCEPT ![g] = Append(frames[g], frame)]
  BY DEF Sends, frame
<1> QED
  BY <1>2, <1>3 DEF RenderersOK

LEMMA ReceivesType ==
  ASSUME RenderersOK, NEW g \in Generations, NEW kinds, Receives(g, kinds)
  PROVE  /\ Head(frames[g]) \in Frames
         /\ frames' \in [Generations -> Seq(Frames)]
<1>1. frames[g] \in Seq(Frames) /\ frames[g] # <<>>
  BY DEF RenderersOK, Receives
<1>2. Head(frames[g]) \in Frames /\ Tail(frames[g]) \in Seq(Frames)
  BY <1>1
<1> QED
  BY <1>2 DEF RenderersOK, Receives

LEMMA DrainsType ==
  ASSUME RenderersOK, NEW g \in Generations, NEW locked, Drains(g, locked)
  PROVE  down' \in [Generations -> Seq(BOOLEAN)]
<1>1. down[g] \in Seq(BOOLEAN) /\ down[g] # <<>>
  BY DEF RenderersOK, Drains
<1>2. Tail(down[g]) \in Seq(BOOLEAN)
  BY <1>1, HeadTailProperties, Zenon
<1>3. down' = [down EXCEPT ![g] = Tail(down[g])]
  BY DEF Drains
<1>4. down \in [Generations -> Seq(BOOLEAN)]
  BY DEF RenderersOK
<1>5. [down EXCEPT ![g] = Tail(down[g])] \in [Generations -> Seq(BOOLEAN)]
  BY <1>2, <1>4, UpdateType
<1> QED
  BY <1>3, <1>5, Zenon

LEMMA EndsType ==
  ASSUME RenderersOK, CompositorOK, NEW g \in Generations, ProcessEnds(g)
  PROVE  RenderersOK' /\ CompositorOK'
<1>1. PICK n \in 0..Len(frames[g]) :
        frames' = [frames EXCEPT ![g] = SubSeq(@, 1, n)]
  BY DEF ProcessEnds
<1>2. SubSeq(frames[g], 1, n) \in Seq(Frames)
  BY DEF RenderersOK
<1>3. frames' \in [Generations -> Seq(Frames)]
  BY <1>1, <1>2 DEF RenderersOK
<1>4. CompositorOK'
  BY DEF ProcessEnds, CompositorOK, compositorVars
<1> QED
  BY <1>3, <1>4 DEF ProcessEnds, RenderersOK

-----------------------------------------------------------------------------
(* The type invariant.                                                     *)

LEMMA TypeInit == Init => TypeOK
<1> SUFFICES ASSUME Init PROVE TypeOK
  OBVIOUS
<1> USE BoundsAssumption DEF Init, Generations
<1>1. FlagsOK
  BY Zenon DEF FlagsOK
<1>2. SupervisorOK
  BY DEF SupervisorOK, LockStates, DefaultLock, Errors
<1>3. RenderersOK
  BY DEF RenderersOK
<1>4. CompositorOK
  BY DEF CompositorOK, NoOwner
<1> QED
  BY <1>1, <1>2, <1>3, <1>4 DEF TypeOK

LEMMA RespawnFlags ==
  ASSUME FlagsOK, Respawn
  PROVE  FlagsOK'
<1>1. \/ relockOwed' = TRUE /\ UNCHANGED overlapped
      \/ UNCHANGED relockOwed /\ UNCHANGED overlapped
  BY Zenon DEF Respawn, historyVars
<1> QED
  BY <1>1, Zenon DEF Respawn, FlagsOK

LEMMA RespawnType ==
  ASSUME TypeOK, Respawn
  PROVE  SupervisorOK' /\ RenderersOK' /\ CompositorOK'
<1> USE DEF TypeOK, Respawn
<1>1. spawned + 1 \in Generations
  BY BoundsAssumption DEF SupervisorOK, Generations
<1>2. lock' \in LockStates
  <2>1. lock' = RendererLost(lock) \/ lock' = lock
    BY Zenon
  <2> QED
    BY <2>1, ArmsKeepTheType DEF SupervisorOK
<1>3. SupervisorOK'
  <2>1. /\ spawned' = spawned + 1 /\ authoritative' = spawned + 1
        /\ UNCHANGED <<announced, commands, workers, timers, acquired,
                       answered, requests, submits>>
    BY DEF historyVars
  <2> HIDE DEF Respawn
  <2> QED
    BY <1>1, <1>2, <2>1 DEF SupervisorOK
<1>4. RenderersOK'
  BY <1>1 DEF RenderersOK, channelVars
<1>5. CompositorOK'
  BY DEF CompositorOK, compositorVars
<1> QED
  BY <1>3, <1>4, <1>5

LEMMA ReleaseType ==
  ASSUME NEW s \in Seq(BOOLEAN)
  PROVE  Append(s, FALSE) \in Seq(BOOLEAN)
  BY AppendProperties, FALSE \in BOOLEAN, Zenon

LEMMA MarkerKeepsTheType ==
  ASSUME NEW m \in BOOLEAN, NEW outcome \in LockOutcomes
  PROVE  MarkerAfter(m, outcome) \in BOOLEAN
  BY DEF MarkerAfter, LockOutcomes

LEMMA LockCallsType ==
  ASSUME TypeOK, NEW g \in Generations,
         LockRequestedByLogind \/ Hydrate(g) \/ DispatchLock(g)
  PROVE  TypeOK'
<1> USE DEF TypeOK, supervisorVars, lockVars, rendererVars, channelVars,
            compositorVars, historyVars, counterVars
<1>1. LockCall \/ UNCHANGED <<lock, commands, overlapped>>
  BY DEF LockRequestedByLogind, Hydrate, DispatchLock
<1>2. lock' \in LockStates /\ commands' \in Seq(BOOLEAN)
  BY <1>1, LockCallType DEF SupervisorOK
<1>3. CASE LockRequestedByLogind
  <2>1. FlagsOK'
    BY <1>3, LockCallFlag, Zenon DEF FlagsOK, LockRequestedByLogind
  <2>2. SupervisorOK'
    BY <1>2, <1>3 DEF SupervisorOK, LockRequestedByLogind
  <2>3. RenderersOK' /\ CompositorOK'
    BY <1>3 DEF RenderersOK, CompositorOK, LockRequestedByLogind
  <2> QED
    BY <2>1, <2>2, <2>3
<1>4. CASE Hydrate(g)
  <2>1. FlagsOK'
    BY <1>1, <1>4, LockCallFlag, Zenon DEF FlagsOK, Hydrate
  <2>2. SupervisorOK'
    BY <1>2, <1>4 DEF SupervisorOK, Hydrate
  <2>3. RenderersOK' /\ CompositorOK'
    BY <1>4 DEF RenderersOK, CompositorOK, Hydrate
  <2> QED
    BY <2>1, <2>2, <2>3
<1>5. CASE DispatchLock(g)
  <2>1. FlagsOK'
    BY <1>5, LockCallFlag, Zenon DEF FlagsOK, DispatchLock
  <2>2. SupervisorOK'
    BY <1>2, <1>5 DEF SupervisorOK, DispatchLock
  <2>3. RenderersOK'
    BY <1>5, ReceivesType DEF RenderersOK, DispatchLock
  <2>4. CompositorOK'
    BY <1>5 DEF CompositorOK, DispatchLock
  <2> QED
    BY <2>1, <2>2, <2>3, <2>4
<1> QED
  BY <1>3, <1>4, <1>5

LEMMA TypeStep == TypeOK /\ [Next]_vars => TypeOK'
<1> SUFFICES ASSUME TypeOK, [Next]_vars PROVE TypeOK'
  OBVIOUS
<1> USE BoundsAssumption
    DEF TypeOK, supervisorVars, lockVars, rendererVars, channelVars,
        compositorVars, historyVars, counterVars
<1>1. CASE LockRequestedByLogind
  BY <1>1, LockCallsType DEF Generations
<1>2. CASE SendLockCommand
  <2>1. FlagsOK'
    BY <1>2, Zenon DEF FlagsOK, SendLockCommand
  <2>2. SupervisorOK'
    BY <1>2, HeadTailProperties DEF SupervisorOK, SendLockCommand
  <2>3. RenderersOK'
    <3>1. Append(down[authoritative], Head(commands)) \in Seq(BOOLEAN)
      <4>1. Head(commands) \in BOOLEAN
        BY <1>2, HeadTailProperties, Zenon DEF SupervisorOK, SendLockCommand
      <4>2. down[authoritative] \in Seq(BOOLEAN)
        BY DEF SupervisorOK, RenderersOK
      <4> QED
        BY <4>1, <4>2, AppendProperties, Zenon
    <3>2. \/ down' = down
          \/ down' = [down EXCEPT ![authoritative] =
                        Append(down[authoritative], Head(commands))]
      BY <1>2 DEF SendLockCommand
    <3>3. down' \in [Generations -> Seq(BOOLEAN)]
      BY <3>1, <3>2, UpdateType, Zenon DEF RenderersOK, SupervisorOK
    <3> QED
      BY <1>2, <3>3 DEF RenderersOK, SendLockCommand
  <2>4. CompositorOK'
    BY <1>2 DEF CompositorOK, SendLockCommand
  <2> QED
    BY <2>1, <2>2, <2>3, <2>4
<1>3. CASE ReplaceDepartedRenderer
  <2>1. FlagsOK'
    BY <1>3, RespawnFlags, Zenon DEF FlagsOK, ReplaceDepartedRenderer
  <2>2. SupervisorOK'
    BY <1>3, RespawnType DEF SupervisorOK, ReplaceDepartedRenderer
  <2>3. RenderersOK'
    BY <1>3, RespawnType DEF RenderersOK, ReplaceDepartedRenderer
  <2>4. CompositorOK'
    BY <1>3, RespawnType DEF CompositorOK, ReplaceDepartedRenderer
  <2> QED
    BY <2>1, <2>2, <2>3, <2>4
<1>4. CASE CooldownExpires
  <2>1. FlagsOK'
    BY <1>4, RespawnFlags, Zenon DEF CooldownExpires
  <2>2. SupervisorOK'
    BY <1>4, RespawnType DEF SupervisorOK, CooldownExpires
  <2>3. RenderersOK'
    BY <1>4, RespawnType DEF RenderersOK, CooldownExpires
  <2>4. CompositorOK'
    BY <1>4, RespawnType DEF CompositorOK, CooldownExpires
  <2> QED
    BY <2>1, <2>2, <2>3, <2>4
<1>5. CASE SupervisorStop
  <2>1. FlagsOK'
    BY <1>5, Zenon DEF FlagsOK, SupervisorStop
  <2>2. SupervisorOK'
    BY <1>5, DefaultLockType DEF SupervisorOK, SupervisorStop
  <2>3. RenderersOK'
    BY <1>5 DEF RenderersOK, SupervisorStop
  <2>4. CompositorOK'
    BY <1>5 DEF CompositorOK, SupervisorStop
  <2> QED
    BY <2>1, <2>2, <2>3, <2>4
<1>6. CASE SupervisorStart
  <2>1. FlagsOK'
    BY <1>6, Zenon DEF FlagsOK, SupervisorStart
  <2>2. SupervisorOK'
    BY <1>6 DEF SupervisorOK, SupervisorStart, Generations
  <2>3. RenderersOK'
    BY <1>6 DEF RenderersOK, SupervisorStart
  <2>4. CompositorOK'
    BY <1>6 DEF CompositorOK, SupervisorStart
  <2> QED
    BY <2>1, <2>2, <2>3, <2>4
<1>7. CASE CompositorFinishes
  <2>1. FlagsOK'
    BY <1>7, Zenon DEF FlagsOK, CompositorFinishes
  <2>2. SupervisorOK'
    BY <1>7 DEF SupervisorOK, CompositorFinishes
  <2>3. RenderersOK'
    <3>1. CASE comp.owner \in Generations
      <4>1. Append(events[comp.owner], "finished")
              \in Seq({"locked", "finished"})
        BY <3>1 DEF RenderersOK
      <4> QED
        BY <1>7, <3>1, <4>1 DEF RenderersOK, CompositorFinishes
    <3>2. CASE comp.owner \notin Generations
      <4>1. events' = events
        BY <1>7, <3>2 DEF RenderersOK, CompositorFinishes
      <4> QED
        BY <1>7, <4>1 DEF RenderersOK, CompositorFinishes
    <3> QED
      BY <3>1, <3>2
  <2>4. CompositorOK'
    BY <1>7 DEF CompositorOK, CompositorFinishes, NoOwner
  <2> QED
    BY <2>1, <2>2, <2>3, <2>4
<1>8. ASSUME NEW w \in workers, NEW outcome \in PamOutcomes,
            RecordPamOutcome(w, outcome)
     PROVE  TypeOK'
  <2>1. FlagsOK'
    BY <1>8, Zenon DEF FlagsOK, RecordPamOutcome
  <2>2. SupervisorOK'
    <3>1. lock' \in LockStates
      BY <1>8, ArmsKeepTheType DEF SupervisorOK, RecordPamOutcome
    <3>2. commands' \in Seq(BOOLEAN)
      BY <1>8, ReleaseType, Zenon DEF SupervisorOK, RecordPamOutcome
    <3>3. workers' \subseteq Tasks
      BY <1>8 DEF SupervisorOK, RecordPamOutcome
    <3>4. answered' \subseteq Nat
      BY <1>8 DEF SupervisorOK, RecordPamOutcome
    <3>5. timers' \subseteq Tasks
      <4>1. [id |-> w.id, acquisition |-> lock.acquisition] \in Tasks
        BY <1>8 DEF SupervisorOK, Tasks, LockStates
      <4> QED
        BY <1>8, <4>1 DEF SupervisorOK, RecordPamOutcome
    <3> QED
      BY <1>8, <3>1, <3>2, <3>3, <3>4, <3>5 DEF SupervisorOK, RecordPamOutcome
  <2>3. RenderersOK'
    BY <1>8 DEF RenderersOK, RecordPamOutcome
  <2>4. CompositorOK'
    BY <1>8 DEF CompositorOK, RecordPamOutcome
  <2> QED
    BY <2>1, <2>2, <2>3, <2>4
<1>9. ASSUME NEW t \in timers, ReleaseTimerFires(t)
     PROVE  TypeOK'
  <2>1. FlagsOK'
    BY <1>9, Zenon DEF FlagsOK, ReleaseTimerFires
  <2>2. SupervisorOK'
    <3>1. \/ commands' = Append(commands, FALSE)
          \/ commands' = commands
      BY <1>9, Zenon DEF ReleaseTimerFires
    <3>2. commands' \in Seq(BOOLEAN)
      BY <3>1, ReleaseType, Zenon DEF SupervisorOK
    <3> QED
      BY <1>9, <3>2 DEF SupervisorOK, ReleaseTimerFires
  <2>3. RenderersOK'
    BY <1>9 DEF RenderersOK, ReleaseTimerFires
  <2>4. CompositorOK'
    BY <1>9 DEF CompositorOK, ReleaseTimerFires
  <2> QED
    BY <2>1, <2>2, <2>3, <2>4
<1>10. ASSUME NEW g \in Generations, Hydrate(g)
     PROVE  TypeOK'
  BY <1>10, LockCallsType
<1>11. ASSUME NEW g \in Generations, DispatchLock(g)
     PROVE  TypeOK'
  BY <1>11, LockCallsType
<1>12. ASSUME NEW g \in Generations, DropStaleFrame(g)
     PROVE  TypeOK'
  <2>1. FlagsOK'
    BY <1>12, Zenon DEF FlagsOK, DropStaleFrame
  <2>2. SupervisorOK'
    BY <1>12 DEF SupervisorOK, DropStaleFrame
  <2>3. RenderersOK'
    BY <1>12, ReceivesType DEF RenderersOK, DropStaleFrame
  <2>4. CompositorOK'
    BY <1>12 DEF CompositorOK, DropStaleFrame
  <2> QED
    BY <2>1, <2>2, <2>3, <2>4
<1>13. ASSUME NEW g \in Generations, RecordLockReport(g)
     PROVE  TypeOK'
  <2>1. FlagsOK'
    <3>1. Head(frames[g]).kind \in LockOutcomes
      BY <1>13, Zenon DEF RecordLockReport, Receives
    <3> QED
      BY <1>13, <3>1, MarkerKeepsTheType, Zenon DEF FlagsOK, RecordLockReport
  <2>2. SupervisorOK'
    BY <1>13, ReceivesType, ArmsKeepTheType
    DEF SupervisorOK, RecordLockReport, Receives, Frames
  <2>3. RenderersOK'
    BY <1>13, ReceivesType DEF RenderersOK, RecordLockReport
  <2>4. CompositorOK'
    BY <1>13 DEF CompositorOK, RecordLockReport
  <2> QED
    BY <2>1, <2>2, <2>3, <2>4
<1>14. ASSUME NEW g \in Generations, BeginAuthentication(g)
     PROVE  TypeOK'
  <2>1. FlagsOK'
    BY <1>14, Zenon DEF FlagsOK, BeginAuthentication
  <2>2. SupervisorOK'
    <3>1. lock' \in LockStates
      BY <1>14, ArmsKeepTheType DEF SupervisorOK, BeginAuthentication
    <3>2. Head(frames[g]).id \in Nat /\ lock.acquisition \in Nat
      BY <1>14, ReceivesType
      DEF SupervisorOK, BeginAuthentication, Frames, LockStates
    <3>3. workers' \subseteq Tasks
      BY <1>14, <3>2 DEF SupervisorOK, BeginAuthentication, Tasks
    <3> QED
      BY <1>14, <3>1, <3>3 DEF SupervisorOK, BeginAuthentication
  <2>3. RenderersOK'
    BY <1>14, ReceivesType DEF RenderersOK, BeginAuthentication
  <2>4. CompositorOK'
    BY <1>14 DEF CompositorOK, BeginAuthentication
  <2> QED
    BY <2>1, <2>2, <2>3, <2>4
<1>15. ASSUME NEW g \in Generations, RendererConnects(g)
     PROVE  TypeOK'
  <2>1. FlagsOK'
    BY <1>15, Zenon DEF FlagsOK, RendererConnects
  <2>2. SupervisorOK'
    BY <1>15 DEF SupervisorOK, RendererConnects
  <2>3. RenderersOK'
    BY <1>15 DEF RenderersOK, RendererConnects
  <2>4. CompositorOK'
    BY <1>15 DEF CompositorOK, RendererConnects
  <2> QED
    BY <2>1, <2>2, <2>3, <2>4
<1>16. ASSUME NEW g \in Generations, HandleLockNothing(g)
     PROVE  TypeOK'
  <2>1. FlagsOK'
    BY <1>16, Zenon DEF FlagsOK, HandleLockNothing
  <2>2. SupervisorOK'
    BY <1>16 DEF SupervisorOK, HandleLockNothing
  <2>3. RenderersOK'
    BY <1>16, DrainsType DEF RenderersOK, HandleLockNothing
  <2>4. CompositorOK'
    BY <1>16 DEF CompositorOK, HandleLockNothing
  <2> QED
    BY <2>1, <2>2, <2>3, <2>4
<1>17. ASSUME NEW g \in Generations, HandleLockRefuse(g)
     PROVE  TypeOK'
  <2>1. FlagsOK'
    BY <1>17, Zenon DEF FlagsOK, HandleLockRefuse
  <2>2. SupervisorOK'
    BY <1>17 DEF SupervisorOK, HandleLockRefuse
  <2>3. RenderersOK'
    <3>1. frames' \in [Generations -> Seq(Frames)]
      BY <1>17, SendsType DEF HandleLockRefuse, FrameKinds, LockOutcomes
    <3> QED
      BY <1>17, <3>1, DrainsType DEF RenderersOK, HandleLockRefuse
  <2>4. CompositorOK'
    BY <1>17 DEF CompositorOK, HandleLockRefuse
  <2> QED
    BY <2>1, <2>2, <2>3, <2>4
<1>18. ASSUME NEW g \in Generations, HandleLockAcquire(g)
     PROVE  TypeOK'
  <2>1. FlagsOK'
    BY <1>18, Zenon DEF FlagsOK, HandleLockAcquire
  <2>2. SupervisorOK'
    BY <1>18 DEF SupervisorOK, HandleLockAcquire
  <2>3. RenderersOK'
    BY <1>18, DrainsType DEF RenderersOK, HandleLockAcquire
  <2>4. CompositorOK'
    BY <1>18 DEF CompositorOK, HandleLockAcquire
  <2> QED
    BY <2>1, <2>2, <2>3, <2>4
<1>19. ASSUME NEW g \in Generations, HandleLockRelease(g)
     PROVE  TypeOK'
  <2>1. FlagsOK'
    BY <1>19, Zenon DEF FlagsOK, HandleLockRelease
  <2>2. SupervisorOK'
    BY <1>19 DEF SupervisorOK, HandleLockRelease
  <2>3. RenderersOK'
    <3>1. frames' \in [Generations -> Seq(Frames)]
      BY <1>19, SendsType DEF HandleLockRelease, FrameKinds, LockOutcomes
    <3> QED
      BY <1>19, <3>1, DrainsType DEF RenderersOK, HandleLockRelease
  <2>4. CompositorOK'
    BY <1>19 DEF CompositorOK, HandleLockRelease, NoOwner
  <2> QED
    BY <2>1, <2>2, <2>3, <2>4
<1>20. ASSUME NEW g \in Generations, DispatchLocked(g)
     PROVE  TypeOK'
  <2>1. FlagsOK'
    BY <1>20, Zenon DEF FlagsOK, DispatchLocked
  <2>2. SupervisorOK'
    BY <1>20 DEF SupervisorOK, DispatchLocked
  <2>3. RenderersOK'
    <3>1. frames' \in [Generations -> Seq(Frames)]
      BY <1>20, SendsType DEF DispatchLocked, FrameKinds, LockOutcomes
    <3> QED
      BY <1>20, <3>1, HeadTailProperties DEF RenderersOK, DispatchLocked
  <2>4. CompositorOK'
    BY <1>20 DEF CompositorOK, DispatchLocked
  <2> QED
    BY <2>1, <2>2, <2>3, <2>4
<1>21. ASSUME NEW g \in Generations, DispatchFinished(g)
     PROVE  TypeOK'
  <2>1. FlagsOK'
    BY <1>21, Zenon DEF FlagsOK, DispatchFinished
  <2>2. SupervisorOK'
    BY <1>21 DEF SupervisorOK, DispatchFinished
  <2>3. RenderersOK'
    <3>1. frames' \in [Generations -> Seq(Frames)]
      BY <1>21, SendsType DEF DispatchFinished, FrameKinds, LockOutcomes
    <3> QED
      BY <1>21, <3>1, HeadTailProperties DEF RenderersOK, DispatchFinished
  <2>4. CompositorOK'
    BY <1>21 DEF CompositorOK, DispatchFinished
  <2> QED
    BY <2>1, <2>2, <2>3, <2>4
<1>22. ASSUME NEW g \in Generations, RendererLosesSupervisor(g)
     PROVE  TypeOK'
  <2>1. FlagsOK'
    BY <1>22, Zenon DEF FlagsOK, RendererLosesSupervisor, ProcessEnds
  <2>2. SupervisorOK'
    BY <1>22 DEF SupervisorOK, RendererLosesSupervisor, ProcessEnds
  <2>3. RenderersOK'
    BY <1>22, EndsType DEF RenderersOK, RendererLosesSupervisor, ProcessEnds
  <2>4. CompositorOK'
    BY <1>22, EndsType DEF CompositorOK, RendererLosesSupervisor, ProcessEnds
  <2> QED
    BY <2>1, <2>2, <2>3, <2>4
<1>23. ASSUME NEW g \in Generations, RendererAsksLock(g)
     PROVE  TypeOK'
  <2>1. FlagsOK'
    BY <1>23, Zenon DEF FlagsOK, RendererAsksLock
  <2>2. SupervisorOK'
    BY <1>23 DEF SupervisorOK, RendererAsksLock
  <2>3. RenderersOK'
    <3>1. frames' \in [Generations -> Seq(Frames)]
      BY <1>23, SendsType DEF RendererAsksLock, FrameKinds, LockOutcomes
    <3> QED
      BY <1>23, <3>1 DEF RenderersOK, RendererAsksLock
  <2>4. CompositorOK'
    BY <1>23 DEF CompositorOK, RendererAsksLock
  <2> QED
    BY <2>1, <2>2, <2>3, <2>4
<1>24. ASSUME NEW g \in Generations, RendererSubmits(g)
     PROVE  TypeOK'
  <2>1. FlagsOK'
    BY <1>24, Zenon DEF FlagsOK, RendererSubmits
  <2>2. SupervisorOK'
    BY <1>24 DEF SupervisorOK, RendererSubmits
  <2>3. RenderersOK'
    <3>1. frames' \in [Generations -> Seq(Frames)]
      BY <1>24, SendsType
      DEF RendererSubmits, FrameKinds, LockOutcomes, SupervisorOK
    <3> QED
      BY <1>24, <3>1 DEF RenderersOK, RendererSubmits
  <2>4. CompositorOK'
    BY <1>24 DEF CompositorOK, RendererSubmits
  <2> QED
    BY <2>1, <2>2, <2>3, <2>4
<1>25. ASSUME NEW g \in Generations, ConfigReload(g)
     PROVE  TypeOK'
  <2>1. FlagsOK'
    BY <1>25, Zenon DEF FlagsOK, ConfigReload
  <2>2. SupervisorOK'
    BY <1>25 DEF SupervisorOK, ConfigReload
  <2>3. RenderersOK'
    BY <1>25 DEF RenderersOK, ConfigReload
  <2>4. CompositorOK'
    BY <1>25 DEF CompositorOK, ConfigReload
  <2> QED
    BY <2>1, <2>2, <2>3, <2>4
<1>26. ASSUME NEW g \in Generations, RendererDies(g)
     PROVE  TypeOK'
  <2>1. FlagsOK'
    BY <1>26, Zenon DEF FlagsOK, RendererDies, ProcessEnds
  <2>2. SupervisorOK'
    BY <1>26 DEF SupervisorOK, RendererDies, ProcessEnds
  <2>3. RenderersOK'
    BY <1>26, EndsType DEF RenderersOK, RendererDies, ProcessEnds
  <2>4. CompositorOK'
    BY <1>26, EndsType DEF CompositorOK, RendererDies, ProcessEnds
  <2> QED
    BY <2>1, <2>2, <2>3, <2>4
<1>27. ASSUME NEW g \in Generations, CompositorGrants(g)
     PROVE  TypeOK'
  <2>1. FlagsOK'
    BY <1>27, Zenon DEF FlagsOK, CompositorGrants
  <2>2. SupervisorOK'
    BY <1>27 DEF SupervisorOK, CompositorGrants
  <2>3. RenderersOK'
    BY <1>27 DEF RenderersOK, CompositorGrants
  <2>4. CompositorOK'
    BY <1>27 DEF CompositorOK, CompositorGrants
  <2> QED
    BY <2>1, <2>2, <2>3, <2>4
<1>28. ASSUME NEW g \in Generations, CompositorDenies(g)
     PROVE  TypeOK'
  <2>1. FlagsOK'
    BY <1>28, Zenon DEF FlagsOK, CompositorDenies
  <2>2. SupervisorOK'
    BY <1>28 DEF SupervisorOK, CompositorDenies
  <2>3. RenderersOK'
    BY <1>28 DEF RenderersOK, CompositorDenies
  <2>4. CompositorOK'
    BY <1>28 DEF CompositorOK, CompositorDenies
  <2> QED
    BY <2>1, <2>2, <2>3, <2>4
<1>29. CASE UNCHANGED vars
  <2>1. FlagsOK'
    BY <1>29, Zenon DEF FlagsOK, vars
  <2>2. SupervisorOK' /\ RenderersOK' /\ CompositorOK'
    BY <1>29 DEF SupervisorOK, RenderersOK, CompositorOK, vars
  <2> QED
    BY <2>1, <2>2
<1> QED
  BY <1>1, <1>2, <1>3, <1>4, <1>5, <1>6, <1>7, <1>8, <1>9, <1>10, <1>11,
     <1>12, <1>13, <1>14, <1>15, <1>16, <1>17, <1>18, <1>19, <1>20, <1>21,
     <1>22, <1>23, <1>24, <1>25, <1>26, <1>27, <1>28, <1>29
  DEF Next, SupervisorStep, RendererStep

(* Every record, queue and frame keeps its shape, however the Supervisor,  *)
(* the Renderers and the compositor interleave, stop and die.              *)
THEOREM TypeCorrect == Spec => []TypeOK
  BY TypeInit, TypeStep, PTL DEF Spec

-----------------------------------------------------------------------------
(* The record of the lock.                                                 *)

RecordInv == LockFlagsAgree /\ AuthenticatingIsOwed /\ ActiveIsMarked

LEMMA RecordFrame ==
  ASSUME RecordInv, UNCHANGED <<lock, workers, marker>>
  PROVE  RecordInv'
  BY DEF RecordInv, LockFlagsAgree, AuthenticatingIsOwed, ActiveIsMarked,
         Conversations

LEMMA RecordLockCall ==
  ASSUME TypeOK, RecordInv, LockCall, UNCHANGED <<workers, marker>>
  PROVE  RecordInv'
<1> USE DEF RecordInv, LockFlagsAgree, AuthenticatingIsOwed, ActiveIsMarked,
            Conversations
<1>1. CASE UNCHANGED lock
  BY <1>1
<1>2. CASE ~lock.active /\ lock' = LockRequested(lock)
  BY <1>2 DEF LockRequested, TypeOK, SupervisorOK, LockStates
<1> QED
  BY <1>1, <1>2 DEF LockCall

LEMMA RecordRespawn ==
  ASSUME TypeOK, RecordInv, Respawn
  PROVE  RecordInv'
<1> USE DEF RecordInv, LockFlagsAgree, AuthenticatingIsOwed, ActiveIsMarked,
            Conversations
<1>1. UNCHANGED <<workers, marker>>
  BY DEF Respawn
<1>2. CASE lock' = RendererLost(lock)
  BY <1>1, <1>2 DEF RendererLost, TypeOK, SupervisorOK, LockStates
<1>3. CASE UNCHANGED lock
  BY <1>1, <1>3
<1> QED
  BY <1>2, <1>3 DEF Respawn

LEMMA RecordReport ==
  ASSUME TypeOK, RecordInv, NEW g \in Generations, RecordLockReport(g)
  PROVE  RecordInv'
<1> DEFINE kind == Head(frames[g]).kind
<1>1. /\ kind \in LockOutcomes
      /\ lock' = Reported(lock, kind)
      /\ marker' = MarkerAfter(marker, kind)
      /\ UNCHANGED workers
  BY DEF RecordLockReport, Receives
<1>2. lock \in LockStates
  BY DEF TypeOK, SupervisorOK
<1> HIDE DEF kind
<1> USE DEF RecordInv, LockFlagsAgree, AuthenticatingIsOwed, ActiveIsMarked,
            Conversations, LockStates
<1>3. CASE kind = "locked"
  BY <1>1, <1>2, <1>3 DEF Reported, ReportedLocked, MarkerAfter
<1>4. CASE kind = "refused"
  BY <1>1, <1>2, <1>4 DEF Reported, ReportedRefused, MarkerAfter
<1>5. CASE kind \in {"finished", "unlocked"}
  BY <1>1, <1>2, <1>5 DEF Reported, ReportedEnded, MarkerAfter
<1> QED
  BY <1>1, <1>3, <1>4, <1>5 DEF LockOutcomes

LEMMA RecordBegin ==
  ASSUME TypeOK, RecordInv, NEW g \in Generations, BeginAuthentication(g)
  PROVE  RecordInv'
<1> USE DEF RecordInv, LockFlagsAgree, AuthenticatingIsOwed, ActiveIsMarked,
            Conversations
<1>1. CASE UNCHANGED <<lock, workers>>
  BY <1>1 DEF BeginAuthentication
<1>2. CASE /\ MayAuthenticate(lock)
           /\ lock' = AuthenticationStarted(lock)
           /\ workers' = workers \union
                {[id |-> Head(frames[g]).id, acquisition |-> lock.acquisition]}
  <2>1. UNCHANGED marker /\ lock \in LockStates
    BY DEF BeginAuthentication, TypeOK, SupervisorOK
  <2>2. [id |-> Head(frames[g]).id, acquisition |-> lock.acquisition]
          \in Conversations(lock)'
    BY <1>2, <2>1 DEF AuthenticationStarted, LockStates
  <2> QED
    BY <1>2, <2>1, <2>2
    DEF AuthenticationStarted, MayAuthenticate, LockStates
<1> QED
  BY <1>1, <1>2 DEF BeginAuthentication

LEMMA RecordAnswer ==
  ASSUME TypeOK, RecordInv, NEW w \in workers, NEW outcome \in PamOutcomes,
         RecordPamOutcome(w, outcome)
  PROVE  RecordInv'
<1> USE DEF RecordInv, LockFlagsAgree, AuthenticatingIsOwed, ActiveIsMarked,
            Conversations
<1>1. UNCHANGED marker /\ workers' = workers \ {w} /\ lock \in LockStates
  BY DEF RecordPamOutcome, TypeOK, SupervisorOK
<1>2. CASE ~AcceptsOutcome(lock, w.acquisition) /\ UNCHANGED lock
  <2>1. lock.active => w \notin Conversations(lock)
    BY <1>2 DEF AcceptsOutcome
  <2> QED
    BY <1>1, <1>2, <2>1
<1>3. CASE /\ AcceptsOutcome(lock, w.acquisition)
           /\ lock' = Authenticated(lock, outcome)
  <2>1. ~lock'.authenticating /\ (lock'.active <=> lock.active)
    BY <1>1, <1>3 DEF Authenticated, LockStates
  <2>2. lock'.requested <=> lock.requested
    BY <1>1, <1>3 DEF Authenticated, LockStates
  <2> QED
    BY <1>1, <1>3, <2>1, <2>2 DEF AcceptsOutcome
<1> QED
  BY <1>2, <1>3 DEF RecordPamOutcome

LEMMA RecordStep == TypeOK /\ RecordInv /\ [Next]_vars => RecordInv'
<1> SUFFICES ASSUME TypeOK, RecordInv, [Next]_vars PROVE RecordInv'
  OBVIOUS
<1> USE DEF lockVars
<1>1. CASE LockRequestedByLogind
  BY <1>1, RecordLockCall DEF LockRequestedByLogind
<1>2. CASE SendLockCommand
  BY <1>2, RecordFrame DEF SendLockCommand
<1>3. CASE ReplaceDepartedRenderer
  BY <1>3, RecordRespawn, RecordFrame DEF ReplaceDepartedRenderer
<1>4. CASE CooldownExpires
  BY <1>4, RecordRespawn DEF CooldownExpires
<1>5. CASE SupervisorStop
  BY <1>5 DEF SupervisorStop, DefaultLock, RecordInv, LockFlagsAgree,
              AuthenticatingIsOwed, ActiveIsMarked
<1>6. CASE SupervisorStart
  BY <1>6, RecordFrame DEF SupervisorStart
<1>7. CASE CompositorFinishes
  BY <1>7, RecordFrame DEF CompositorFinishes
<1>8. ASSUME NEW w \in workers, NEW outcome \in PamOutcomes,
             RecordPamOutcome(w, outcome)
      PROVE  RecordInv'
  BY <1>8, RecordAnswer
<1>9. ASSUME NEW t \in timers, ReleaseTimerFires(t)
      PROVE  RecordInv'
  BY <1>9, RecordFrame DEF ReleaseTimerFires
<1>10. ASSUME NEW g \in Generations, SupervisorStep(g)
       PROVE  RecordInv'
  <2>1. CASE Hydrate(g)
    BY <2>1, RecordLockCall, RecordFrame DEF Hydrate
  <2>2. CASE DropStaleFrame(g)
    BY <2>2, RecordFrame DEF DropStaleFrame
  <2>3. CASE DispatchLock(g)
    BY <2>3, RecordLockCall DEF DispatchLock
  <2> QED
    BY <1>10, <2>1, <2>2, <2>3, RecordReport, RecordBegin DEF SupervisorStep
<1>11. ASSUME NEW g \in Generations, RendererStep(g)
       PROVE  RecordInv'
  BY <1>11, RecordFrame
  DEF RendererStep, RendererConnects, HandleLockNothing, HandleLockRefuse,
      HandleLockAcquire, HandleLockRelease, DispatchLocked, DispatchFinished,
      RendererLosesSupervisor, ProcessEnds
<1>12. ASSUME NEW g \in Generations,
              \/ RendererAsksLock(g) \/ RendererSubmits(g) \/ ConfigReload(g)
              \/ RendererDies(g) \/ CompositorGrants(g) \/ CompositorDenies(g)
       PROVE  RecordInv'
  BY <1>12, RecordFrame
  DEF RendererAsksLock, RendererSubmits, ConfigReload, RendererDies,
      ProcessEnds, CompositorGrants, CompositorDenies
<1>13. CASE UNCHANGED vars
  BY <1>13, RecordFrame DEF vars
<1> QED
  BY <1>1, <1>2, <1>3, <1>4, <1>5, <1>6, <1>7, <1>8, <1>9, <1>10, <1>11,
     <1>12, <1>13 DEF Next

LEMMA RecordCorrect == Spec => []RecordInv
<1>1. Init => RecordInv
  BY DEF Init, DefaultLock, RecordInv, LockFlagsAgree, AuthenticatingIsOwed,
         ActiveIsMarked
<1> QED
  BY <1>1, RecordStep, TypeCorrect, PTL DEF Spec

(* A release or a conversation needs a lock on the glass and a request     *)
(* needs none, whatever order reports, answers and requests arrive in.     *)
THEOREM FlagsAgree == Spec => []LockFlagsAgree
  BY RecordCorrect, PTL DEF RecordInv

(* The latch that refuses the next password is never left with nobody to   *)
(* clear it.                                                               *)
THEOREM ConversationIsOwed == Spec => []AuthenticatingIsOwed
  BY RecordCorrect, PTL DEF RecordInv

(* A lock the Supervisor calls active is always on disk.                   *)
THEOREM ActiveLockIsMarked == Spec => []ActiveIsMarked
  BY RecordCorrect, PTL DEF RecordInv

-----------------------------------------------------------------------------
(* The lock object of a Renderer and what the compositor has still to tell *)
(* it about that object.                                                   *)

Owns(g) == comp.locked /\ comp.owner = g

LockObject(g) ==
  /\ g > spawned => proc[g] = "unborn"
  /\ proc[g] = "unborn" => ~Owns(g)
  /\ ~Alive(g) => held[g] = "none"
  /\ held[g] = "none" => g \notin asked /\ events[g] = <<>>
  /\ held[g] = "requested" =>
       \/ g \in asked /\ events[g] = <<>>
       \/ /\ g \notin asked
          /\ events[g] \in {<<"locked">>, <<"finished">>,
                            <<"locked", "finished">>}
  /\ held[g] = "locked" =>
       g \notin asked /\ events[g] \in {<<>>, <<"finished">>}
  /\ (Owns(g) /\ Alive(g)) =>
       \/ held[g] = "locked" /\ events[g] = <<>>
       \/ held[g] = "requested" /\ g \notin asked /\ events[g] = <<"locked">>
  /\ held[g] # "none" => field[g]

LockObjects == \A g \in Generations : LockObject(g)

(* What a step of somebody else leaves alone.                              *)
LEMMA ObjectFrame ==
  ASSUME NEW g \in Generations, LockObject(g),
         UNCHANGED <<proc[g], held[g], events[g], field[g]>>,
         g > spawned' => g > spawned,
         g \in asked' <=> g \in asked,
         Owns(g)' => Owns(g)
  PROVE  LockObject(g)'
  BY DEF LockObject, Alive

LEMMA ObjectSame ==
  ASSUME LockObjects,
         UNCHANGED <<proc, held, events, field, asked, comp, spawned>>
  PROVE  LockObjects'
  BY ObjectFrame DEF LockObjects, Owns

(* A process that is spawned owns nothing yet.                             *)
LEMMA ObjectBirth ==
  ASSUME TypeOK, LockObjects, spawned < MaxGenerations,
         spawned' = spawned + 1,
         proc' = [proc EXCEPT ![spawned + 1] = "starting"],
         UNCHANGED <<held, events, field, asked, comp>>
  PROVE  LockObjects'
<1> SUFFICES ASSUME NEW g \in Generations PROVE LockObject(g)'
  BY DEF LockObjects
<1>1. LockObject(g) /\ spawned \in Nat /\ g \in Nat
  BY BoundsAssumption DEF LockObjects, TypeOK, SupervisorOK, Generations
<1>2. Owns(g)' <=> Owns(g)
  BY DEF Owns
<1>3. CASE g = spawned + 1
  <2>1. proc[g] = "unborn" /\ proc'[g] = "starting"
    BY <1>1, <1>3 DEF LockObject, TypeOK, RenderersOK
  <2>2. held[g] = "none" /\ ~Owns(g)
    BY <1>1, <2>1 DEF LockObject, Alive
  <2> QED
    BY <1>1, <1>2, <1>3, <2>1, <2>2 DEF LockObject, Alive
<1>4. CASE g # spawned + 1
  <2>1. proc'[g] = proc[g]
    BY <1>4 DEF TypeOK, RenderersOK
  <2> QED
    BY <1>1, <1>2, <1>4, <2>1 DEF LockObject, Alive
<1> QED
  BY <1>3, <1>4

(* A process that ends takes its lock object with it.                      *)
LEMMA ObjectEnds ==
  ASSUME TypeOK, LockObjects, NEW h \in Generations, Alive(h), ProcessEnds(h)
  PROVE  LockObjects'
<1> SUFFICES ASSUME NEW g \in Generations PROVE LockObject(g)'
  BY DEF LockObjects
<1>1. LockObject(g) /\ spawned' = spawned /\ field' = field /\ comp' = comp
  BY DEF LockObjects, ProcessEnds, counterVars
<1>2. Owns(g)' <=> Owns(g)
  BY <1>1 DEF Owns
<1>3. CASE g = h
  <2>1. /\ proc'[g] = "dead" /\ held'[g] = "none" /\ events'[g] = <<>>
        /\ g \notin asked'
    BY <1>3 DEF ProcessEnds, TypeOK, RenderersOK
  <2>2. ~(g > spawned)
    BY <1>1, <1>3 DEF LockObject, Alive
  <2> QED
    BY <1>1, <2>1, <2>2 DEF LockObject, Alive
<1>4. CASE g # h
  BY <1>1, <1>2, <1>4, ObjectFrame
  DEF ProcessEnds, TypeOK, RenderersOK
<1> QED
  BY <1>3, <1>4

(* The step of one generation h that touches no lock but its own.          *)
LEMMA ObjectOfOne ==
  ASSUME TypeOK, LockObjects, NEW h \in Generations,
         UNCHANGED <<proc, spawned>>,
         \A g \in Generations \ {h} :
           /\ UNCHANGED <<held[g], events[g], field[g]>>
           /\ g \in asked' <=> g \in asked
           /\ Owns(g)' => Owns(g),
         LockObject(h)'
  PROVE  LockObjects'
  BY ObjectFrame DEF LockObjects

LEMMA ObjectAcquire ==
  ASSUME TypeOK, LockObjects, NEW h \in Generations, HandleLockAcquire(h)
  PROVE  LockObjects'
<1>1. /\ held[h] = "none" /\ field[h] /\ proc[h] = "connected"
      /\ held' = [held EXCEPT ![h] = "requested"]
      /\ asked' = asked \union {h}
      /\ UNCHANGED <<proc, field, events, comp, spawned>>
  BY DEF HandleLockAcquire, Drains, counterVars
<1>2. LockObject(h) /\ held'[h] = "requested" /\ h \in asked'
  BY <1>1 DEF LockObjects, TypeOK, RenderersOK
<1>3. ~Owns(h)
  BY <1>1, <1>2 DEF LockObject, Alive
<1>4. LockObject(h)'
  BY <1>1, <1>2, <1>3 DEF LockObject, Alive, Owns
<1> QED
  BY <1>1, <1>4, ObjectOfOne DEF TypeOK, RenderersOK, Owns

LEMMA ObjectRelease ==
  ASSUME TypeOK, LockObjects, NEW h \in Generations, HandleLockRelease(h)
  PROVE  LockObjects'
<1>1. /\ held[h] # "none" /\ events[h] = <<>> /\ proc[h] = "connected"
      /\ held' = [held EXCEPT ![h] = "none"]
      /\ asked' = asked \ {h}
      /\ comp' = IF held[h] = "locked" /\ comp.owner = h
                 THEN [comp EXCEPT !.locked = FALSE, !.owner = NoOwner]
                 ELSE comp
      /\ UNCHANGED <<proc, field, events, spawned>>
  BY DEF HandleLockRelease, Drains, counterVars
<1>2. LockObject(h) /\ held'[h] = "none" /\ h \notin asked'
  BY <1>1 DEF LockObjects, TypeOK, RenderersOK
<1>3. ~Owns(h)'
  <2>1. CASE comp.owner = h /\ held[h] = "locked"
    BY <1>1, <2>1 DEF Owns, TypeOK, CompositorOK
  <2>2. CASE ~(comp.owner = h /\ held[h] = "locked")
    BY <1>1, <1>2, <2>2 DEF Owns, LockObject, Alive
  <2> QED
    BY <2>1, <2>2
<1>4. LockObject(h)'
  BY <1>1, <1>2, <1>3 DEF LockObject, Alive
<1>5. \A g \in Generations \ {h} : Owns(g)' => Owns(g)
  BY <1>1 DEF Owns, TypeOK, CompositorOK
<1> QED
  BY <1>1, <1>4, <1>5, ObjectOfOne DEF TypeOK, RenderersOK

LEMMA AppendToOne ==
  ASSUME NEW a, NEW b
  PROVE  Append(<<a>>, b) = <<a, b>>
<1>1. Append(<<a>>, b) \in Seq({a, b}) /\ <<a, b>> \in Seq({a, b})
  <2>1. <<a>> \in Seq({a, b})
    OBVIOUS
  <2> QED
    BY <2>1
<1>2. Len(Append(<<a>>, b)) = 2 /\ Len(<<a, b>>) = 2
  OBVIOUS
<1>3. \A i \in 1..2 : Append(<<a>>, b)[i] = <<a, b>>[i]
  OBVIOUS
<1> QED
  BY <1>1, <1>2, <1>3, SeqEqual

(* The queues of at most two events a lock object ever has.                *)
LEMMA EventQueues ==
  /\ Tail(<<"locked">>) = <<>>
  /\ Tail(<<"locked", "finished">>) = <<"finished">>
  /\ <<"locked">> # <<"locked", "finished">>
  /\ Append(<<>>, "finished") = <<"finished">>
  /\ Append(<<"locked">>, "finished") = <<"locked", "finished">>
<1>1. Tail(<<"locked">>) = <<>>
  OBVIOUS
<1>2. Tail(<<"locked", "finished">>) = <<"finished">>
  OBVIOUS
<1>3. <<"locked">> # <<"locked", "finished">>
  BY Len(<<"locked">>) # Len(<<"locked", "finished">>)
<1>4. Append(<<>>, "finished") = <<"finished">>
  OBVIOUS
<1>5. Append(<<"locked">>, "finished") = <<"locked", "finished">>
  BY AppendToOne
<1> QED
  BY <1>1, <1>2, <1>3, <1>4, <1>5

LEMMA ObjectLocked ==
  ASSUME TypeOK, LockObjects, NEW h \in Generations, DispatchLocked(h)
  PROVE  LockObjects'
<1>1. /\ Alive(h) /\ events[h] # <<>> /\ Head(events[h]) = "locked"
      /\ events' = [events EXCEPT ![h] = Tail(@)]
      /\ held' = [held EXCEPT ![h] = "locked"]
      /\ UNCHANGED <<proc, field, asked, comp, spawned>>
  BY DEF DispatchLocked, compositorVars, counterVars
<1>2. /\ LockObject(h)
      /\ held'[h] = "locked" /\ events'[h] = Tail(events[h])
  BY <1>1 DEF LockObjects, TypeOK, RenderersOK
<1>3. /\ held[h] = "requested" /\ h \notin asked
      /\ events[h] \in {<<"locked">>, <<"locked", "finished">>}
  BY <1>1, <1>2 DEF LockObject, TypeOK, RenderersOK
<1>4. LockObject(h)'
  BY <1>1, <1>2, <1>3, EventQueues DEF LockObject, Alive, Owns
<1> QED
  BY <1>1, <1>4, ObjectOfOne DEF TypeOK, RenderersOK, Owns

LEMMA ObjectFinished ==
  ASSUME TypeOK, LockObjects, NEW h \in Generations, DispatchFinished(h)
  PROVE  LockObjects'
<1>1. /\ Alive(h) /\ events[h] # <<>> /\ Head(events[h]) = "finished"
      /\ events' = [events EXCEPT ![h] = Tail(@)]
      /\ held' = [held EXCEPT ![h] = "none"]
      /\ UNCHANGED <<proc, field, asked, comp, spawned>>
  BY DEF DispatchFinished, compositorVars, counterVars
<1>2. /\ LockObject(h)
      /\ held'[h] = "none" /\ events'[h] = Tail(events[h])
  BY <1>1 DEF LockObjects, TypeOK, RenderersOK
<1>3. h \notin asked /\ events[h] = <<"finished">> /\ ~Owns(h)
  BY <1>1, <1>2 DEF LockObject, TypeOK, RenderersOK
<1>4. Tail(<<"finished">>) = <<>>
  OBVIOUS
<1>5. LockObject(h)'
  BY <1>1, <1>2, <1>3, <1>4 DEF LockObject, Alive, Owns
<1> QED
  BY <1>1, <1>5, ObjectOfOne DEF TypeOK, RenderersOK, Owns

LEMMA ObjectReload ==
  ASSUME TypeOK, LockObjects, NEW h \in Generations, ConfigReload(h)
  PROVE  LockObjects'
<1>1. /\ held[h] # "none" => ~field[h]
      /\ field' = [field EXCEPT ![h] = ~@]
      /\ UNCHANGED <<proc, held, events, asked, comp, spawned>>
  BY DEF ConfigReload, rendererVars, channelVars, compositorVars, counterVars
<1>2. LockObject(h)
  BY DEF LockObjects
<1>3. held[h] = "none"
  BY <1>1, <1>2 DEF LockObject
<1>4. LockObject(h)'
  BY <1>1, <1>2, <1>3 DEF LockObject, Alive, Owns
<1> QED
  BY <1>1, <1>4, ObjectOfOne DEF TypeOK, RenderersOK, Owns

LEMMA ObjectGrant ==
  ASSUME TypeOK, LockObjects, NEW h \in Generations, CompositorGrants(h)
  PROVE  LockObjects'
<1>1. /\ h \in asked
      /\ comp'.locked /\ comp'.owner = h
      /\ asked' = asked \ {h}
      /\ events' = [events EXCEPT ![h] = Append(@, "locked")]
      /\ UNCHANGED <<proc, held, field, spawned>>
  BY DEF CompositorGrants, rendererVars, counterVars
<1>2. LockObject(h) /\ held[h] = "requested" /\ events[h] = <<>>
  BY <1>1 DEF LockObjects, LockObject, TypeOK, RenderersOK
<1>3. events'[h] = <<"locked">>
  BY <1>1, <1>2 DEF TypeOK, RenderersOK
<1>4. LockObject(h)'
  BY <1>1, <1>2, <1>3 DEF LockObject, Alive, Owns
<1> QED
  BY <1>1, <1>4, ObjectOfOne DEF TypeOK, RenderersOK, Owns

LEMMA ObjectDeny ==
  ASSUME TypeOK, LockObjects, NEW h \in Generations, CompositorDenies(h)
  PROVE  LockObjects'
<1>1. /\ h \in asked
      /\ asked' = asked \ {h}
      /\ events' = [events EXCEPT ![h] = Append(@, "finished")]
      /\ UNCHANGED <<proc, held, field, comp, spawned>>
  BY DEF CompositorDenies, rendererVars, counterVars
<1>2. LockObject(h) /\ held[h] = "requested" /\ events[h] = <<>>
  BY <1>1 DEF LockObjects, LockObject, TypeOK, RenderersOK
<1>3. events'[h] = <<"finished">> /\ <<"locked">> # <<>>
  BY <1>1, <1>2 DEF TypeOK, RenderersOK
<1>4. LockObject(h)'
  BY <1>1, <1>2, <1>3 DEF LockObject, Alive, Owns
<1> QED
  BY <1>1, <1>4, ObjectOfOne DEF TypeOK, RenderersOK, Owns

LEMMA ObjectTaken ==
  ASSUME TypeOK, LockObjects, CompositorFinishes
  PROVE  LockObjects'
<1>1. /\ comp.locked /\ Alive(comp.owner)
      /\ ~comp'.locked
      /\ events' = [events EXCEPT ![comp.owner] = Append(@, "finished")]
      /\ UNCHANGED <<proc, held, field, asked, spawned>>
  BY DEF CompositorFinishes, rendererVars, counterVars, TypeOK, CompositorOK
<1>2. CASE comp.owner \in Generations
  <2>1. PICK h \in Generations : comp.owner = h
    BY <1>2
  <2>2. LockObject(h) /\ Owns(h) /\ Alive(h)
    BY <1>1, <2>1 DEF LockObjects, Owns
  <2>3. /\ h \notin asked
        /\ \/ held[h] = "locked" /\ events[h] = <<>>
           \/ held[h] = "requested" /\ events[h] = <<"locked">>
    BY <2>2 DEF LockObject
  <2>4. /\ events'[h] = Append(events[h], "finished")
        /\ \A g \in Generations \ {h} : UNCHANGED events[g]
    BY <1>1, <2>1 DEF TypeOK, RenderersOK
  <2>5. ~Owns(h)' /\ \A g \in Generations : ~Owns(g)'
    BY <1>1 DEF Owns
  <2>6. LockObject(h)'
    BY <1>1, <2>2, <2>3, <2>4, <2>5, EventQueues DEF LockObject, Alive
  <2> QED
    BY <1>1, <2>4, <2>5, <2>6, ObjectOfOne
<1>3. CASE comp.owner \notin Generations
  <2>1. events' = events
    BY <1>1, <1>3 DEF TypeOK, RenderersOK
  <2> QED
    BY <1>1, <2>1, ObjectFrame DEF LockObjects, Owns
<1> QED
  BY <1>2, <1>3

LEMMA ObjectStep == TypeOK /\ LockObjects /\ [Next]_vars => LockObjects'
<1> SUFFICES ASSUME TypeOK, LockObjects, [Next]_vars PROVE LockObjects'
  OBVIOUS
<1> USE DEF supervisorVars, rendererVars, channelVars, compositorVars,
            counterVars
<1>1. CASE LockRequestedByLogind
  BY <1>1, ObjectSame DEF LockRequestedByLogind
<1>2. CASE SendLockCommand
  BY <1>2, ObjectSame DEF SendLockCommand
<1>3. CASE ReplaceDepartedRenderer
  BY <1>3, ObjectSame, ObjectBirth DEF ReplaceDepartedRenderer, Respawn
<1>4. CASE CooldownExpires
  BY <1>4, ObjectBirth DEF CooldownExpires, Respawn
<1>5. CASE SupervisorStop
  BY <1>5, ObjectSame DEF SupervisorStop
<1>6. CASE SupervisorStart
  BY <1>6, ObjectBirth DEF SupervisorStart
<1>7. CASE CompositorFinishes
  BY <1>7, ObjectTaken
<1>8. ASSUME NEW w \in workers, NEW outcome \in PamOutcomes,
             RecordPamOutcome(w, outcome)
      PROVE  LockObjects'
  BY <1>8, ObjectSame DEF RecordPamOutcome
<1>9. ASSUME NEW t \in timers, ReleaseTimerFires(t)
      PROVE  LockObjects'
  BY <1>9, ObjectSame DEF ReleaseTimerFires
<1>10. ASSUME NEW g \in Generations, SupervisorStep(g)
       PROVE  LockObjects'
  BY <1>10, ObjectSame
  DEF SupervisorStep, Hydrate, DropStaleFrame, RecordLockReport, DispatchLock,
      BeginAuthentication
<1>11. ASSUME NEW g \in Generations, RendererStep(g)
       PROVE  LockObjects'
  <2>1. CASE RendererConnects(g)
    <3>1. /\ proc[g] = "starting" /\ proc' = [proc EXCEPT ![g] = "connected"]
          /\ UNCHANGED <<held, events, field, asked, comp, spawned>>
      BY <2>1 DEF RendererConnects
    <3> SUFFICES ASSUME NEW h \in Generations PROVE LockObject(h)'
      BY DEF LockObjects
    <3>2. LockObject(h) /\ (Owns(h)' <=> Owns(h))
      BY <3>1 DEF LockObjects, Owns
    <3>3. CASE g = h
      BY <3>1, <3>2, <3>3 DEF LockObject, Alive, TypeOK, RenderersOK
    <3>4. CASE g # h
      BY <3>1, <3>2, <3>4, ObjectFrame DEF TypeOK, RenderersOK
    <3> QED
      BY <3>3, <3>4
  <2>2. CASE HandleLockNothing(g) \/ HandleLockRefuse(g)
    BY <2>2, ObjectSame DEF HandleLockNothing, HandleLockRefuse
  <2>3. CASE RendererLosesSupervisor(g)
    BY <2>3, ObjectEnds DEF RendererLosesSupervisor
  <2> QED
    BY <1>11, <2>1, <2>2, <2>3, ObjectAcquire, ObjectRelease, ObjectLocked,
       ObjectFinished DEF RendererStep
<1>12. ASSUME NEW g \in Generations, RendererAsksLock(g) \/ RendererSubmits(g)
       PROVE  LockObjects'
  BY <1>12, ObjectSame DEF RendererAsksLock, RendererSubmits
<1>13. ASSUME NEW g \in Generations, RendererDies(g)
       PROVE  LockObjects'
  BY <1>13, ObjectEnds DEF RendererDies
<1>14. CASE UNCHANGED vars
  BY <1>14, ObjectSame DEF vars
<1> QED
  BY <1>1, <1>2, <1>3, <1>4, <1>5, <1>6, <1>7, <1>8, <1>9, <1>10, <1>11,
     <1>12, <1>13, <1>14, ObjectReload, ObjectGrant, ObjectDeny DEF Next

LEMMA ObjectInit == Init => LockObjects
<1> SUFFICES ASSUME Init, NEW g \in Generations PROVE LockObject(g)
  BY DEF LockObjects
<1>1. /\ spawned = 1 /\ ~comp.locked /\ asked = {}
      /\ held[g] = "none" /\ events[g] = <<>>
      /\ g = 1 \/ proc[g] = "unborn"
  BY DEF Init
<1> QED
  BY <1>1 DEF LockObject, Owns, Generations

(* No edit of the config, in no order with the compositor's answers, takes *)
(* the password field from a lock screen that is requested or up.          *)
THEOREM FieldIsKept == Spec => []HeldLockKeepsItsField
<1>1. LockObjects => HeldLockKeepsItsField
  BY DEF LockObjects, LockObject, HeldLockKeepsItsField
<1> QED
  BY <1>1, ObjectInit, ObjectStep, TypeCorrect, PTL DEF Spec
=============================================================================
