------------------------ MODULE NetworkConnect_proofs ------------------------
(***************************************************************************)
(* What holds of every connect, for any number of networks, clicks, keys,  *)
(* cancels and aborts.                                                     *)
(***************************************************************************)
EXTENDS NetworkConnect, TLAPS

TaskRecords ==
  [stage: Stages, intent: Names, attempt: Nat, typed: Names]

(* Each attempt has at most one task, none is newer than the latest, and   *)
(* an aborted one is older.                                                *)
AttemptsInv ==
  /\ \A t \in Tasks : InJoin(t) => tasks[t].attempt \in 1..attempt
  /\ \A t, u \in Tasks :
       InJoin(t) /\ InJoin(u) /\ tasks[t].attempt = tasks[u].attempt => t = u
  /\ \A a \in aborted : a < attempt
  /\ \A a \in activating \union activated \union calls \union unheard :
       a \in 1..attempt
  /\ calls \subseteq unheard

(* NetworkManager runs the join of a task only once it was asked; the      *)
(* latest attempt's running join is known to abort once accepted.          *)
JoinsInv ==
  /\ joined \in {NoAttempt, attempt}
  /\ \A t \in Tasks :
       /\ tasks[t].stage = "asking" =>
            ~Running(tasks[t].attempt) /\ tasks[t].attempt \notin unheard
       /\ (InJoin(t) /\ tasks[t].attempt = attempt /\ Running(attempt))
            => tasks[t].stage = "answered" \/ joined = attempt \/ attempt \in unheard

(* A task that is not born has done nothing.                               *)
BornInv == \A t \in Tasks : t > born => tasks[t].stage = "unborn"

(* A task is at work that will replace or take down the prompt; with an    *)
(* empty slot only one that begins a join, or a cancel, can.               *)
Joins(t) == tasks[t].stage = "ready"
Looks(t) == \/ tasks[t].stage = "spawned"
            \/ tasks[t].stage = "looking" /\ tasks[t].intent = slot

PromptInv ==
  prompt # NoNetwork =>
    \/ slot = prompt
    \/ cancelling # "no"
    \/ \E t \in Tasks : Joins(t)
    \/ slot # NoNetwork /\ \E t \in Tasks : Looks(t)

ConnectInv ==
  /\ TypeOK
  /\ BornInv
  /\ PromptInv
  /\ AttemptsInv
  /\ JoinsInv
  /\ SpinnerIsOwed
  /\ AbortedIsStopped
  /\ OnlyUnwantedIsStopped

JoinsOK == AttemptsInv /\ JoinsInv /\ SpinnerIsOwed /\ AbortedIsStopped
           /\ OnlyUnwantedIsStopped

-----------------------------------------------------------------------------
LEMMA InitConnect == Init => ConnectInv
<1> SUFFICES ASSUME Init PROVE ConnectInv
  OBVIOUS
<1>1. TypeOK
  <2>1. tasks \in [Tasks -> TaskRecords]
    BY DEF Init, Task, TaskRecords, Names, Stages, NoAttempt
  <2>2. requests \in Seq(Requests)
    BY DEF Init
  <2>3. /\ slot \in Names /\ prompt \in Names /\ connecting \in Names
        /\ error \in Names /\ shown \in Names
    BY DEF Init, Names
  <2>5. /\ attempt \in Nat /\ joined \in Nat /\ undone \in Nat
        /\ born \in 0..MaxTasks
    BY NetworkAssumption DEF Init, NoAttempt
  <2>6. cancelling \in {"no", "checks", "clears"} /\ dirty \in BOOLEAN
    BY DEF Init
  <2>4. /\ stops \subseteq Nat /\ activating \subseteq Nat
        /\ activated \subseteq Nat /\ aborted \subseteq Nat /\ late \subseteq Nat
        /\ calls \subseteq Nat /\ unheard \subseteq Nat /\ unstopped \subseteq Nat
    BY DEF Init
  <2> QED
    BY <2>1, <2>2, <2>3, <2>4, <2>5, <2>6 DEF TypeOK, TaskRecords
<1>2. JoinsOK
  BY DEF Init, Task, InJoin, Joining, Verdicts, Running, NoAttempt, JoinsOK,
     AttemptsInv, JoinsInv, AbortedIsStopped, OnlyUnwantedIsStopped,
     SpinnerIsOwed
<1>3. BornInv
  BY DEF Init, Task, BornInv
<1>4. PromptInv
  BY DEF Init, PromptInv
<1> QED
  BY <1>1, <1>2, <1>3, <1>4 DEF ConnectInv, JoinsOK

(* The type invariant is inductive.                                        *)
LEMMA TypeStep == TypeOK /\ [Next]_vars => TypeOK'
<1> SUFFICES ASSUME TypeOK, [Next]_vars PROVE TypeOK'
  OBVIOUS
<1>1. /\ requests \in Seq(Requests) /\ tasks \in [Tasks -> TaskRecords]
      /\ slot \in Names /\ prompt \in Names /\ connecting \in Names
      /\ error \in Names /\ shown \in Names
      /\ attempt \in Nat /\ joined \in Nat /\ undone \in Nat
      /\ born \in 0..MaxTasks /\ MaxTasks \in Nat
      /\ stops \subseteq Nat /\ activating \subseteq Nat
      /\ activated \subseteq Nat /\ aborted \subseteq Nat /\ late \subseteq Nat
      /\ calls \subseteq Nat /\ unheard \subseteq Nat /\ unstopped \subseteq Nat
  BY NetworkAssumption DEF TypeOK, TaskRecords
<1>2. NoNetwork \in Names /\ Networks \subseteq Names /\ NoAttempt \in Nat
  BY DEF Names, NoAttempt
<1>3. \A stage \in Stages, intent \in Names, typed \in Names :
        Task(stage, intent, typed) \in TaskRecords
  BY <1>2 DEF Task, TaskRecords
<1>4. \A t \in Tasks :
        /\ \A stage \in Stages : Moves(t, stage) =>
             tasks' \in [Tasks -> TaskRecords] /\ born' = born
        /\ Ends(t) => tasks' \in [Tasks -> TaskRecords] /\ born' = born
  <2> TAKE t \in Tasks
  <2>1. ASSUME NEW stage \in Stages, Moves(t, stage)
        PROVE  tasks' \in [Tasks -> TaskRecords] /\ born' = born
    BY <1>1, <2>1 DEF Moves, TaskRecords
  <2>2. ASSUME Ends(t) PROVE tasks' \in [Tasks -> TaskRecords] /\ born' = born
    <3>1. Task("done", NoNetwork, NoNetwork) \in TaskRecords
      BY <1>2, <1>3 DEF Stages
    <3> QED
      BY <1>1, <2>2, <3>1 DEF Ends
  <2> QED
    BY <2>1, <2>2
<1>5. \A stage \in Stages, intent \in Names, typed \in Names :
        Spawns(stage, intent, typed) =>
          tasks' \in [Tasks -> TaskRecords] /\ born' \in 0..MaxTasks
  BY <1>1, <1>3 DEF Spawns, Tasks
<1>6. requests # <<>> =>
        /\ Head(requests) \in Requests /\ Tail(requests) \in Seq(Requests)
        /\ Head(requests).kind = "connect" => Head(requests).intent \in Networks
        /\ Head(requests).kind = "submit" => Head(requests).typed \in Networks
  <2>1. requests # <<>> =>
          Head(requests) \in Requests /\ Tail(requests) \in Seq(Requests)
    BY <1>1
  <2>2. \A r \in Requests :
          /\ r.kind = "connect" => r.intent \in Networks
          /\ r.kind = "submit" => r.typed \in Networks
    BY DEF Requests
  <2> QED
    BY <2>1, <2>2
<1>7. /\ {"spawned", "looking", "ready", "asking", "answered", "watching"}
           \subseteq Stages
      /\ Verdicts \subseteq Stages
  BY DEF Stages, Resolving, Joining
<1>8. /\ \A ssid \in Networks : [kind |-> "connect", intent |-> ssid] \in Requests
      /\ \A ssid \in Networks : [kind |-> "submit", typed |-> ssid] \in Requests
      /\ \A kind \in {"cancel", "abort"} : [kind |-> kind] \in Requests
  BY DEF Requests
<1>9. \A request \in Requests :
        Queues(request) => requests' \in Seq(Requests) /\ UNCHANGED cancelling
  BY <1>1 DEF Queues
<1>10. \A kind : Runs(kind) => requests' \in Seq(Requests) /\ UNCHANGED undone
  BY <1>6 DEF Runs
<1>11. ASSUME NEW ssid \in Networks, Click(ssid) PROVE TypeOK'
  BY <1>1, <1>8, <1>9, <1>11
  DEF Click, TypeOK, TaskRecords,
      workerVars, intentVars, attemptVars, taskVars, nmVars, stopVars,
       viewVars
<1>12. ASSUME TypeKey PROVE TypeOK'
  BY <1>1, <1>8, <1>9, <1>12
  DEF TypeKey, Names, TypeOK, TaskRecords,
      workerVars, intentVars, attemptVars, taskVars, nmVars, stopVars,
       viewVars
<1>13. ASSUME NEW kind \in {"cancel", "abort"}, Undo(kind) PROVE TypeOK'
  BY <1>1, <1>8, <1>9, <1>13
  DEF Undo, TypeOK, TaskRecords,
      workerVars, intentVars, attemptVars, taskVars, nmVars, stopVars,
       viewVars
<1>14. ASSUME Stash PROVE TypeOK'
  BY <1>1, <1>2, <1>5, <1>6, <1>7, <1>10, <1>14
  DEF Stash, Runs, TypeOK, TaskRecords,
      workerVars, intentVars, attemptVars, taskVars, nmVars, stopVars,
       viewVars
<1>15. ASSUME SubmitKey PROVE TypeOK'
  BY <1>1, <1>2, <1>5, <1>6, <1>7, <1>10, <1>15
  DEF SubmitKey, Runs, TypeOK, TaskRecords,
      workerVars, intentVars, attemptVars, taskVars, nmVars, stopVars,
       viewVars
<1>16. ASSUME CancelTakes PROVE TypeOK'
  BY <1>1, <1>2, <1>10, <1>16
  DEF CancelTakes, TypeOK, TaskRecords,
      workerVars, intentVars, attemptVars, taskVars, nmVars, stopVars,
       viewVars
<1>17. ASSUME CancelClears PROVE TypeOK'
  BY <1>1, <1>2, <1>17
  DEF CancelClears, TypeOK, TaskRecords,
      workerVars, intentVars, attemptVars, taskVars, nmVars, stopVars,
       viewVars
<1>32. ASSUME CancelChecks PROVE TypeOK'
  BY <1>1, <1>32
  DEF CancelChecks, TypeOK, TaskRecords, intentVars, attemptVars, taskVars,
      nmVars, stopVars, viewVars
<1>18. ASSUME Abort PROVE TypeOK'
  <2>1. /\ attempt' \in Nat /\ joined' \in Nat
        /\ connecting' \in Names /\ error' \in Names
    BY <1>1, <1>2, <1>18 DEF Abort, attemptVars
  <2>3. dirty' \in BOOLEAN
    BY <1>18 DEF Abort, TypeOK
  <2>2. /\ stops' \subseteq Nat /\ aborted' \subseteq Nat
        /\ late' \subseteq Nat /\ unheard' \subseteq Nat /\ unstopped' \subseteq Nat
    BY <1>1, <1>18 DEF Abort, stopVars
  <2> QED
    BY <2>1, <2>2, <2>3, <1>1, <1>10, <1>18
    DEF Abort, TypeOK, TaskRecords, intentVars, taskVars, nmVars
<1>19. ASSUME Push PROVE TypeOK'
  BY <1>1, <1>19
  DEF Push, TypeOK, TaskRecords,
      workerVars, intentVars, attemptVars, taskVars, nmVars, stopVars,
       viewVars
<1>20. ASSUME NEW t \in Tasks, ReadIntent(t) PROVE TypeOK'
  BY <1>1, <1>2, <1>3, <1>4, <1>7, <1>20
  DEF ReadIntent, TypeOK, TaskRecords,
      workerVars, intentVars, attemptVars, taskVars, nmVars, stopVars,
       viewVars
<1>21. ASSUME NEW t \in Tasks, RequestPassword(t) PROVE TypeOK'
  BY <1>1, <1>2, <1>4, <1>21
  DEF RequestPassword, TypeOK, TaskRecords,
      workerVars, intentVars, attemptVars, taskVars, nmVars, stopVars,
       viewVars
<1>22. ASSUME NEW t \in Tasks, ConnectDirectly(t) PROVE TypeOK'
  BY <1>1, <1>2, <1>4, <1>7, <1>22
  DEF ConnectDirectly, TypeOK, TaskRecords,
      workerVars, intentVars, attemptVars, taskVars, nmVars, stopVars,
       viewVars
<1>23. ASSUME NEW t \in Tasks, BeginConnect(t) PROVE TypeOK'
  <2>2. tasks[t] \in TaskRecords /\ attempt + 1 \in Nat
    BY <1>1
  <2>3. tasks[t].intent \in Names
        /\ [tasks[t] EXCEPT !.stage = "asking", !.attempt = attempt + 1]
             \in TaskRecords
    BY <2>2, <1>7 DEF TaskRecords
  <2>4. tasks' = [tasks EXCEPT ![t] =
                    [tasks[t] EXCEPT !.stage = "asking", !.attempt = attempt + 1]]
    BY <1>1, <1>23 DEF BeginConnect
  <2>1. tasks' \in [Tasks -> TaskRecords] /\ connecting' \in Names
    BY <1>1, <2>3, <2>4, <1>23 DEF BeginConnect
  <2> QED
    BY <2>1, <1>1, <1>2, <1>23
    DEF BeginConnect, TypeOK, TaskRecords, workerVars, nmVars, stopVars
<1>24. ASSUME NEW t \in Tasks, NmAccepts(t) PROVE TypeOK'
  BY <1>1, <1>4, <1>7, <1>24
  DEF NmAccepts, TypeOK, TaskRecords,
      workerVars, intentVars, attemptVars, taskVars, nmVars, stopVars,
       viewVars
<1>25. ASSUME NEW t \in Tasks, NmRefuses(t) PROVE TypeOK'
  BY <1>1, <1>4, <1>7, <1>25
  DEF NmRefuses, Verdicts, TypeOK, TaskRecords,
      workerVars, intentVars, attemptVars, taskVars, nmVars, stopVars,
       viewVars
<1>26. ASSUME NEW t \in Tasks, Accept(t) PROVE TypeOK'
  BY <1>1, <1>4, <1>7, <1>26
  DEF Accept, TypeOK, TaskRecords,
      workerVars, intentVars, attemptVars, taskVars, nmVars, stopVars,
       viewVars
<1>27. ASSUME NEW t \in Tasks, ReadVerdict(t) PROVE TypeOK'
  BY <1>1, <1>4, <1>7, <1>27
  DEF ReadVerdict, Verdicts, TypeOK, TaskRecords,
      workerVars, intentVars, attemptVars, taskVars, nmVars, stopVars,
       viewVars
<1>28. ASSUME NEW t \in Tasks, FinishConnect(t) PROVE TypeOK'
  BY <1>1, <1>2, <1>4, <1>28
  DEF FinishConnect, TypeOK, TaskRecords,
      workerVars, intentVars, attemptVars, taskVars, nmVars, stopVars,
       viewVars
<1>29. ASSUME NEW a \in activating \union activated, NmActivates(a) \/ NmEnds(a) PROVE TypeOK'
  BY <1>1, <1>29
  DEF NmActivates, NmEnds, TypeOK, TaskRecords,
      workerVars, intentVars, attemptVars, taskVars, nmVars, stopVars,
       viewVars
<1>33. ASSUME NEW t \in Tasks, CallTimesOut(t) PROVE TypeOK'
  <2>1. tasks[t].attempt \in Nat
    BY <1>1 DEF TaskRecords
  <2>2. calls' \subseteq Nat /\ unheard' \subseteq Nat
    BY <1>1, <1>33, <2>1 DEF CallTimesOut
  <2>3. tasks' \in [Tasks -> TaskRecords] /\ born' = born
    BY <1>4, <1>7, <1>33 DEF CallTimesOut, Verdicts
  <2> QED
    BY <1>1, <1>33, <2>2, <2>3
    DEF CallTimesOut, TypeOK, TaskRecords, workerVars, intentVars, attemptVars,
        viewVars
<1>34. ASSUME NEW a \in calls, NmAcceptsLate(a) PROVE TypeOK'
  BY <1>1, <1>34
  DEF NmAcceptsLate, TypeOK, TaskRecords, workerVars, intentVars, attemptVars,
      taskVars, stopVars, viewVars
<1>30. ASSUME NEW a \in stops, Stop(a) PROVE TypeOK'
  BY <1>1, <1>30
  DEF Stop, TypeOK, TaskRecords,
      workerVars, intentVars, attemptVars, taskVars, nmVars, stopVars,
       viewVars
<1>31. CASE UNCHANGED vars
  BY <1>31 DEF vars, TypeOK,
      workerVars, intentVars, attemptVars, taskVars, nmVars, stopVars,
       viewVars
<1> QED
  BY <1>11, <1>12, <1>13, <1>14, <1>15, <1>16, <1>17, <1>18, <1>19, <1>20, <1>21, <1>22, <1>23, <1>24, <1>25, <1>26, <1>27, <1>28, <1>29, <1>30, <1>31, <1>32, <1>33, <1>34
  DEF Next, Worker, TaskStep
(* Only a spawn touches an unborn task, and it takes the next one.         *)
LEMMA BornStep == TypeOK /\ BornInv /\ [Next]_vars => BornInv'
<1> SUFFICES ASSUME TypeOK, BornInv, [Next]_vars PROVE BornInv'
  OBVIOUS
<1>1. tasks \in [Tasks -> TaskRecords] /\ born \in 0..MaxTasks /\ MaxTasks \in Nat
  BY NetworkAssumption DEF TypeOK, TaskRecords
<1>2. ASSUME UNCHANGED taskVars PROVE BornInv'
  BY <1>2 DEF BornInv, taskVars
<1>3. ASSUME NEW stage, NEW intent, NEW typed, Spawns(stage, intent, typed)
      PROVE  BornInv'
  BY <1>1, <1>3 DEF Spawns, BornInv, Tasks
<1>4. ASSUME born' = born, NEW t \in Tasks, tasks[t].stage # "unborn",
             \A u \in Tasks \ {t} : tasks'[u] = tasks[u]
      PROVE  BornInv'
  BY <1>4 DEF BornInv
<1>5. \A t \in Tasks :
        /\ \A stage : Moves(t, stage) =>
             born' = born /\ \A u \in Tasks \ {t} : tasks'[u] = tasks[u]
        /\ Ends(t) => born' = born /\ \A u \in Tasks \ {t} : tasks'[u] = tasks[u]
  BY <1>1 DEF Moves, Ends
<1>6. ASSUME NEW t \in Tasks, TaskStep(t) PROVE BornInv'
  <2>1. /\ tasks[t].stage # "unborn" /\ born' = born
        /\ \A u \in Tasks \ {t} : tasks'[u] = tasks[u]
    BY <1>1, <1>5, <1>6
    DEF TaskStep, ReadIntent, RequestPassword, ConnectDirectly, BeginConnect,
        NmAccepts, NmRefuses, CallTimesOut, Accept, ReadVerdict, FinishConnect,
        Verdicts,
        taskVars
  <2> QED
    BY <2>1, <1>4
<1>7. ASSUME Worker PROVE BornInv'
  <2>1. CASE Stash
    BY <1>3, <2>1 DEF Stash
  <2>2. CASE SubmitKey
    BY <1>2, <1>3, <2>2 DEF SubmitKey
  <2>3. CASE CancelTakes \/ CancelChecks \/ CancelClears \/ Abort \/ Push
    BY <1>2, <2>3 DEF CancelTakes, CancelChecks, CancelClears, Abort, Push
  <2> QED
    BY <1>7, <2>1, <2>2, <2>3 DEF Worker
<1>8. CASE \/ \E ssid \in Networks : Click(ssid)
           \/ TypeKey
           \/ \E kind \in {"cancel", "abort"} : Undo(kind)
           \/ \E a \in activating \union activated : NmActivates(a) \/ NmEnds(a)
           \/ \E a \in calls : NmAcceptsLate(a)
           \/ \E a \in stops : Stop(a)
  BY <1>2, <1>8 DEF Click, TypeKey, Undo, NmActivates, NmEnds, NmAcceptsLate, Stop
<1>9. CASE UNCHANGED vars
  BY <1>2, <1>9 DEF vars
<1> QED
  BY <1>6, <1>7, <1>8, <1>9 DEF Next

-----------------------------------------------------------------------------
(* A step that touches no attempt, no join and no joining task; it may     *)
(* clear the error.                                                        *)
LEMMA QuietStep ==
  ASSUME JoinsOK, error' \in {error, NoNetwork},
         UNCHANGED <<connecting, attempt, joined, nmVars, stopVars>>,
         \A t \in Tasks :
           \/ tasks'[t] = tasks[t]
           \/ tasks[t].stage \notin Joining /\ tasks'[t].stage \notin Joining
  PROVE  JoinsOK'
<1>1. \A t \in Tasks :
        /\ InJoin(t)' <=> InJoin(t)
        /\ InJoin(t) => tasks'[t] = tasks[t]
  BY DEF InJoin
<1>2. \A t \in Tasks :
        tasks'[t].stage \in {"asking", "answered"} => tasks'[t] = tasks[t]
  BY DEF Joining
<1>3. \A a : Running(a)' <=> Running(a)
  BY DEF Running, nmVars
<1>4. AttemptsInv'
  BY <1>1 DEF JoinsOK, AttemptsInv, nmVars, stopVars
<1>5. JoinsInv'
  BY <1>1, <1>2, <1>3 DEF JoinsOK, JoinsInv, stopVars
<1>6. SpinnerIsOwed'
  BY <1>1 DEF JoinsOK, SpinnerIsOwed
<1>7. AbortedIsStopped'
  <2> SUFFICES ASSUME NEW a \in aborted' \ (unheard' \union unstopped'), Running(a)'
               PROVE  \/ a \in stops'
                      \/ \E t \in Tasks : tasks'[t].stage = "answered"
                                        /\ tasks'[t].attempt = a
    BY DEF AbortedIsStopped
  <2>1. a \in aborted \ (unheard \union unstopped) /\ Running(a) /\ stops' = stops
    BY <1>3 DEF stopVars
  <2>2. CASE a \in stops
    BY <2>1, <2>2
  <2>3. CASE \E t \in Tasks : tasks[t].stage = "answered" /\ tasks[t].attempt = a
    <3>1. PICK t \in Tasks : tasks[t].stage = "answered" /\ tasks[t].attempt = a
      BY <2>3
    <3>2. tasks'[t] = tasks[t]
      BY <1>1, <3>1 DEF InJoin, Joining
    <3> QED
      BY <3>1, <3>2
  <2> QED
    BY <2>1, <2>2, <2>3 DEF JoinsOK, AbortedIsStopped
<1>8. OnlyUnwantedIsStopped'
  BY DEF JoinsOK, OnlyUnwantedIsStopped, stopVars
<1> QED
  BY <1>4, <1>5, <1>6, <1>7, <1>8 DEF JoinsOK

(* A spawn brings no join and touches none.                                *)
LEMMA SpawnIsQuiet ==
  ASSUME TypeOK, BornInv
  PROVE  \A stage, intent, typed :
           stage \notin Joining /\ Spawns(stage, intent, typed) =>
             \A t \in Tasks :
               \/ tasks'[t] = tasks[t]
               \/ tasks[t].stage \notin Joining /\ tasks'[t].stage \notin Joining
<1> SUFFICES ASSUME NEW stage, NEW intent, NEW typed, stage \notin Joining,
                    Spawns(stage, intent, typed), NEW t \in Tasks,
                    t = born + 1
             PROVE  tasks[t].stage \notin Joining /\ tasks'[t].stage \notin Joining
  BY DEF Spawns, TypeOK
<1>1. tasks'[t] = Task(stage, intent, typed)
  BY DEF Spawns, TypeOK
<1>2. tasks[t].stage = "unborn"
  <2>1. born \in Nat
    BY NetworkAssumption DEF TypeOK
  <2> QED
    BY <2>1 DEF BornInv, Tasks
<1> QED
  BY <1>1, <1>2 DEF Task, Joining, Verdicts

(* The attempts, the joins and the spinner, step by step.                  *)
LEMMA JoinsStep == TypeOK /\ BornInv /\ JoinsOK /\ [Next]_vars => JoinsOK'
<1> SUFFICES ASSUME TypeOK, BornInv, JoinsOK, [Next]_vars PROVE JoinsOK'
  OBVIOUS
<1>1. /\ tasks \in [Tasks -> TaskRecords] /\ attempt \in Nat
      /\ activating \subseteq Nat /\ activated \subseteq Nat
      /\ stops \subseteq Nat /\ aborted \subseteq Nat
  BY DEF TypeOK, TaskRecords
<1>2. \A t \in Tasks : Ends(t) =>
        /\ tasks'[t] = Task("done", NoNetwork, NoNetwork)
        /\ \A u \in Tasks \ {t} : tasks'[u] = tasks[u]
  BY <1>1 DEF Ends
<1>3. \A t \in Tasks : \A stage \in Stages : Moves(t, stage) =>
        /\ tasks'[t].stage = stage /\ tasks'[t].intent = tasks[t].intent
        /\ tasks'[t].attempt = tasks[t].attempt
        /\ \A u \in Tasks \ {t} : tasks'[u] = tasks[u]
  BY <1>1 DEF Moves, TaskRecords
<1>4. Task("done", NoNetwork, NoNetwork).stage \notin Joining
  BY DEF Task, Joining, Verdicts
<1>33. calls \subseteq unheard /\ \A a \in unheard : a \in 1..attempt
  BY DEF JoinsOK, AttemptsInv
<1>5. ASSUME NEW ssid \in Networks, Click(ssid) PROVE JoinsOK'
  BY <1>5, QuietStep
  DEF Click, attemptVars, taskVars, nmVars, stopVars
<1>6. ASSUME TypeKey PROVE JoinsOK'
  BY <1>6, QuietStep
  DEF TypeKey, attemptVars, taskVars, nmVars, stopVars
<1>7. ASSUME NEW kind \in {"cancel", "abort"}, Undo(kind) PROVE JoinsOK'
  BY <1>7, QuietStep
  DEF Undo, attemptVars, taskVars, nmVars, stopVars
<1>8. ASSUME CancelTakes PROVE JoinsOK'
  BY <1>8, QuietStep
  DEF CancelTakes, attemptVars, taskVars, nmVars, stopVars
<1>9. ASSUME CancelClears PROVE JoinsOK'
  BY <1>9, QuietStep
  DEF CancelClears, attemptVars, taskVars, nmVars, stopVars
<1>30. ASSUME CancelChecks PROVE JoinsOK'
  BY <1>30, QuietStep
  DEF CancelChecks, attemptVars, taskVars, nmVars, stopVars
<1>10. ASSUME Push PROVE JoinsOK'
  BY <1>10, QuietStep
  DEF Push, attemptVars, taskVars, nmVars, stopVars
<1>11. ASSUME Stash PROVE JoinsOK'
  <2>1. \A t \in Tasks : \/ tasks'[t] = tasks[t]
                         \/ tasks[t].stage \notin Joining /\ tasks'[t].stage \notin Joining
    BY <1>11, SpawnIsQuiet DEF Stash, Joining, Verdicts
  <2> QED
    BY <1>11, <2>1, QuietStep DEF Stash, attemptVars
<1>12. ASSUME SubmitKey PROVE JoinsOK'
  <2>1. \A t \in Tasks : \/ tasks'[t] = tasks[t]
                         \/ tasks[t].stage \notin Joining /\ tasks'[t].stage \notin Joining
    BY <1>12, SpawnIsQuiet DEF SubmitKey, Joining, Verdicts, taskVars
  <2> QED
    BY <1>12, <2>1, QuietStep DEF SubmitKey, attemptVars
<1>13. ASSUME NEW t \in Tasks, ReadIntent(t) PROVE JoinsOK'
  BY <1>13, <1>1, <1>2, <1>4, QuietStep
  DEF ReadIntent, Task, Joining, Verdicts, attemptVars, taskVars, nmVars, stopVars
<1>14. ASSUME NEW t \in Tasks, RequestPassword(t) PROVE JoinsOK'
  BY <1>14, <1>1, <1>2, <1>4, QuietStep
  DEF RequestPassword, Joining, Verdicts, attemptVars, taskVars, nmVars, stopVars
<1>15. ASSUME NEW t \in Tasks, ConnectDirectly(t) PROVE JoinsOK'
  BY <1>15, <1>1, <1>2, <1>3, <1>4, QuietStep
  DEF ConnectDirectly, Joining, Verdicts, Stages, attemptVars, taskVars, nmVars, stopVars
<1>16. ASSUME NEW t \in Tasks, InJoin(t), NEW stage \in Joining, Moves(t, stage),
              UNCHANGED <<connecting, error, attempt, aborted>>,
              activating' \union activated' \union calls' \union unheard'
                \subseteq activating \union activated \union calls
                          \union unheard \union {tasks[t].attempt},
              calls' \subseteq unheard'
       PROVE  AttemptsInv' /\ SpinnerIsOwed'
  <2>1. \A u \in Tasks : /\ tasks'[u].attempt = tasks[u].attempt
                         /\ tasks'[u].intent = tasks[u].intent
                         /\ InJoin(u)' <=> InJoin(u)
    <3>1. stage \in Stages
      BY <1>16 DEF Stages
    <3>2. /\ tasks'[t].stage = stage /\ tasks'[t].intent = tasks[t].intent
          /\ tasks'[t].attempt = tasks[t].attempt
          /\ \A u \in Tasks \ {t} : tasks'[u] = tasks[u]
      BY <1>3, <1>16, <3>1
    <3> QED
      BY <1>16, <3>2 DEF InJoin
  <2>2. AttemptsInv'
    <3>1. \A u \in Tasks : InJoin(u)' => tasks'[u].attempt \in 1..attempt'
      BY <1>16, <2>1 DEF JoinsOK, AttemptsInv
    <3>2. \A u, v \in Tasks :
            InJoin(u)' /\ InJoin(v)' /\ tasks'[u].attempt = tasks'[v].attempt => u = v
      BY <2>1 DEF JoinsOK, AttemptsInv
    <3>3. /\ \A a \in aborted' : a < attempt'
          /\ \A a \in activating' \union activated' \union calls' \union unheard' :
               a \in 1..attempt'
          /\ calls' \subseteq unheard'
      BY <1>16 DEF JoinsOK, AttemptsInv
    <3> QED
      BY <3>1, <3>2, <3>3 DEF AttemptsInv
  <2>3. SpinnerIsOwed'
    BY <1>16, <2>1 DEF JoinsOK, SpinnerIsOwed
  <2> QED
    BY <2>2, <2>3
<1>17. ASSUME NEW t \in Tasks, Ends(t), tasks[t].attempt # attempt,
              UNCHANGED <<connecting, error, attempt, aborted, unheard, nmVars>>
       PROVE  AttemptsInv' /\ SpinnerIsOwed'
  <2>1. \A u \in Tasks : InJoin(u)' => InJoin(u) /\ tasks'[u] = tasks[u]
    BY <1>2, <1>4, <1>17 DEF InJoin
  <2>2. \A u \in Tasks : InJoin(u) /\ tasks[u].attempt = attempt
                           => InJoin(u)' /\ tasks'[u] = tasks[u]
    BY <1>2, <1>17 DEF InJoin
  <2>3. AttemptsInv'
    BY <1>17, <2>1 DEF JoinsOK, AttemptsInv, nmVars
  <2>4. SpinnerIsOwed'
    BY <1>17, <2>1, <2>2 DEF JoinsOK, SpinnerIsOwed
  <2> QED
    BY <2>3, <2>4
<1>18. ASSUME UNCHANGED <<attemptVars, taskVars, aborted, calls, unheard>>,
              activating' \union activated' \subseteq activating \union activated
       PROVE  AttemptsInv' /\ JoinsInv' /\ SpinnerIsOwed'
  <2>1. \A t \in Tasks : (InJoin(t)' <=> InJoin(t)) /\ tasks'[t] = tasks[t]
    BY <1>18 DEF InJoin, taskVars
  <2>2. \A a : Running(a)' => Running(a)
    BY <1>18 DEF Running
  <2>3. AttemptsInv'
    BY <1>18, <2>1 DEF JoinsOK, AttemptsInv, attemptVars
  <2>4. JoinsInv'
    BY <1>18, <2>1, <2>2 DEF JoinsOK, JoinsInv, attemptVars
  <2>5. SpinnerIsOwed'
    BY <1>18, <2>1 DEF JoinsOK, SpinnerIsOwed, attemptVars
  <2> QED
    BY <2>3, <2>4, <2>5
<1>19. ASSUME NEW a \in activating \union activated, NmActivates(a) \/ NmEnds(a)
       PROVE  JoinsOK'
  <2>1. activating' \union activated' \subseteq activating \union activated
    BY <1>19 DEF NmActivates, NmEnds
  <2>2. AttemptsInv' /\ JoinsInv' /\ SpinnerIsOwed'
    BY <1>18, <1>19, <2>1 DEF NmActivates, NmEnds, stopVars
  <2>3. AbortedIsStopped'
    BY <1>19, <2>1 DEF NmActivates, NmEnds, JoinsOK, AbortedIsStopped, Running,
       taskVars, stopVars
  <2>4. OnlyUnwantedIsStopped'
    BY <1>19 DEF NmActivates, NmEnds, JoinsOK, OnlyUnwantedIsStopped, stopVars
  <2> QED
    BY <2>2, <2>3, <2>4 DEF JoinsOK
<1>20. ASSUME NEW a \in stops, Stop(a) PROVE JoinsOK'
  <2>1. activating' \union activated' \subseteq activating \union activated
    BY <1>20 DEF Stop
  <2>2. AttemptsInv' /\ JoinsInv' /\ SpinnerIsOwed'
    BY <1>18, <1>20, <2>1 DEF Stop
  <2>3. AbortedIsStopped'
    <3>1. CASE activating' = activating \ {a} /\ activated' = activated \ {a}
      BY <1>20, <3>1 DEF Stop, JoinsOK, AbortedIsStopped, Running, taskVars
    <3>2. CASE unstopped' = unstopped \union {a}
      BY <1>20, <2>1, <3>2 DEF Stop, JoinsOK, AbortedIsStopped, Running, taskVars
    <3> QED
      BY <1>20, <3>1, <3>2 DEF Stop
  <2>4. OnlyUnwantedIsStopped'
    BY <1>20 DEF Stop, JoinsOK, OnlyUnwantedIsStopped
  <2> QED
    BY <2>2, <2>3, <2>4 DEF JoinsOK
<1>21. ASSUME Abort PROVE JoinsOK'
  <2>1. CASE connecting = NoNetwork
    <3>1. UNCHANGED <<attemptVars, stopVars, nmVars, taskVars>>
      BY <1>21, <2>1 DEF Abort
    <3> QED
      BY <3>1, QuietStep DEF attemptVars, taskVars
  <2>2. CASE connecting # NoNetwork
    <3>1. /\ connecting' = NoNetwork /\ error' = NoNetwork
          /\ attempt' = attempt + 1 /\ joined' = NoAttempt
          /\ stops' = stops \union ({joined} \ {NoAttempt})
          /\ aborted' = aborted \union {attempt} /\ UNCHANGED <<late, unheard, unstopped>>
          /\ tasks' = tasks /\ UNCHANGED nmVars
      BY <1>21, <2>2 DEF Abort, taskVars
    <3>2. /\ \A t \in Tasks : (InJoin(t)' <=> InJoin(t)) /\ tasks'[t] = tasks[t]
          /\ \A a : Running(a)' <=> Running(a)
      BY <3>1 DEF InJoin, Running, nmVars
    <3>3. AttemptsInv'
      BY <1>1, <3>1, <3>2 DEF JoinsOK, AttemptsInv, nmVars
    <3>4. \A t \in Tasks : InJoin(t) => tasks[t].attempt # attempt + 1
      BY <1>1 DEF JoinsOK, AttemptsInv
    <3>5. JoinsInv'
      BY <3>1, <3>2, <3>4 DEF JoinsOK, JoinsInv
    <3>6. SpinnerIsOwed'
      BY <3>1, <3>2, <3>4 DEF SpinnerIsOwed
    <3>7. AbortedIsStopped'
      <4> SUFFICES ASSUME NEW a \in aborted' \ (unheard' \union unstopped'), Running(a),
                          a \notin stops'
                   PROVE  \E t \in Tasks : tasks[t].stage = "answered"
                                           /\ tasks[t].attempt = a
        BY <3>1, <3>2 DEF AbortedIsStopped
      <4>1. CASE a \in aborted
        BY <4>1, <3>1 DEF JoinsOK, AbortedIsStopped
      <4>2. CASE a = attempt
        <5>1. PICK t \in Tasks : InJoin(t) /\ tasks[t].attempt = attempt
          BY <2>2 DEF JoinsOK, SpinnerIsOwed
        <5>2. tasks[t].stage = "answered" \/ joined = attempt
          BY <3>1, <4>2, <5>1 DEF JoinsOK, JoinsInv
        <5>3. attempt # NoAttempt
          BY <1>1, <5>1 DEF JoinsOK, AttemptsInv, NoAttempt
        <5> QED
          BY <3>1, <4>2, <5>1, <5>2, <5>3
      <4> QED
        BY <3>1, <4>1, <4>2
    <3>8. OnlyUnwantedIsStopped'
      BY <3>1 DEF JoinsOK, JoinsInv, OnlyUnwantedIsStopped
    <3> QED
      BY <3>3, <3>5, <3>6, <3>7, <3>8 DEF JoinsOK
  <2> QED
    BY <2>1, <2>2
<1>22. ASSUME NEW t \in Tasks, BeginConnect(t) PROVE JoinsOK'
  <2>1. /\ tasks[t].stage = "ready" /\ attempt' = attempt + 1
        /\ joined' = NoAttempt
        /\ connecting' = tasks[t].intent /\ error' = NoNetwork
        /\ UNCHANGED <<nmVars, stopVars>>
    BY <1>22 DEF BeginConnect
  <2>2. /\ tasks'[t].stage = "asking" /\ tasks'[t].attempt = attempt + 1
        /\ tasks'[t].intent = tasks[t].intent
        /\ \A u \in Tasks \ {t} : tasks'[u] = tasks[u]
    BY <1>1, <1>22 DEF BeginConnect, TaskRecords
  <2>3. /\ ~InJoin(t) /\ InJoin(t)'
        /\ \A u \in Tasks \ {t} : InJoin(u)' <=> InJoin(u)
    BY <2>1, <2>2 DEF InJoin, Joining, Verdicts
  <2>4. \A u \in Tasks : InJoin(u) => tasks[u].attempt # attempt + 1
    BY <1>1 DEF JoinsOK, AttemptsInv
  <2>5. \A a : Running(a)' => Running(a) /\ a # attempt + 1
    BY <1>1, <2>1 DEF Running, nmVars, JoinsOK, AttemptsInv
  <2>6. AttemptsInv'
    BY <1>1, <2>1, <2>2, <2>3, <2>4 DEF JoinsOK, AttemptsInv, nmVars, stopVars
  <2>11. unheard' = unheard /\ attempt + 1 \notin unheard
    BY <1>1, <1>33, <2>1 DEF stopVars
  <2>7. JoinsInv'
    BY <2>1, <2>2, <2>3, <2>4, <2>5, <2>11 DEF JoinsOK, JoinsInv
  <2>8. SpinnerIsOwed'
    BY <2>1, <2>2, <2>3, <2>4 DEF SpinnerIsOwed
  <2>9. AbortedIsStopped'
    BY <2>1, <2>2, <2>5 DEF JoinsOK, AbortedIsStopped, stopVars
  <2>10. OnlyUnwantedIsStopped'
    BY <2>1 DEF JoinsOK, OnlyUnwantedIsStopped, stopVars
  <2> QED
    BY <2>6, <2>7, <2>8, <2>9, <2>10 DEF JoinsOK
<1>23. ASSUME NEW t \in Tasks, NmAccepts(t) PROVE JoinsOK'
  <2>1. /\ tasks[t].stage = "asking" /\ Moves(t, "answered")
        /\ activating' = {tasks[t].attempt} /\ activated' = {}
        /\ UNCHANGED <<connecting, error, attempt, joined, calls, stopVars>>
    BY <1>23 DEF NmAccepts, attemptVars
  <2>2. /\ tasks'[t].stage = "answered" /\ tasks'[t].attempt = tasks[t].attempt
        /\ \A u \in Tasks \ {t} : tasks'[u] = tasks[u]
    BY <1>3, <2>1 DEF Stages, Joining
  <2>3. InJoin(t) /\ "answered" \in Joining
    BY <2>1 DEF InJoin, Joining
  <2>4. AttemptsInv' /\ SpinnerIsOwed'
    BY <1>16, <1>33, <2>1, <2>3 DEF stopVars
  <2>5. \A a : Running(a)' <=> a = tasks[t].attempt
    BY <2>1 DEF Running
  <2>6. \A u \in Tasks \ {t} : InJoin(u) => tasks[u].attempt # tasks[t].attempt
    BY <2>3 DEF JoinsOK, AttemptsInv
  <2>7. JoinsInv'
    BY <2>1, <2>2, <2>5, <2>6 DEF JoinsOK, JoinsInv, InJoin, Joining, stopVars
  <2>8. AbortedIsStopped'
    BY <2>2, <2>5 DEF AbortedIsStopped
  <2>9. OnlyUnwantedIsStopped'
    BY <2>1 DEF JoinsOK, OnlyUnwantedIsStopped, stopVars
  <2> QED
    BY <2>4, <2>7, <2>8, <2>9 DEF JoinsOK
(* A task that moves on, while the record and NetworkManager stand still,  *)
(* to a stage that is neither asking nor answered.                         *)
<1>24. ASSUME NEW t \in Tasks, InJoin(t), NEW stage \in Joining \ {"asking", "answered"},
              Moves(t, stage), tasks[t].stage # "answered",
              UNCHANGED <<attemptVars, stopVars, nmVars>>,
              tasks[t].stage = "asking" \/ tasks[t].stage = "watching"
       PROVE  JoinsOK'
  <2>1. AttemptsInv' /\ SpinnerIsOwed'
    BY <1>16, <1>24, <1>33 DEF attemptVars, stopVars, nmVars
  <2>2. /\ tasks'[t].stage = stage /\ tasks'[t].attempt = tasks[t].attempt
        /\ \A u \in Tasks \ {t} : tasks'[u] = tasks[u]
    BY <1>3, <1>24 DEF Stages
  <2>3. \A a : Running(a)' <=> Running(a)
    BY <1>24 DEF Running, nmVars
  <2>4. JoinsInv'
    BY <1>24, <2>2, <2>3 DEF JoinsOK, JoinsInv, InJoin, attemptVars, stopVars
  <2>5. AbortedIsStopped'
    BY <1>24, <2>2, <2>3 DEF JoinsOK, AbortedIsStopped, stopVars
  <2>6. OnlyUnwantedIsStopped'
    BY <1>24 DEF JoinsOK, OnlyUnwantedIsStopped, stopVars
  <2> QED
    BY <2>1, <2>4, <2>5, <2>6 DEF JoinsOK
<1>25. ASSUME NEW t \in Tasks, NmRefuses(t) PROVE JoinsOK'
  BY <1>24, <1>25 DEF NmRefuses, InJoin, Joining, Verdicts
<1>31. ASSUME NEW t \in Tasks, CallTimesOut(t) PROVE JoinsOK'
  <2>1. /\ tasks[t].stage = "asking" /\ InJoin(t) /\ Moves(t, "failed")
        /\ calls' = calls \union {tasks[t].attempt}
        /\ unheard' = unheard \union {tasks[t].attempt}
        /\ UNCHANGED <<attemptVars, activating, activated, stops, aborted, late,
                       unstopped>>
    BY <1>31 DEF CallTimesOut, InJoin, Joining
  <2>2. /\ tasks'[t].stage = "failed" /\ tasks'[t].attempt = tasks[t].attempt
        /\ \A u \in Tasks \ {t} : tasks'[u] = tasks[u]
    BY <1>3, <2>1 DEF Stages, Joining, Verdicts
  <2>3. \A a : Running(a)' <=> Running(a)
    BY <2>1 DEF Running
  <2>4. AttemptsInv' /\ SpinnerIsOwed'
    BY <1>16, <1>33, <2>1 DEF attemptVars, Joining, Verdicts
  <2>5. \A u \in Tasks \ {t} : InJoin(u) => tasks[u].attempt # tasks[t].attempt
    BY <2>1 DEF JoinsOK, AttemptsInv
  <2>6. \A u \in Tasks : InJoin(u)' =>
          InJoin(u) /\ tasks'[u].attempt = tasks[u].attempt
    BY <2>1, <2>2 DEF InJoin
  <2>7. \A u \in Tasks : tasks'[u].stage = "asking" =>
          u # t /\ InJoin(u) /\ tasks'[u] = tasks[u]
    BY <2>2 DEF InJoin, Joining
  <2>8. JoinsInv'
    <3>1. joined' \in {NoAttempt, attempt'}
      BY <2>1 DEF attemptVars, JoinsOK, JoinsInv
    <3>2. \A u \in Tasks : tasks'[u].stage = "asking" =>
            ~Running(tasks[u].attempt) /\ tasks'[u].attempt \notin unheard'
      BY <2>1, <2>3, <2>5, <2>7 DEF JoinsOK, JoinsInv
    <3>3. ASSUME NEW u \in Tasks, InJoin(u)', tasks'[u].attempt = attempt',
                 Running(attempt)'
          PROVE  \/ tasks'[u].stage = "answered" \/ joined' = attempt'
                 \/ attempt' \in unheard'
      <4>1. CASE u = t
        BY <2>1, <2>2, <3>3, <4>1
      <4>2. CASE u # t
        BY <2>1, <2>2, <2>3, <2>6, <3>3, <4>2 DEF attemptVars, JoinsOK, JoinsInv
      <4> QED
        BY <4>1, <4>2
    <3> QED
      BY <2>3, <2>7, <3>1, <3>2, <3>3 DEF JoinsInv
  <2>9. AbortedIsStopped'
    BY <2>1, <2>2, <2>3 DEF JoinsOK, AbortedIsStopped
  <2>10. OnlyUnwantedIsStopped'
    BY <2>1 DEF JoinsOK, OnlyUnwantedIsStopped
  <2> QED
    BY <2>4, <2>8, <2>9, <2>10 DEF JoinsOK
<1>32. ASSUME NEW a \in calls, NmAcceptsLate(a) PROVE JoinsOK'
  <2>1. /\ calls' = calls \ {a} /\ activating' = {a} /\ activated' = {}
        /\ UNCHANGED <<attemptVars, taskVars, stopVars>>
    BY <1>32 DEF NmAcceptsLate
  <2>2. a \in unheard /\ a \in 1..attempt
    BY DEF JoinsOK, AttemptsInv
  <2>3. \A b : Running(b)' => b = a
    BY <2>1 DEF Running
  <2>4. \A t \in Tasks : (InJoin(t)' <=> InJoin(t)) /\ tasks'[t] = tasks[t]
    BY <2>1 DEF InJoin, taskVars
  <2>5. AttemptsInv'
    BY <2>1, <2>2, <2>4 DEF JoinsOK, AttemptsInv, attemptVars, stopVars
  <2>6. JoinsInv'
    BY <2>1, <2>2, <2>3, <2>4 DEF JoinsOK, JoinsInv, attemptVars, stopVars
  <2>7. SpinnerIsOwed'
    BY <2>1, <2>4 DEF JoinsOK, SpinnerIsOwed, attemptVars
  <2>8. AbortedIsStopped'
    BY <2>1, <2>2, <2>3 DEF AbortedIsStopped, stopVars
  <2>9. OnlyUnwantedIsStopped'
    BY <2>1 DEF JoinsOK, OnlyUnwantedIsStopped, stopVars
  <2> QED
    BY <2>5, <2>6, <2>7, <2>8, <2>9 DEF JoinsOK
<1>26. ASSUME NEW t \in Tasks, ReadVerdict(t) PROVE JoinsOK'
  <2>1. PICK stage \in Verdicts : Moves(t, stage)
    BY <1>26 DEF ReadVerdict, Verdicts
  <2>2. stage \in Joining \ {"asking", "answered"}
    BY <2>1 DEF Joining, Verdicts
  <2>3. tasks[t].stage = "watching" /\ UNCHANGED <<attemptVars, stopVars, nmVars>>
    BY <1>26 DEF ReadVerdict
  <2>4. InJoin(t)
    BY <2>3 DEF InJoin, Joining
  <2> QED
    BY <1>24, <2>1, <2>2, <2>3, <2>4
<1>27. ASSUME NEW t \in Tasks, Accept(t) PROVE JoinsOK'
  <2>1. /\ tasks[t].stage = "answered" /\ InJoin(t)
        /\ UNCHANGED <<connecting, error, attempt, aborted, unheard, unstopped,
                       nmVars>>
    BY <1>27 DEF Accept, InJoin, Joining
  <2>2. \A a : Running(a)' <=> Running(a)
    BY <2>1 DEF Running, nmVars
  <2>3. CASE tasks[t].attempt = attempt
    <3>1. joined' = attempt /\ Moves(t, "watching") /\ UNCHANGED <<stops, late>>
      BY <1>27, <2>3 DEF Accept, IsLatest
    <3>2. AttemptsInv' /\ SpinnerIsOwed'
      BY <1>16, <1>33, <2>1, <3>1 DEF Joining, nmVars
    <3>3. /\ tasks'[t].stage = "watching" /\ tasks'[t].attempt = attempt
          /\ \A u \in Tasks \ {t} : tasks'[u] = tasks[u]
      BY <1>3, <2>3, <3>1 DEF Stages, Joining
    <3>4. JoinsInv'
      BY <2>1, <2>2, <3>1, <3>3 DEF JoinsOK, JoinsInv, InJoin
    <3>5. \A a \in aborted : a # attempt
      BY <1>1 DEF JoinsOK, AttemptsInv
    <3>6. AbortedIsStopped'
      BY <2>1, <2>2, <2>3, <3>1, <3>3, <3>5 DEF JoinsOK, AbortedIsStopped
    <3>7. OnlyUnwantedIsStopped'
      BY <2>1, <3>1 DEF JoinsOK, OnlyUnwantedIsStopped
    <3> QED
      BY <3>2, <3>4, <3>6, <3>7 DEF JoinsOK
  <2>4. CASE tasks[t].attempt # attempt
    <3>1. /\ stops' = stops \union {tasks[t].attempt}
          /\ late' = late \union {tasks[t].attempt}
          /\ Ends(t) /\ joined' = joined
      BY <1>27, <2>4 DEF Accept, IsLatest
    <3>2. AttemptsInv' /\ SpinnerIsOwed'
      BY <1>17, <2>1, <2>4, <3>1
    <3>3. /\ tasks'[t].stage \notin Joining
          /\ \A u \in Tasks \ {t} : tasks'[u] = tasks[u]
      BY <1>2, <1>4, <3>1
    <3>4. JoinsInv'
      BY <2>1, <2>2, <3>1, <3>3 DEF JoinsOK, JoinsInv, InJoin, Joining
    <3>5. AbortedIsStopped'
      BY <2>1, <2>2, <3>1, <3>3 DEF JoinsOK, AbortedIsStopped
    <3>6. OnlyUnwantedIsStopped'
      BY <2>1, <3>1 DEF JoinsOK, OnlyUnwantedIsStopped
    <3> QED
      BY <3>2, <3>4, <3>5, <3>6 DEF JoinsOK
  <2> QED
    BY <2>3, <2>4
<1>28. ASSUME NEW t \in Tasks, FinishConnect(t) PROVE JoinsOK'
  <2>1. /\ tasks[t].stage \in Verdicts /\ Ends(t)
        /\ UNCHANGED <<attempt, nmVars, stopVars>>
    BY <1>28 DEF FinishConnect
  <2>2. /\ InJoin(t) /\ tasks[t].stage \notin {"asking", "answered"}
    BY <2>1 DEF InJoin, Joining, Verdicts
  <2>3. /\ tasks'[t].stage \notin Joining
        /\ \A u \in Tasks \ {t} : tasks'[u] = tasks[u]
    BY <1>2, <1>4, <2>1
  <2>4. \A a : Running(a)' <=> Running(a)
    BY <2>1 DEF Running, nmVars
  <2>5. AbortedIsStopped'
    BY <2>1, <2>2, <2>3, <2>4 DEF JoinsOK, AbortedIsStopped, stopVars
  <2>6. OnlyUnwantedIsStopped'
    BY <2>1 DEF JoinsOK, OnlyUnwantedIsStopped, stopVars
  <2>7. CASE tasks[t].attempt # attempt
    <3>1. UNCHANGED <<connecting, error, joined>>
      BY <1>28, <2>7 DEF FinishConnect, IsLatest
    <3>2. AttemptsInv' /\ SpinnerIsOwed'
      BY <1>17, <2>1, <2>7, <3>1 DEF stopVars
    <3>3. JoinsInv'
      BY <2>1, <2>3, <2>4, <3>1 DEF JoinsOK, JoinsInv, InJoin, Joining, stopVars
    <3> QED
      BY <2>5, <2>6, <3>2, <3>3 DEF JoinsOK
  <2>8. CASE tasks[t].attempt = attempt
    <3>1. connecting' = NoNetwork /\ joined' = NoAttempt
      BY <1>28, <2>8 DEF FinishConnect, IsLatest
    <3>2. \A u \in Tasks : InJoin(u)' =>
            /\ InJoin(u) /\ tasks'[u] = tasks[u] /\ tasks[u].attempt # attempt
      BY <2>2, <2>3, <2>8 DEF InJoin, JoinsOK, AttemptsInv
    <3>3. AttemptsInv'
      BY <2>1, <3>2 DEF JoinsOK, AttemptsInv, nmVars, stopVars
    <3>4. \A u \in Tasks : tasks'[u].stage = "asking" => InJoin(u)'
      BY DEF InJoin, Joining
    <3>5. JoinsInv'
      BY <2>1, <2>4, <3>1, <3>2, <3>4 DEF JoinsOK, JoinsInv, stopVars
    <3>6. SpinnerIsOwed'
      BY <2>1, <3>1, <3>2 DEF SpinnerIsOwed
    <3> QED
      BY <2>5, <2>6, <3>3, <3>5, <3>6 DEF JoinsOK
  <2> QED
    BY <2>7, <2>8
<1>29. CASE UNCHANGED vars
  BY <1>29, QuietStep DEF vars, attemptVars, taskVars
<1> QED
  BY <1>5, <1>6, <1>7, <1>8, <1>9, <1>10, <1>11, <1>12, <1>13, <1>14, <1>15,
     <1>19, <1>20, <1>21, <1>22, <1>23, <1>25, <1>26, <1>27, <1>28, <1>29,
     <1>30, <1>31, <1>32
  DEF Next, Worker, TaskStep

-----------------------------------------------------------------------------
(* The prompt and the slot, step by step.                                  *)
LEMMA PromptStep == TypeOK /\ PromptInv /\ [Next]_vars => PromptInv'
<1> SUFFICES ASSUME TypeOK, PromptInv, [Next]_vars PROVE PromptInv'
  OBVIOUS
<1>1. tasks \in [Tasks -> TaskRecords] /\ slot \in Names
      /\ born \in 0..MaxTasks /\ MaxTasks \in Nat
  BY NetworkAssumption DEF TypeOK, TaskRecords
<1>2. \A t \in Tasks :
        /\ \A stage \in Stages : Moves(t, stage) =>
             tasks'[t].stage = stage /\ \A u \in Tasks \ {t} : tasks'[u] = tasks[u]
        /\ Ends(t) => \A u \in Tasks \ {t} : tasks'[u] = tasks[u]
  BY <1>1 DEF Moves, Ends, TaskRecords
(* The tasks that matter stay as they are, and so do prompt and slot.      *)
<1>3. ASSUME UNCHANGED <<slot, prompt, cancelling>>,
             \A t \in Tasks : Joins(t) \/ Looks(t) => tasks'[t] = tasks[t]
      PROVE  PromptInv'
  <2>1. \A t \in Tasks : (Joins(t) => Joins(t)') /\ (Looks(t) => Looks(t)')
    BY <1>3 DEF Joins, Looks
  <2> QED
    BY <1>3, <2>1 DEF PromptInv
<1>4. \A stage \in Stages, intent \in Names, typed \in Names :
        Spawns(stage, intent, typed) => \E t \in Tasks : tasks'[t].stage = stage
  <2> TAKE stage \in Stages, intent \in Names, typed \in Names
  <2> HAVE Spawns(stage, intent, typed)
  <2>1. born + 1 \in Tasks /\ tasks'[born + 1] = Task(stage, intent, typed)
    BY <1>1 DEF Spawns, Tasks
  <2> QED
    BY <2>1 DEF Task
<1>5. CASE \/ \E ssid \in Networks : Click(ssid)
           \/ TypeKey
           \/ \E kind \in {"cancel", "abort"} : Undo(kind)
           \/ \E a \in activating \union activated : NmActivates(a) \/ NmEnds(a)
           \/ \E a \in calls : NmAcceptsLate(a)
           \/ \E a \in stops : Stop(a)
           \/ Abort \/ Push
  BY <1>3, <1>5
  DEF Click, TypeKey, Undo, Queues, NmActivates, NmEnds, NmAcceptsLate, Stop,
      Abort, Push,
      intentVars, taskVars, workerVars
<1>6. CASE UNCHANGED vars
  BY <1>3, <1>6 DEF vars, intentVars, taskVars, workerVars
<1>7. CASE CancelTakes \/ CancelChecks \/ CancelClears
  BY <1>7 DEF CancelTakes, CancelChecks, CancelClears, intentVars, PromptInv
<1>8. ASSUME Stash PROVE PromptInv'
  <2>1. slot' \in Networks
    BY <1>8 DEF Stash, Runs, TypeOK, Requests
  <2>2. \E t \in Tasks : tasks'[t].stage = "spawned"
    BY <1>4, <1>8 DEF Stash, Names, Stages, Resolving
  <2> QED
    BY <2>1, <2>2, NetworkAssumption DEF PromptInv, Looks
<1>9. ASSUME SubmitKey PROVE PromptInv'
  <2>1. CASE Prompted
    <3>1. Head(requests).typed \in Names
      BY <1>9 DEF SubmitKey, Runs, TypeOK, Requests, Names
    <3>2. \E t \in Tasks : tasks'[t].stage = "ready"
      BY <1>1, <1>4, <1>9, <2>1, <3>1 DEF SubmitKey, Stages
    <3> QED
      BY <3>2 DEF PromptInv, Joins
  <2>2. CASE ~Prompted
    BY <1>3, <1>9, <2>2 DEF SubmitKey, taskVars
  <2> QED
    BY <2>1, <2>2
<1>10. ASSUME NEW t \in Tasks, ReadIntent(t) PROVE PromptInv'
  <2>1. CASE slot = NoNetwork
    <3>1. \A u \in Tasks : Joins(u) => Joins(u)'
      BY <1>2, <1>10, <2>1 DEF ReadIntent, Joins
    <3> QED
      BY <1>10, <2>1, <3>1 DEF ReadIntent, intentVars, workerVars, PromptInv
  <2>2. CASE slot # NoNetwork
    <3>1. tasks'[t] = Task("looking", slot, NoNetwork)
      BY <1>1, <1>10, <2>2 DEF ReadIntent
    <3> QED
      BY <1>10, <2>2, <3>1
      DEF ReadIntent, Task, intentVars, PromptInv, Looks
  <2> QED
    BY <2>1, <2>2
<1>11. ASSUME NEW t \in Tasks, RequestPassword(t) PROVE PromptInv'
  <2>1. CASE IsLatestClick(t)
    BY <1>11, <2>1 DEF RequestPassword, IsLatestClick, PromptInv
  <2>2. CASE ~IsLatestClick(t)
    BY <1>2, <1>3, <1>11, <2>2
    DEF RequestPassword, IsLatestClick, Joins, Looks, workerVars
  <2> QED
    BY <2>1, <2>2
<1>12. ASSUME NEW t \in Tasks, ConnectDirectly(t) PROVE PromptInv'
  <2>1. CASE IsLatestClick(t)
    BY <1>2, <1>12, <2>1 DEF ConnectDirectly, Joins, Stages, PromptInv
  <2>2. CASE ~IsLatestClick(t)
    BY <1>2, <1>3, <1>12, <2>2
    DEF ConnectDirectly, IsLatestClick, Joins, Looks, workerVars
  <2> QED
    BY <2>1, <2>2
<1>13. ASSUME NEW t \in Tasks, BeginConnect(t) PROVE PromptInv'
  BY <1>13 DEF BeginConnect, PromptInv
<1>14. ASSUME NEW t \in Tasks,
              \/ NmAccepts(t) \/ NmRefuses(t) \/ CallTimesOut(t)
              \/ Accept(t) \/ ReadVerdict(t)
       PROVE  PromptInv'
  <2>1. /\ UNCHANGED <<slot, prompt, cancelling>>
        /\ tasks[t].stage \in {"asking", "answered", "watching"}
        /\ \A u \in Tasks \ {t} : tasks'[u] = tasks[u]
    BY <1>2, <1>14
    DEF NmAccepts, NmRefuses, CallTimesOut, Accept, ReadVerdict, Stages, Joining,
        Verdicts,
        intentVars, workerVars
  <2> QED
    BY <1>3, <2>1 DEF Joins, Looks
<1>15. ASSUME NEW t \in Tasks, FinishConnect(t) PROVE PromptInv'
  <2>1. /\ tasks[t].stage \in Verdicts /\ cancelling' = cancelling
        /\ \A u \in Tasks \ {t} : tasks'[u] = tasks[u]
    BY <1>2, <1>15 DEF FinishConnect, workerVars
  <2>2. \/ UNCHANGED <<slot, prompt>>
        \/ slot' = prompt'
    BY <1>15 DEF FinishConnect, intentVars
  <2> QED
    BY <1>3, <2>1, <2>2 DEF Joins, Looks, Verdicts, PromptInv
<1> QED
  BY <1>5, <1>6, <1>7, <1>8, <1>9, <1>10, <1>11, <1>12, <1>13, <1>14, <1>15
  DEF Next, Worker, TaskStep

-----------------------------------------------------------------------------
THEOREM ConnectInvariant == Spec => []ConnectInv
<1>1. ConnectInv /\ [Next]_vars => ConnectInv'
  BY TypeStep, BornStep, PromptStep, JoinsStep DEF ConnectInv, JoinsOK
<1> QED
  BY <1>1, InitConnect, PTL DEF Spec

(* A spinner turns exactly for the join that owes it a verdict             *)
(* (begin_connect, finish_connect, abort_connect), for any number of       *)
(* clicks, cancels and aborts.                                             *)
THEOREM SpinnerHasAJoin == Spec => []SpinnerIsOwed
<1>1. ConnectInv => SpinnerIsOwed
  BY DEF ConnectInv
<1> QED
  BY <1>1, ConnectInvariant, PTL

(* A prompt on screen has its intent in the slot, or somebody at work who  *)
(* replaces or takes it down (take_prompted_intent, request_password,      *)
(* cancel_connect).                                                        *)
THEOREM PromptCanBeAnswered == Spec => []PromptIsAnswerable
<1>1. ConnectInv => PromptIsAnswerable
  BY DEF ConnectInv, PromptInv, PromptIsAnswerable, Joins, Looks
<1> QED
  BY <1>1, ConnectInvariant, PTL

(* NetworkManager runs no aborted join that nobody is about to stop        *)
(* (abort_connect, accept).                                                *)
THEOREM AbortsAreKept == Spec => []AbortedIsStopped
<1>1. ConnectInv => AbortedIsStopped
  BY DEF ConnectInv
<1> QED
  BY <1>1, ConnectInvariant, PTL

(* No stop reaches a join that was neither aborted nor late                *)
(* (begin_connect forgets the join of the attempt before it).              *)
THEOREM StopsAreMeant == Spec => []OnlyUnwantedIsStopped
<1>1. ConnectInv => OnlyUnwantedIsStopped
  BY DEF ConnectInv
<1> QED
  BY <1>1, ConnectInvariant, PTL

=============================================================================
