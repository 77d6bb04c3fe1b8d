--------------------------- MODULE NetworkConnect ---------------------------
(***************************************************************************)
(* mantle.network's connect: the one pending intent, the password prompt,  *)
(* the latest attempt and the join NetworkManager (external) accepted for  *)
(* it.  Clicks, keys, cancels and aborts reach the worker in the order the *)
(* Renderer sent them; lookups, joins and stops run in tasks of their own  *)
(* on a runtime of two threads, so between two lock sections of one task   *)
(* anything may happen.                                                    *)
(***************************************************************************)
EXTENDS Naturals, Sequences, FiniteSets

CONSTANTS
  Networks,         (* SSIDs                                                *)
  NoNetwork,
  MaxTasks,         (* bound: clicks and keys that start a task             *)
  MaxUndone,        (* bound: cancels and aborts                            *)
  MaxQueue          (* bound: requests the worker has not taken             *)

ASSUME NetworkAssumption ==
  /\ NoNetwork \notin Networks
  /\ MaxTasks \in Nat /\ MaxUndone \in Nat /\ MaxQueue \in Nat

Tasks == 1..MaxTasks
NoAttempt == 0

(* PendingNetworkConnect is its SSID: `hidden` only weighs on whether a    *)
(* lookup asks for a key, which is a choice here.                          *)
Names == Networks \union {NoNetwork}

(* A task resolves a click (spawned, looking) or joins: ready to begin its *)
(* attempt, asking NetworkManager, answered by it, watching the            *)
(* activation, and with a verdict.                                         *)
Resolving == {"spawned", "looking"}
Verdicts  == {"connected", "failed", "rejected"}
Joining   == {"asking", "answered", "watching"} \union Verdicts
Stages    == {"unborn", "ready", "done"} \union Resolving \union Joining

VARIABLES
  requests,         (* the worker's queue                                   *)
  cancelling,       (* what the worker still has to do for a cancel         *)
  slot,             (* pending_connect                                      *)
  prompt,           (* NetworkState.password_ssid                           *)
  connecting,       (* NetworkState.connecting_ssid                         *)
  error,            (* the network NetworkState.connect_error names         *)
  attempt,          (* Attempt.id                                           *)
  joined,           (* the attempt whose join Attempt.joined is             *)
  tasks,            (* stage, intent and attempt of each.  typed is         *)
                    (* history: the prompt shown when its key was typed     *)
  stops,            (* joins a task is about to stop                        *)
  activating,       (* NetworkManager: attempts whose activation goes on    *)
  activated,        (* NetworkManager: attempts whose activation stands     *)
  calls,            (* NetworkManager: join requests it still holds though  *)
                    (* the call timed out                                   *)
  dirty,            (* a NetworkSignal::Changed is queued                   *)
  shown,            (* the prompt the Renderer read last                    *)
  aborted,          (* history: attempts the user aborted                   *)
  late,             (* history: attempts accepted after a newer one or an   *)
                    (* abort                                                *)
  unheard,          (* history: attempts whose join request timed out       *)
  unstopped,        (* history: attempts whose stop failed                  *)
  born,             (* tasks so far                                         *)
  undone            (* cancels and aborts so far                            *)

workerVars  == <<requests, cancelling, undone>>
intentVars  == <<slot, prompt>>
attemptVars == <<connecting, error, attempt, joined>>
taskVars    == <<tasks, born>>
nmVars      == <<activating, activated, calls>>
stopVars    == <<stops, aborted, late, unheard, unstopped>>
viewVars    == <<dirty, shown>>

vars == <<workerVars, intentVars, attemptVars, taskVars, nmVars, stopVars,
          viewVars>>

Requests == [kind: {"connect"}, intent: Networks]
            \union [kind: {"submit"}, typed: Networks]
            \union [kind: {"cancel", "abort"}]

Task(stage, intent, typed) ==
  [stage |-> stage, intent |-> intent, attempt |-> NoAttempt, typed |-> typed]

(* The type invariant.                                                     *)
TypeOK ==
  /\ requests \in Seq(Requests)
  /\ cancelling \in {"no", "checks", "clears"} /\ dirty \in BOOLEAN
  /\ slot \in Names
  /\ prompt \in Names /\ connecting \in Names /\ error \in Names /\ shown \in Names
  /\ attempt \in Nat /\ joined \in Nat
  /\ tasks \in [Tasks -> [stage: Stages, intent: Names,
                          attempt: Nat, typed: Names]]
  /\ stops \subseteq Nat /\ activating \subseteq Nat /\ activated \subseteq Nat
  /\ aborted \subseteq Nat /\ late \subseteq Nat
  /\ calls \subseteq Nat /\ unheard \subseteq Nat /\ unstopped \subseteq Nat
  /\ born \in 0..MaxTasks /\ undone \in Nat

Init ==
  /\ requests = <<>> /\ cancelling = "no" /\ undone = 0
  /\ slot = NoNetwork /\ prompt = NoNetwork
  /\ connecting = NoNetwork /\ error = NoNetwork
  /\ attempt = 0 /\ joined = NoAttempt
  /\ tasks = [t \in Tasks |-> Task("unborn", NoNetwork, NoNetwork)]
  /\ born = 0
  /\ activating = {} /\ activated = {} /\ calls = {}
  /\ stops = {} /\ aborted = {} /\ late = {} /\ unheard = {}
  /\ unstopped = {}
  /\ dirty = FALSE /\ shown = NoNetwork

-----------------------------------------------------------------------------
(* What the user does, and the cancel a respawn queues on the user's       *)
(* behalf (forget_departed_requests).                                      *)

Queues(request) ==
  /\ Len(requests) < MaxQueue
  /\ requests' = Append(requests, request) /\ UNCHANGED cancelling

Click(ssid) ==
  /\ born + Len(requests) < MaxTasks
  /\ Queues([kind |-> "connect", intent |-> ssid]) /\ UNCHANGED undone
  /\ UNCHANGED <<intentVars, attemptVars, taskVars, nmVars, stopVars, viewVars>>

TypeKey ==
  /\ shown # NoNetwork /\ born + Len(requests) < MaxTasks
  /\ Queues([kind |-> "submit", typed |-> shown]) /\ UNCHANGED undone
  /\ UNCHANGED <<intentVars, attemptVars, taskVars, nmVars, stopVars, viewVars>>

Undo(kind) ==
  /\ undone < MaxUndone /\ undone' = undone + 1
  /\ Queues([kind |-> kind])
  /\ UNCHANGED <<intentVars, attemptVars, taskVars, nmVars, stopVars, viewVars>>

-----------------------------------------------------------------------------
(* The worker runs one request at a time.                                  *)

Runs(kind) ==
  /\ cancelling = "no" /\ requests # <<>> /\ Head(requests).kind = kind
  /\ requests' = Tail(requests) /\ UNCHANGED undone

Spawns(stage, intent, typed) ==
  /\ born < MaxTasks /\ born' = born + 1
  /\ tasks' = [tasks EXCEPT ![born + 1] = Task(stage, intent, typed)]

(* stash_connect_intent, and the task that resolves it.                    *)
Stash ==
  /\ Runs("connect") /\ UNCHANGED cancelling
  /\ slot' = Head(requests).intent
  /\ Spawns("spawned", NoNetwork, NoNetwork)
  /\ UNCHANGED <<prompt, attemptVars, nmVars, stopVars, viewVars>>

Prompted == slot # NoNetwork /\ prompt = slot

(* take_prompted_intent, and the task that joins with the key.             *)
SubmitKey ==
  /\ Runs("submit") /\ UNCHANGED cancelling
  /\ \/ /\ Prompted
        /\ slot' = NoNetwork
        /\ Spawns("ready", slot, Head(requests).typed)
     \/ ~Prompted /\ UNCHANGED <<slot, taskVars>>
  /\ UNCHANGED <<prompt, attemptVars, nmVars, stopVars, viewVars>>

(* cancel_connect: three lock sections.                                    *)
CancelTakes ==
  /\ Runs("cancel")
  /\ cancelling' = IF slot = NoNetwork THEN "checks" ELSE "clears"
  /\ slot' = NoNetwork
  /\ UNCHANGED <<prompt, attemptVars, taskVars, nmVars, stopVars, viewVars>>

CancelChecks ==
  /\ cancelling = "checks"
  /\ cancelling' = IF prompt = NoNetwork THEN "no" ELSE "clears"
  /\ UNCHANGED <<requests, undone, intentVars, attemptVars, taskVars, nmVars,
                 stopVars, viewVars>>

CancelClears ==
  /\ cancelling = "clears" /\ cancelling' = "no"
  /\ prompt' = NoNetwork /\ error' = NoNetwork /\ dirty' = TRUE
  /\ UNCHANGED <<requests, undone, slot, connecting, attempt, joined, taskVars,
                 nmVars, stopVars, shown>>

(* abort_connect, and the task that stops the join.                        *)
Abort ==
  /\ Runs("abort") /\ UNCHANGED cancelling
  /\ \/ connecting = NoNetwork
        /\ UNCHANGED <<attemptVars, stopVars, dirty>>
     \/ /\ connecting # NoNetwork
        /\ connecting' = NoNetwork /\ error' = NoNetwork
        /\ attempt' = attempt + 1 /\ joined' = NoAttempt
        /\ stops' = stops \union ({joined} \ {NoAttempt})
        /\ aborted' = aborted \union {attempt} /\ UNCHANGED <<late, unheard, unstopped>>
        /\ dirty' = TRUE
  /\ UNCHANGED <<intentVars, taskVars, nmVars, shown>>

(* handle_signal: the state read from NetworkManager keeps the join fields *)
(* as they are when it is done, and goes to the Renderer.                  *)
Push ==
  /\ cancelling = "no" /\ dirty
  /\ dirty' = FALSE /\ shown' = prompt
  /\ UNCHANGED <<workerVars, intentVars, attemptVars, taskVars, nmVars, stopVars>>

-----------------------------------------------------------------------------
(* resolve_connect_intent.  What the lookups say of a network is           *)
(* NetworkManager's: a choice, even between two of them.                   *)

Moves(t, stage) == tasks' = [tasks EXCEPT ![t].stage = stage] /\ UNCHANGED born

Ends(t) == tasks' = [tasks EXCEPT ![t] = Task("done", NoNetwork, NoNetwork)]
           /\ UNCHANGED born

ReadIntent(t) ==
  /\ tasks[t].stage = "spawned"
  /\ \/ slot = NoNetwork /\ Ends(t)
     \/ /\ slot # NoNetwork
        /\ tasks' = [tasks EXCEPT ![t] = Task("looking", slot, NoNetwork)]
        /\ UNCHANGED born
  /\ UNCHANGED <<workerVars, intentVars, attemptVars, nmVars, stopVars, viewVars>>

AnyClickIsLatest(t) == TRUE        (* wrong on purpose, for mutation        *)

IsLatestClick(t) == slot = tasks[t].intent

(* request_password.                                                       *)
RequestPassword(t) ==
  /\ tasks[t].stage = "looking" /\ Ends(t)
  /\ \/ /\ IsLatestClick(t)
        /\ prompt' = tasks[t].intent /\ error' = NoNetwork /\ dirty' = TRUE
     \/ ~IsLatestClick(t) /\ UNCHANGED <<prompt, error, dirty>>
  /\ UNCHANGED <<workerVars, slot, connecting, attempt, joined, nmVars,
                 stopVars, shown>>

ConnectDirectly(t) ==
  /\ tasks[t].stage = "looking"
  /\ \/ IsLatestClick(t) /\ slot' = NoNetwork /\ Moves(t, "ready")
     \/ ~IsLatestClick(t) /\ UNCHANGED slot /\ Ends(t)
  /\ UNCHANGED <<workerVars, prompt, attemptVars, nmVars, stopVars, viewVars>>

-----------------------------------------------------------------------------
(* connect: one attempt.                                                   *)

(* Wrong on purpose, for mutation: an attempt inherits the join of the     *)
(* one before it.                                                          *)
BeginInherits(t) ==
  /\ tasks[t].stage = "ready"
  /\ tasks' = [tasks EXCEPT ![t].stage = "asking", ![t].attempt = attempt + 1]
  /\ attempt' = attempt + 1
  /\ connecting' = tasks[t].intent /\ error' = NoNetwork
  /\ prompt' = NoNetwork /\ dirty' = TRUE
  /\ UNCHANGED <<workerVars, slot, born, joined, nmVars, stopVars, shown>>

(* begin_connect.                                                          *)
BeginConnect(t) ==
  /\ tasks[t].stage = "ready"
  /\ tasks' = [tasks EXCEPT ![t].stage = "asking", ![t].attempt = attempt + 1]
  /\ attempt' = attempt + 1 /\ joined' = NoAttempt
  /\ connecting' = tasks[t].intent /\ error' = NoNetwork
  /\ prompt' = NoNetwork /\ dirty' = TRUE
  /\ UNCHANGED <<workerVars, slot, born, nmVars, stopVars, shown>>

(* NetworkManager accepts the join; the device has one activation.         *)
NmAccepts(t) ==
  /\ tasks[t].stage = "asking" /\ Moves(t, "answered")
  /\ activating' = {tasks[t].attempt} /\ activated' = {}
  /\ UNCHANGED <<workerVars, intentVars, attemptVars, calls, stopVars, viewVars>>

AnyIsLatest(t) == TRUE             (* wrong on purpose, for mutation        *)

IsLatest(t) == attempt = tasks[t].attempt

(* accept, and the stop of a join that comes too late.                     *)
Accept(t) ==
  /\ tasks[t].stage = "answered"
  /\ \/ /\ IsLatest(t)
        /\ joined' = attempt /\ Moves(t, "watching")
        /\ UNCHANGED <<stops, late>>
     \/ /\ ~IsLatest(t)
        /\ stops' = stops \union {tasks[t].attempt}
        /\ late' = late \union {tasks[t].attempt}
        /\ Ends(t) /\ UNCHANGED joined
  /\ UNCHANGED <<workerVars, intentVars, connecting, error, attempt, aborted,
                 unheard, unstopped, nmVars, viewVars>>

(* Wrong on purpose, for mutation: a join that never started has no        *)
(* verdict.                                                                *)
RefusalIsDropped(t) ==
  /\ tasks[t].stage = "asking" /\ Ends(t)
  /\ UNCHANGED <<workerVars, intentVars, attemptVars, nmVars, stopVars, viewVars>>

(* NetworkManager refuses the join, or there is no Wi-Fi device.           *)
NmRefuses(t) ==
  /\ tasks[t].stage = "asking" /\ Moves(t, "failed")
  /\ UNCHANGED <<workerVars, intentVars, attemptVars, nmVars, stopVars, viewVars>>

(* The call times out (with_call_timeout) and NetworkManager, which still  *)
(* holds the request, may accept the join later: nobody hears of it.       *)
CallTimesOut(t) ==
  /\ tasks[t].stage = "asking" /\ Moves(t, "failed")
  /\ calls' = calls \union {tasks[t].attempt}
  /\ unheard' = unheard \union {tasks[t].attempt}
  /\ UNCHANGED <<workerVars, intentVars, attemptVars, activating, activated,
                 stops, aborted, late, unstopped, viewVars>>

NmAcceptsLate(a) ==
  /\ a \in calls /\ calls' = calls \ {a}
  /\ activating' = {a} /\ activated' = {}
  /\ UNCHANGED <<workerVars, intentVars, attemptVars, taskVars, stopVars, viewVars>>

NmActivates(a) ==
  /\ a \in activating
  /\ activating' = activating \ {a} /\ activated' = activated \union {a}
  /\ UNCHANGED <<workerVars, intentVars, attemptVars, taskVars, calls, stopVars,
                 viewVars>>

NmEnds(a) ==
  /\ a \in activating \union activated
  /\ activating' = activating \ {a} /\ activated' = activated \ {a}
  /\ UNCHANGED <<workerVars, intentVars, attemptVars, taskVars, calls, stopVars,
                 viewVars>>

Running(a) == a \in activating \union activated

(* activation_outcome, under the ceiling of watch_activation, and the      *)
(* lookup that decides whether a rejected key is asked for again.          *)
ReadVerdict(t) ==
  /\ tasks[t].stage = "watching"
  /\ \/ tasks[t].attempt \in activated /\ Moves(t, "connected")
     \/ ~Running(tasks[t].attempt) /\ Moves(t, "rejected")
     \/ Moves(t, "failed")
  /\ UNCHANGED <<workerVars, intentVars, attemptVars, nmVars, stopVars, viewVars>>

(* finish_connect.                                                         *)
FinishConnect(t) ==
  LET verdict == tasks[t].stage
      reopens == verdict = "rejected" /\ slot = NoNetwork
  IN  /\ verdict \in Verdicts /\ Ends(t)
      /\ \/ ~IsLatest(t)
            /\ UNCHANGED <<intentVars, connecting, error, joined, dirty>>
         \/ /\ IsLatest(t)
            /\ connecting' = NoNetwork /\ joined' = NoAttempt /\ dirty' = TRUE
            /\ error' = IF verdict = "connected" THEN NoNetwork
                        ELSE tasks[t].intent
            /\ slot' = IF reopens THEN tasks[t].intent ELSE slot
            /\ prompt' = IF reopens THEN tasks[t].intent ELSE prompt
      /\ UNCHANGED <<workerVars, attempt, nmVars, stopVars, shown>>

(* stop: NetworkManager ends the activation, or the bind, the delete or the*)
(* deactivation fails or times out.  A failure is logged and the stop is   *)
(* not tried again: the join goes on.                                      *)
Stop(a) ==
  /\ a \in stops /\ stops' = stops \ {a}
  /\ \/ /\ activating' = activating \ {a} /\ activated' = activated \ {a}
        /\ UNCHANGED unstopped
     \/ /\ unstopped' = unstopped \union {a}
        /\ UNCHANGED <<activating, activated>>
  /\ UNCHANGED <<workerVars, intentVars, attemptVars, taskVars, aborted, late,
                 unheard, calls, viewVars>>

-----------------------------------------------------------------------------
Worker == Stash \/ SubmitKey \/ CancelTakes \/ CancelChecks \/ CancelClears \/ Abort \/ Push

TaskStep(t) ==
  \/ ReadIntent(t)
  \/ RequestPassword(t) \/ ConnectDirectly(t)
  \/ BeginConnect(t)
  \/ NmAccepts(t) \/ NmRefuses(t) \/ CallTimesOut(t)
  \/ Accept(t)
  \/ ReadVerdict(t)
  \/ FinishConnect(t)

Next ==
  \/ \E ssid \in Networks : Click(ssid)
  \/ TypeKey
  \/ \E kind \in {"cancel", "abort"} : Undo(kind)
  \/ Worker
  \/ \E t \in Tasks : TaskStep(t)
  \/ \E a \in activating \union activated : NmActivates(a) \/ NmEnds(a)
  \/ \E a \in calls : NmAcceptsLate(a)
  \/ \E a \in stops : Stop(a)

Spec == Init /\ [][Next]_vars

(* The worker and every task run on; D-Bus calls return (the connection    *)
(* has a method timeout) and a watch ends at its ceiling.                  *)
Fairness ==
  /\ WF_vars(Worker)
  /\ \A t \in Tasks : WF_vars(TaskStep(t))
  /\ \A a \in 1..(MaxTasks + MaxUndone) : WF_vars(Stop(a))

FairSpec == Spec /\ Fairness

-----------------------------------------------------------------------------
(* Properties *)

InJoin(t) == tasks[t].stage \in Joining

(* The spinner runs exactly while the latest attempt is owed a verdict, on *)
(* the network that attempt joins, and never beside an error: no aborted   *)
(* or older join's verdict lands on it, and none is forgotten.             *)
SpinnerIsOwed ==
  /\ connecting # NoNetwork =>
       /\ \E t \in Tasks :
            /\ InJoin(t) /\ tasks[t].attempt = attempt
            /\ tasks[t].intent = connecting
       /\ error = NoNetwork
  /\ \A t \in Tasks :
       InJoin(t) /\ tasks[t].attempt = attempt => connecting = tasks[t].intent

(* A prompt can be answered: the intent its key will be paired with is in  *)
(* the slot, or somebody is at work who replaces or takes down the prompt. *)
PromptIsAnswerable ==
  prompt # NoNetwork =>
    \/ slot = prompt
    \/ cancelling # "no"
    \/ \E t \in Tasks :
         \/ tasks[t].stage \in {"spawned", "ready"}
         \/ tasks[t].stage = "looking" /\ tasks[t].intent = slot

(* A join the user aborted does not go on unnoticed, however late          *)
(* NetworkManager accepts it: its stop is on its way, or is decided by the *)
(* task that got the answer (abort_connect, accept).  It goes on only when *)
(* its call timed out before the answer, or NetworkManager was asked to    *)
(* stop it and failed to.                                                  *)
AbortedIsStopped ==
  \A a \in aborted \ (unheard \union unstopped) : Running(a) =>
    \/ a \in stops
    \/ \E t \in Tasks : tasks[t].stage = "answered" /\ tasks[t].attempt = a

(* Only a join that was aborted or accepted too late is stopped: an abort  *)
(* never stops an earlier join that a newer attempt replaced.              *)
OnlyUnwantedIsStopped == stops \subseteq aborted \union late

(* Liveness.  The spinner stops (begin_connect, finish_connect).            *)
SpinnerStops == connecting # NoNetwork ~> connecting = NoNetwork
=============================================================================
