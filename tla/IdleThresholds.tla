--------------------------- MODULE IdleThresholds ---------------------------
(* Idle thresholds: registrations that arrive before the Wayland connection  *)
(* does, the replay that follows it, the fan-out of the compositor's events  *)
(* to the generations that asked, and the gate a logind inhibitor closes     *)
(* (capabilities/idle: the notify half of controller.rs, notify.rs,          *)
(* gate.rs).  Main's loop, the setup task, the event forwarder and the       *)
(* logind watch run on different threads.                                    *)
EXTENDS Naturals, Sequences, FiniteSets, SequencesExt

CONSTANTS Secs,             \* thresholds a config registers
          LastTree,         \* bound: generations 1..LastTree
          MaxRaw,           \* bound: compositor events not yet read
          MaxRequests       \* bound: requests of the Renderers

VARIABLES live,             \* notify is NotifyState::Live
          drained,          \* replay_pending_registrations took the queue
          pending,          \* registrations that came before notify
          replaying,        \* the ones taken, not yet registered
          creating,         \* the replay's entry whose listener is still to be created
          fanout,           \* threshold -> generations it is sent to
          listeners,        \* thresholds with a compositor notification
          seatIdle,         \* those the compositor holds idle
          raw,              \* its events, not yet read
          fan,              \* the event the forwarder is sending, and to whom still
          hand,             \* what it passed through the gate and has not sent
          blocked, idled,   \* IdleGate
          told,             \* thresholds whose last event sent was Idled
          strayed,          \* history: thresholds registered or dropped while the seat was
                            \* idle at them, dropped while being replayed, or with an Idled
                            \* in hand when the gate closed
          wanted,           \* thresholds the tree on the glass has registered
          tree,             \* the generation on the glass
          requests          \* requests made so far

thresholdVars == <<live, drained, pending, replaying, creating, fanout, listeners, seatIdle, raw,
                   fan, hand, blocked, idled, told, strayed, wanted, tree, requests>>
setupVars   == <<live, drained, replaying, creating>>
seatVars    == <<seatIdle, raw>>
forwardVars == <<fan, hand, told>>
gateVars    == <<blocked, idled>>
treeVars    == <<wanted, tree, requests, strayed>>

Trees   == 1..LastTree
Nothing == [sec |-> 0, idle |-> FALSE, to |-> {}]

ThresholdInit ==
  /\ live = FALSE /\ drained = FALSE
  /\ pending = <<>> /\ replaying = <<>> /\ creating = {}
  /\ fanout = <<>> /\ listeners = {}
  /\ seatIdle = {} /\ raw = <<>>
  /\ fan = Nothing /\ hand = Nothing
  /\ blocked = FALSE /\ idled = {} /\ told = {} /\ strayed = {}
  /\ wanted = {} /\ tree = 1 /\ requests = 0

-----------------------------------------------------------------------------
(* The fan-out.                                                              *)

\* register_threshold_entry: a generation is a destination once.
Entry(tr, sec) ==
  [s \in DOMAIN fanout \cup {sec} |->
     (IF s \in DOMAIN fanout THEN fanout[s] ELSE {}) \cup (IF s = sec THEN {tr} ELSE {})]

\* take_unused_listeners, after the entries `dropped` are gone.
TakeUnused(dropped) ==
  LET used == {s \in DOMAIN fanout : \E t \in fanout[s] : <<t, s>> \notin dropped} IN
  /\ fanout' = [s \in used |-> {t \in fanout[s] : <<t, s>> \notin dropped}]
  /\ listeners' = listeners \ (DOMAIN fanout \ used)
  /\ seatIdle' = seatIdle \ (DOMAIN fanout \ used)

\* No event of the threshold stands or is on its way.
AtRest(sec) ==
  sec \notin seatIdle \cup {e.sec : e \in ToSet(raw)} \cup {hand.sec} \cup (IF fan.to = {} THEN {} ELSE {fan.sec})

Strays(keys) ==
  strayed' = strayed \cup {k \in keys : ~AtRest(k[2]) \/ k \in ToSet(replaying)}

\* What stays of s, in its order.
Without(s, gone) ==
  LET kept[i \in 0..Len(s)] ==
        IF i = 0 THEN <<>>
        ELSE IF s[i] \in gone THEN kept[i - 1] ELSE Append(kept[i - 1], s[i])
  IN kept[Len(s)]

\* What is queued goes first, whether notify is live or not.
Unqueue(dropped) == pending' = Without(pending, dropped)

Request ==
  /\ requests < MaxRequests /\ requests' = requests + 1
  /\ UNCHANGED <<setupVars, raw, forwardVars, gateVars, tree>>

RegisterThreshold(sec) ==
  /\ Request
  /\ wanted' = wanted \cup {<<tree, sec>>} /\ Strays({<<tree, sec>>} \ wanted)
  /\ IF live
       THEN /\ fanout' = Entry(tree, sec)
            /\ listeners' = IF sec \in DOMAIN fanout THEN listeners ELSE listeners \cup {sec}
            /\ UNCHANGED pending
       ELSE pending' = Append(pending, <<tree, sec>>) /\ UNCHANGED <<fanout, listeners>>
  /\ UNCHANGED seatIdle

CancelThreshold(sec) ==
  /\ Request
  /\ <<tree, sec>> \in wanted /\ wanted' = wanted \ {<<tree, sec>>}
  /\ Strays({<<tree, sec>>})
  /\ Unqueue({<<tree, sec>>})
  /\ IF live THEN TakeUnused({<<tree, sec>>}) ELSE UNCHANGED <<fanout, listeners, seatIdle>>

\* A reload forgets first; durations and listeners stay for the new tree.
ResetThresholds ==
  /\ Request
  /\ wanted' = {} /\ Strays({tree} \X Secs)
  /\ Unqueue({tree} \X Secs)
  /\ fanout' = IF live THEN [s \in DOMAIN fanout |-> fanout[s] \ {tree}] ELSE fanout
  /\ UNCHANGED <<listeners, seatIdle>>

\* reset_registrations, as the replacement of a dead Renderer calls it.
RendererReplacedHere ==
  /\ tree < LastTree
  /\ tree' = tree + 1 /\ wanted' = {} /\ Strays({tree} \X Secs)
  /\ Unqueue({tree} \X Secs)
  /\ IF live THEN TakeUnused({tree} \X Secs) ELSE UNCHANGED <<fanout, listeners, seatIdle>>
  /\ idled' = {k \in idled : k[1] # tree}
  /\ UNCHANGED <<setupVars, raw, forwardVars, blocked, requests>>

-----------------------------------------------------------------------------
(* The setup task.                                                           *)

GoesLive ==
  /\ ~live /\ live' = TRUE
  /\ UNCHANGED <<drained, pending, replaying, creating, fanout, listeners, seatVars, forwardVars, gateVars, treeVars>>

\* Wrong on purpose, for mutation: the queue is taken before notify is swapped.
MayDrainEarly == TRUE
MayDrain == live

Drain ==
  /\ MayDrain /\ ~drained /\ drained' = TRUE
  /\ replaying' = pending /\ pending' = <<>>
  /\ UNCHANGED <<live, creating, fanout, listeners, seatVars, forwardVars, gateVars, treeVars>>

\* register_threshold for the next of them: the entry under the lock, then its listener.
ReplayEntry ==
  /\ live /\ replaying # <<>> /\ creating = {}
  /\ replaying' = Tail(replaying)
  /\ strayed' = strayed \cup {k \in {Head(replaying)} : ~AtRest(k[2])}
  /\ LET sec == Head(replaying)[2] IN
       /\ fanout' = Entry(Head(replaying)[1], sec)
       /\ creating' = IF sec \in DOMAIN fanout THEN {} ELSE {sec}
  /\ UNCHANGED <<live, drained, pending, listeners, seatVars, forwardVars, gateVars, wanted, tree, requests>>

ReplayListener ==
  /\ creating # {} /\ creating' = {}
  /\ listeners' = listeners \cup creating
  /\ UNCHANGED <<live, drained, replaying, pending, fanout, seatVars, forwardVars, gateVars, treeVars>>

-----------------------------------------------------------------------------
(* The compositor and the forwarder.                                         *)

CompositorIdles(sec) ==
  /\ sec \in listeners \ seatIdle /\ Len(raw) < MaxRaw
  /\ seatIdle' = seatIdle \cup {sec}
  /\ raw' = Append(raw, [sec |-> sec, idle |-> TRUE])
  /\ UNCHANGED <<setupVars, pending, fanout, listeners, forwardVars, gateVars, treeVars>>

CompositorResumes ==
  /\ seatIdle # {} /\ Len(raw) + Cardinality(seatIdle) <= MaxRaw
  /\ raw' = raw \o SetToSeq({[sec |-> s, idle |-> FALSE] : s \in seatIdle})
  /\ seatIdle' = {}
  /\ UNCHANGED <<setupVars, pending, fanout, listeners, forwardVars, gateVars, treeVars>>

\* It copies the destinations out of the registry.
ReadRaw ==
  /\ fan.to = {} /\ hand = Nothing /\ raw # <<>>
  /\ raw' = Tail(raw)
  /\ fan' = [sec |-> Head(raw).sec, idle |-> Head(raw).idle,
             to |-> IF Head(raw).sec \in DOMAIN fanout THEN fanout[Head(raw).sec] ELSE {}]
  /\ UNCHANGED <<setupVars, pending, fanout, listeners, seatIdle, hand, told, gateVars, treeVars>>

\* Wrong on purpose, for mutation: a closed gate does not record what it drops.
ObserveOpen(key, idle) ==
  IF blocked THEN idled ELSE IF idle THEN idled \cup {key} ELSE idled \ {key}

\* IdleGate::observe records the event whether or not it passes.
Observe(key, idle) == IF idle THEN idled \cup {key} ELSE idled \ {key}

\* The gate is released before the event is sent.
PassGate(tr) ==
  /\ hand = Nothing /\ tr \in fan.to
  /\ fan' = [fan EXCEPT !.to = @ \ {tr}]
  /\ idled' = Observe(<<tr, fan.sec>>, fan.idle)
  /\ hand' = IF blocked THEN Nothing ELSE [sec |-> fan.sec, idle |-> fan.idle, to |-> {tr}]
  /\ UNCHANGED <<setupVars, pending, fanout, listeners, seatVars, told, blocked, treeVars>>

SendEvent ==
  /\ hand # Nothing /\ hand' = Nothing
  /\ told' = IF hand.idle THEN told \cup (hand.to \X {hand.sec}) ELSE told \ (hand.to \X {hand.sec})
  /\ UNCHANGED <<setupVars, pending, fanout, listeners, seatVars, fan, gateVars, treeVars>>

\* watch_idle_inhibitors: a block takes back what was told, a release announces what is idle.
SetBlocked ==
  /\ blocked' = ~blocked
  /\ told' = IF blocked' THEN told \ idled ELSE told \cup idled
  /\ strayed' = IF blocked' /\ hand.idle THEN strayed \cup (hand.to \X {hand.sec}) ELSE strayed
  /\ UNCHANGED <<setupVars, pending, fanout, listeners, seatVars, fan, hand, idled, wanted, tree, requests>>

ThresholdNext ==
  \/ \E sec \in Secs : RegisterThreshold(sec) \/ CancelThreshold(sec) \/ CompositorIdles(sec)
  \/ ResetThresholds \/ RendererReplacedHere
  \/ GoesLive \/ Drain \/ ReplayEntry \/ ReplayListener
  \/ CompositorResumes \/ ReadRaw \/ SendEvent \/ SetBlocked
  \/ \E tr \in Trees : PassGate(tr)

ThresholdSpec == ThresholdInit /\ [][ThresholdNext]_thresholdVars

-----------------------------------------------------------------------------
(* A registration is never lost between the two threads that may apply it:   *)
(* what the tree on the glass wants is queued, being replayed, or sent to it *)
(* by a listener (controller.rs: register_threshold under the read guard,    *)
(* the swap before replay_pending_registrations, cancel_threshold).          *)
WantedIsHeard ==
  \A k \in wanted :
    \/ k \in ToSet(pending) /\ ~drained
    \/ k \in ToSet(replaying)
    \/ k[2] \in DOMAIN fanout /\ k[1] \in fanout[k[2]] /\ k[2] \in listeners \cup creating

(* Once the events are out, a threshold the tree registered was told idle    *)
(* exactly when the seat is idle at it and the gate is open, however blocks, *)
(* releases and events crossed.  The exceptions are registrations made or    *)
(* dropped on an idle seat or dropped amid their replay, and an Idled the    *)
(* forwarder had passed and not sent when the gate closed (gate.rs: observe, *)
(* set_blocked; notify.rs: spawn_idle_event_forwarder).                      *)
ToldWhatTheSeatIs ==
  raw = <<>> /\ fan.to = {} /\ hand = Nothing =>
    \A k \in wanted \ strayed :
      (k \in told) <=> (k[2] \in seatIdle /\ ~blocked)
=============================================================================
