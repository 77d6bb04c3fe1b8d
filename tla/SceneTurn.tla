----------------------------- MODULE SceneTurn -----------------------------
(* One turn of the Renderer's loop: the frames the socket thread hands over  *)
(* and the eventfd that wakes the poll, the one dirty flag of the scene, the *)
(* pass that takes it, and what a pass leaves for a later turn: the deadline *)
(* of a `delay` or a `pulse`, and the follow-up a moved `geometry` earns     *)
(* (renderer/src/wayland/mod.rs, wake.rs, socket/mod.rs, socket/client.rs,   *)
(* lua/signal.rs, layout/scene.rs).                                          *)
(*                                                                           *)
(* The scene reads one pushed value, a delay and a pulse of it, and the rect *)
(* of a node as large as the value.  A time is what is left until it comes.  *)
EXTENDS Naturals, Sequences, FiniteSets

CONSTANTS Values,           \* what a push may carry
          HoldTime,         \* the `ms` of the delay, 0 for a scene without one
          WindowTime,       \* the `ms` of the pulse, 0 for a scene without one
          LastPush,         \* bound: pushes made
          MaxFailedPasses   \* bound: passes that raise

VARIABLES inbox,            \* frames queued to the Wayland thread
          handedOver,       \* the socket thread has sent one and not woken the loop yet
          wakeFd,           \* the eventfd is readable
          connFd,           \* so is the compositor's connection
          position,         \* of the Wayland thread in its turn
          source,           \* the pushed value, as its signal holds it
          dirty,            \* DirtyFlag
          wakeAt,           \* WakeDeadline
          delayed,          \* Delayed: its held value, the pending one and its due time
          pulsed,           \* Pulse: the value last seen and when its window closes
          measured,         \* the geometry cell
          geometryMoved,    \* a pass write moved it since the last take
          geometryFollowUp, \* the last pass ordered a follow-up
          glass,            \* what the last pass the scene took shows
          missed,           \* history: a pass has raised since
          pushes, failures  \* so far

turnVars == <<inbox, handedOver, wakeFd, connFd, position, source, dirty, wakeAt, delayed, pulsed,
              measured, geometryMoved, geometryFollowUp, glass, missed, pushes, failures>>
inputVars  == <<inbox, handedOver, wakeFd, connFd, pushes>>
sceneVars  == <<measured, geometryMoved, geometryFollowUp, glass, missed, failures>>

Never == HoldTime + WindowTime + 1
First == CHOOSE v \in Values : TRUE
Earlier(a, b) == IF a < b THEN a ELSE b

TurnInit ==
  /\ inbox = <<>> /\ handedOver = FALSE /\ wakeFd = FALSE /\ connFd = FALSE
  /\ position = "poll"                          \* the first turn is over
  /\ source = First /\ dirty = FALSE /\ wakeAt = Never
  /\ delayed = [held |-> First, pending |-> First, due |-> Never]
  /\ pulsed = [seen |-> First, until |-> Never]
  /\ measured = First /\ geometryMoved = FALSE /\ geometryFollowUp = FALSE
  /\ glass = [value |-> First, delayed |-> First, pulse |-> FALSE, rect |-> First]
  /\ missed = FALSE /\ pushes = 0 /\ failures = 0

-----------------------------------------------------------------------------
(* What reaches the thread.                                                  *)

\* pump: the frame goes first, then the eventfd.
HandOver(value) ==
  /\ pushes < LastPush /\ ~handedOver
  /\ inbox' = Append(inbox, value) /\ handedOver' = TRUE /\ pushes' = pushes + 1
  /\ UNCHANGED <<wakeFd, connFd, position, source, dirty, wakeAt, delayed, pulsed, sceneVars>>

Wake ==
  /\ handedOver /\ handedOver' = FALSE
  /\ wakeFd' = TRUE
  /\ UNCHANGED <<inbox, connFd, pushes, position, source, dirty, wakeAt, delayed, pulsed, sceneVars>>

CompositorEvent ==
  /\ ~connFd /\ connFd' = TRUE
  /\ UNCHANGED <<inbox, handedOver, wakeFd, pushes, position, source, dirty, wakeAt, delayed, pulsed, sceneVars>>

Left(time) == IF time \in {0, Never} THEN time ELSE time - 1

Tick ==
  /\ {wakeAt, delayed.due, pulsed.until} \ {0, Never} # {}
  /\ wakeAt' = Left(wakeAt)
  /\ delayed' = [delayed EXCEPT !.due = Left(@)]
  /\ pulsed' = [pulsed EXCEPT !.until = Left(@)]
  /\ UNCHANGED <<inputVars, position, source, dirty, sceneVars>>

-----------------------------------------------------------------------------
(* The turn, up to its pass.                                                 *)

\* A snapshot hydrates its signal, which marks the scene.
DrainFrame ==
  /\ position = "drain" /\ inbox # <<>>
  /\ inbox' = Tail(inbox)
  /\ source' = Head(inbox) /\ dirty' = TRUE
  /\ UNCHANGED <<handedOver, wakeFd, connFd, pushes, position, wakeAt, delayed, pulsed, sceneVars>>

DrainEnds ==
  /\ position = "drain" /\ inbox = <<>> /\ position' = "clocks"
  /\ UNCHANGED <<inputVars, source, dirty, wakeAt, delayed, pulsed, sceneVars>>

\* Wrong on purpose, for mutation: the eventfd is cleared after the frames it announced.
WakeFdClearedLate == FALSE

\* Waker::drain runs before the turn that reads the frames, so a wake during it stays counted.
WakeFdInTurn == wakeFd

TakesDueWake ==
  /\ dirty' = (dirty \/ wakeAt = 0)
  /\ wakeAt' = IF wakeAt = 0 THEN Never ELSE wakeAt

WakeDueSignals ==
  /\ position = "clocks" /\ position' = "resolve"
  /\ TakesDueWake
  /\ wakeFd' = WakeFdInTurn
  /\ UNCHANGED <<inbox, handedOver, connFd, pushes, source, delayed, pulsed, sceneVars>>

-----------------------------------------------------------------------------
(* Reading a signal, and the pass.                                           *)

\* DelayCell::follow: a value that came back is forgotten, one that stood its time is adopted.
Followed ==
  LET due == IF delayed.due # Never /\ delayed.pending = source THEN delayed.due ELSE HoldTime IN
  IF source = delayed.held \/ due = 0
    THEN [held |-> source, pending |-> source, due |-> Never]
    ELSE [held |-> delayed.held, pending |-> source, due |-> due]

\* PulseCell::fire: a change opens the window anew.
Fired ==
  LET until == IF source # pulsed.seen THEN WindowTime ELSE pulsed.until IN
  [seen |-> source, until |-> IF until = 0 THEN Never ELSE until]

\* Wrong on purpose, for mutation: a read that finds the wake armed before leaves it to that.
ArmWakeOnce(due) == IF delayed.due # Never THEN wakeAt ELSE Earlier(wakeAt, due)

\* arm_wake: one slot, for the earliest.
ArmWake(due) == Earlier(wakeAt, due)

\* settle_geometry: one follow-up, never two in a row.
SettleGeometry(moved) ==
  /\ geometryMoved' = FALSE
  /\ geometryFollowUp' = (moved /\ ~geometryFollowUp)
  /\ dirty' = geometryFollowUp'

PassIsTaken ==
  /\ delayed' = Followed /\ pulsed' = Fired
  /\ wakeAt' = ArmWake(Earlier(Followed.due, Fired.until))
  /\ measured' = source
  /\ glass' = [value |-> source, delayed |-> Followed.held, pulse |-> Fired.until # Never, rect |-> measured]
  /\ SettleGeometry(geometryMoved \/ measured # source)
  /\ missed' = FALSE /\ UNCHANGED failures

\* The trees roll back; a signal read before the error keeps what it noted.
PassRaises(followed, fired, rect) ==
  /\ failures < MaxFailedPasses /\ failures' = failures + 1
  /\ delayed' = followed /\ pulsed' = fired
  /\ wakeAt' = ArmWake(Earlier(IF followed = Followed THEN followed.due ELSE Never,
                               IF fired = Fired THEN fired.until ELSE Never))
  /\ measured' = rect /\ geometryMoved' = (geometryMoved \/ measured # rect)
  /\ missed' = TRUE /\ dirty' = FALSE
  /\ UNCHANGED <<glass, geometryFollowUp>>

ReResolveIfDirty ==
  /\ position = "resolve" /\ position' = "poll"
  /\ \/ ~dirty /\ UNCHANGED <<dirty, wakeAt, delayed, pulsed, sceneVars>>
     \/ dirty /\ PassIsTaken
     \/ dirty /\ \E followed \in {delayed, Followed}, fired \in {pulsed, Fired}, rect \in {measured, source} :
                   PassRaises(followed, fired, rect)
  /\ UNCHANGED <<inputVars, source>>

\* The poll has one timeout, the wake deadline; a handler of what it read may mark the scene.
PollReturns ==
  /\ position = "poll" /\ position' = "drain"
  /\ connFd \/ wakeFd \/ wakeAt = 0
  /\ dirty' \in {dirty, dirty \/ connFd}
  /\ wakeFd' = FALSE /\ connFd' = FALSE
  /\ UNCHANGED <<inbox, handedOver, pushes, source, wakeAt, delayed, pulsed, sceneVars>>

TurnNext ==
  \/ \E value \in Values : HandOver(value)
  \/ Wake \/ CompositorEvent \/ Tick
  \/ DrainFrame \/ DrainEnds \/ WakeDueSignals \/ ReResolveIfDirty \/ PollReturns

\* Both threads run and time passes; neither the compositor nor the Supervisor owes an event.
TurnFairness ==
  /\ WF_turnVars(Wake) /\ WF_turnVars(Tick)
  /\ WF_turnVars(DrainFrame \/ DrainEnds \/ WakeDueSignals \/ ReResolveIfDirty \/ PollReturns)

TurnSpec     == TurnInit /\ [][TurnNext]_turnVars
TurnFairSpec == TurnSpec /\ TurnFairness

-----------------------------------------------------------------------------
(* What was pushed last is on the glass in the end, whenever the frame came  *)
(* in the turn: no wake is lost between the queue, the eventfd and the poll, *)
(* and no mark between the drain and the pass.  A pass that raised last is   *)
(* the exception: its push waits for the next (wake.rs: drain; mod.rs: the   *)
(* loop; client.rs: re_resolve_if_dirty).                                    *)
LastPushIsShown == <>[](missed \/ (inbox = <<>> /\ glass.value = source))

(* A delay adopts the value that stands and a pulse closes, though both wait *)
(* in one slot and nothing else wakes the loop, and they are seen to, unless *)
(* a pass that raised lost the deadline (signal.rs: follow, fire, arm_wake,  *)
(* take_due_wake).                                                           *)
ClocksSettle == <>[](missed \/ (glass.delayed = source /\ ~glass.pulse))

(* A node bound to a measurement shows the one that stands; refuted:         *)
(* socket/client.rs on settle_geometry, "One follow-up pass when a pass      *)
(* moved a `geometry(name)` rect, so a property bound to the measurement     *)
(* lays out from it before anything else happens".                           *)
MeasurementIsShown == <>[](missed \/ glass.rect = measured)
=============================================================================
