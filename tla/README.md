# A TLA+ model of the Mantle shell

Mantle is a Wayland desktop shell made of two processes. The **Supervisor**
(`src/supervisor`) owns the capabilities: it talks to D-Bus, PAM, PipeWire, the
session manager, and keeps their state. The **Renderer** (`src/renderer`) runs
the user's Lua configuration, draws, and owns the Wayland surfaces. They
exchange frames (`src/shared`) over one Unix socket. The Supervisor respawns a
Renderer that dies; each such process is a *generation*.

This directory holds TLA+ modules for the parts of that system where the order
of events decides whether it is correct, TLC configurations that check them on
small instances, and proofs checked by TLAPS.

    tlc -workers 2 -config SessionLock_crash.cfg SessionLock.tla
    tlc -workers 2 -config MCServices.cfg MCServices.tla
    tlapm SessionLock_proofs.tla

`PROJECT.json` lists the runs, what every definition models (file and lines),
the hazards of the code with the properties that cover them, and the proved
theorems.

## 1. Inventory

| Component | State | Operations | Made correct by |
|---|---|---|---|
| Session lock (`capabilities/lock`, `wayland/lock.rs`) | `LockController.state`, marker file, release timers, PAM tasks; the Renderer's `session_lock`; the compositor's lock | lock, locked / refused / finished / unlocked reports, secure submit, PAM outcome, release, Renderer lost, relock at start | a locked session never stays without a lock screen, opens only after an accepted password, and no password is left unanswered |
| Supervisor loop (`supervisor.rs`, `main.rs`) | authoritative generation, cooldown deadline, revisions, last snapshots | one arm per source: inbound frame, signal, push, departure, timer, reload | frames of a replaced generation do nothing; every departure is answered by a respawn |
| Snapshot channel (`socket/mod.rs`, `snapshot.rs`, `lua/capability.rs`) | a bounded queue per connection, `last_snapshots` | push, hydrate, send_to, hang-up, apply | a drained Renderer shows the last push; revisions never fall |
| Control socket (`socket/mod.rs`, `socket/calls.rs`) | registry of generations with pid claim and token; call routes | register, unregister, claim, ask, answer, close | an answer reaches the client that asked, once; a late unregister never removes a newer entry |
| Restart brake (`generation.rs`) | instants of the last restarts | record, refuse, cool down | a burst of restarts is cut off, and the attempt after the cooldown is allowed |
| Polkit agent (`capabilities/polkit.rs`, `supervisor/src/polkit.rs`, `pam_worker.rs`) | the one pending challenge, the reply handle, the latch | begin, cancel, submit, outcome, dispatch | every caller is answered exactly once and never for another call |
| Network connect (`capabilities/network/connect.rs`) | pending intent, prompt, attempt number, the join in flight | connect, resolve, submit, accept, verdict, cancel, abort | a key is used for the network it was typed for; an aborted join is stopped; one verdict per attempt |
| Process registry (`process/`) | children by id, the output readers | run, kill, streams closed, exit, sweep of a departed generation | one exit per child, every end reported, lines whole, no child outlives its generation |
| Config watcher (`watcher.rs`) | watches, content hashes, debounce and retry deadlines | event, debounce, re-watch | the tree that stands is the tree loaded in the end |
| Notifications (`capabilities/notifications`) | queue, ids, incarnations, expiry tasks, icon files | notify, replace, dismiss, expire, delete an icon | an old timer never closes a new entry; a queued entry's icon exists |
| Idle (`capabilities/idle`) | thresholds, listeners, the gate; refcounts, cookies, the shared fd | register, setup, replay, fan out, block; inhibit, release, owner lost | what a config wants is heard once the notifier is there; the fd follows the count |
| Bluetooth (`capabilities/bluetooth`) | one prompt slot, the waiting calls; mirrors of BlueZ | ask, show, answer, cancel | a yes is for the card it was clicked on |
| Tray, updates | registries, one install | register / vanish, install / check | no entry outlives its owner; one install at a time |
| Mirrors (audio, MPRIS, privacy, workspaces, battery, ...) | a copy of an external value | refresh | sequential I/O |
| Instances | lock files | claim, list | two starts never share an instance (the kernel's flock) |
| Renderer's turn (`wayland/mod.rs`, `wake.rs`, `socket/client.rs`, `lua/signal.rs`) | frames queued, eventfd, dirty flag, wake deadline, delays and pulses, measurements | hand over, drain, fire, pass, poll | the last push is on the glass in the end; every delay and pulse settles |
| Renderer's registrations (`lua/timer.rs`, `lua/action.rs`, `wayland/output.rs`) | timers armed, staged and firing; handlers and actions; the evaluation each half comes from | evaluate, apply, refuse, arm, cancel, fire | timers run once, in order, and only those of a config that was applied |
| Layout, paint, input, images, text | the scene and its surfaces | lay out, draw | sequential |

What is hard in this code:

* **Two processes and a third.** The Supervisor's record of the lock, the
  Renderer's lock object and the compositor's locked flag change in different
  processes and are reconciled only by queued reports. A Renderer may die
  between any two of them, and the compositor keeps a session locked when the
  client that locked it dies.
* **Await points.** Controllers are shared by D-Bus tasks and the loop; state
  read before an await may be stale after it. The code answers with numbers
  (acquisition, cookie, attempt, incarnation, token) that a late message must
  match.
* **Respawn.** Frames of a replaced generation are still queued when its
  successor is authoritative, and a respawn may be put off by the brake.
* **Bounded queues.** A peer that stops reading is hung up on.

The full list, each at its line, is `hazards` in `PROJECT.json`. One has no
property: a polkit password carries no cookie, so nothing a property could read
tells which challenge it was typed for. Two lie in parts not modelled yet: a tray
item whose owner leaves between the liveness check and the insert
(`tray/registry.rs:106`), and two installs at once (`updates/controller.rs:187`).

## 2. What is modelled

### LockState and SessionLock

`LockState` is `capabilities/lock/state.rs`: each transition of the record is an
operator on a record (`LockRequested`, `ReportedLocked`, `Authenticated`,
`Releases`, `RendererLost`, ...). `SessionLock` composes it with the parties.

| In the model | In the code |
|---|---|
| `up`, `cooldown`, `authoritative`, `relockOwed`, `announced` | `Supervisor`: running, `respawn_at`, the authoritative generation, `relock_when_connected`, the `connected` channel |
| `lock`, `commands`, `workers`, `timers`, `marker` | `LockController.state`, `lock_commands`, PAM tasks, release sleeps, `session-locked` in the runtime directory |
| `proc`, `held`, `field` | per generation: process, `App.session_lock`, whether the applied lock tree has a password field |
| `events`, `down`, `frames` | the three FIFOs: compositor to Renderer, Supervisor to Renderer, Renderer to Supervisor |
| `comp`, `asked`, `granted` | the compositor (external): locked or not, whose lock object, requests undecided |

Each arm of the Supervisor's `select!` is one action
(`LockRequestedByLogind`, `SendLockCommand`, `Hydrate`, `RecordLockReport`,
`DispatchLock`, `BeginAuthentication`, `RecordPamOutcome`, `ReleaseTimerFires`,
`ReplaceDepartedRenderer`, `CooldownExpires`, `DropStaleFrame`), as is each
handler of the Renderer (`HandleLockAcquire`, `HandleLockRefuse`,
`HandleLockRelease`, `DispatchLocked`, `DispatchFinished`, `ConfigReload`).
`RendererDies` and `SupervisorStop` / `SupervisorStart` may come between any two.

`acquired`, `answered`, `overlapped` and the `grant` fields are history: no
guard of a code action reads them. They say which of the compositor's grants a
message was about, which the code's messages do not.

`LockContract` is what the lock promises whoever looks at it from outside, in
three states: open, locked with a lock screen, locked and bare; and it opens only
from a lock screen and after an answer. `LockRefinement` maps `SessionLock` onto it.

### SnapshotChannel and PolkitChallenge

`SnapshotChannel` is a library for the modules of capabilities: the revision and
last snapshot kept per capability (`Push`), the bounded queue with its hang-up
(`Sends`), the replay to a newcomer in any order of the hash map (`Hydrate`), the
Renderer's write (`Apply`), and the life of generations. `PolkitChallenge`
extends it: polkitd's calls (external), the D-Bus task that forwards each, the
controller, the root helper's conversations (external) and the dialog. Every
change of the controller's state goes out through `Push`.

Requests and outcomes are sets, not queues: each is sent by a task of its own,
so the order they reach the loop in is not the order they were made in.

### NetworkConnect

| In the model | In the code |
|---|---|
| `requests`, `cancelling` | the network worker's queue, and what is left of a `cancel_connect` that locks three times |
| `slot`, `prompt` | `pending_connect` and `password_ssid` |
| `connecting`, `error` | `connecting_ssid` and the network `connect_error` names |
| `attempt`, `joined` | `Attempt.id`, and the attempt whose join `Attempt.joined` is |
| `tasks` | each spawned task: resolving a click, or joining |
| `stops` | joins some task is about to stop |
| `activating`, `activated`, `calls` | NetworkManager (external): one activation at a time, and requests it still holds although their call timed out |
| `dirty`, `shown` | a queued `NetworkSignal::Changed`, and the prompt the Renderer read last |

The worker runs requests one by one (`Stash`, `SubmitKey`, `CancelTakes`,
`CancelChecks` and `CancelClears`, `Abort`, `Push`). A click's lookup (`ReadIntent`, then
`RequestPassword` or `ConnectDirectly`) and a join (`BeginConnect`, `Accept`,
`ReadVerdict`, `FinishConnect`) run in tasks on a runtime of two threads: each
lock section is an action and anything may come between two. What the lookups
and NetworkManager say is a free choice; a stop may fail, which the code logs and
does not retry. `typed`, `aborted`, `late`, `unheard` and `unstopped` are history. A respawn queues a cancel (`forget_departed_requests`), which `Undo`
covers; an intent is its SSID, as `hidden` only weighs on the lookup's answer.

### The services: eleven modules and one run

Each of these is a component with its own variables; no two of them share state,
so `MCServices` checks them in one run: a behaviour picks a part (`part`) and
runs it alone, and the state spaces add up.

| Module | Code | State and steps |
|---|---|---|
| `ControlSocket` | `socket/mod.rs`, `socket/calls.rs` | `expectedPids`, `claims`: the handshake waits for the pid `main` records after the spawn (`ExpectGeneration`, `AwaitClaim`, `ClaimTimesOut`). `registry`, `links`: entries under tokens; `ConnectionEnds` removes its own, `SendTo` / `RemoveWedged` are the two critical sections of `send_to`. `routes`: `Call`, `DispatchCall`, `RendererAnswers`, `DispatchResult`, `HangUp` |
| `ProcessRegistry` | `process/registry.rs`, `process/mod.rs` | `tracked`, `detached`, `reaping`: who holds the `Child` (the map, the waiting task, the reap that blocks the loop). `Run`, `Kill`, `ReapSeesExit` / `GraceElapses` / `ReapFails`, `StreamsClose`, `ReapExited`, `WaitReturns`, `ReplaceOwner` and its sweep |
| `OutputLines` | `BoundedLines` | bytes as the child writes them, the partial `line`, `discarding`; `OtherStreamWins` drops the pending read at any await |
| `ConfigWatcher` | `watcher.rs` | the tree (external: `Save`, `MoveSubAway`, `MakeSub`, the root's going and return), the kernel's watches, and the task: `ReadEvent` with every kind it tells apart, `DebounceElapses`, `RewatchElapses` |
| `RestartBrake` | `generation.rs`, two arms of `main.rs` | ages of the recorded restarts, `Allow`, `RespawnOrDefer`, the cooldown; `BrakeTick` is the clock |
| `NotificationQueue` | `notifications/controller.rs`, `queue.rs` | `Notify` in three steps (`NotifyBegins`, `Spool`, `Push`), because the bus serves calls side by side; `Expire`, `RemoveById`; and the icon of an entry that left in three more, as none of them holds the state lock: `StampIcon`, `IconGraceEnds`, `DeleteIcon`. Ids start at their last value, so they wrap in the run |
| `IdleInhibit` | `idle/inhibit.rs`, half of `controller.rs` | refcounts, cookies that wrap, the fd; requests of a config run in tasks of their own, so a release may come first. A cookie login1 refused stands uncounted, and of the releases of a client that leaves the last alone may close the fd |
| `IdleThresholds` | `idle/notify.rs`, `gate.rs`, the other half | four threads: main's loop (`RegisterThreshold`, `CancelThreshold`, `ResetThresholds`), the setup task (`GoesLive`, `Drain`, `ReplayEntry`, `ReplayListener`), the forwarder (`ReadRaw`, `PassGate`, `SendEvent`), the logind watch (`SetBlocked`) |
| `BluetoothPrompt` | `bluetooth/agent.rs` | the slot (`Show`, `AnswerPairing`, `BluezCancels`, `ClearDisplay`), and the ticks a change takes to the screen and a click takes back |
| `SceneTurn` | `wayland/mod.rs`, `wake.rs`, `client.rs`, `signal.rs` | the socket thread (`HandOver`, `Wake`) against the Wayland thread's turn: drain, due signals, one pass, poll |
| `ConfigTimers` | `timer.rs`, `action.rs`, the reload half of `client.rs` | timers `entries`, `staged` and `firing`; an evaluation, which may cancel as well as arm, its apply or its refusal; which evaluation the handlers, the scene and the output come from |

### What the models abstract

* Texts, messages, icons, timings and logs. `relock_in_flight` only selects a log
  line. `LockedHint` follows the marker through one serialised task.
* The unlock animation is a choice at each success: released at once, or after
  `ReleaseTimerFires`.
* The channels between a controller and its own loop that carry one message per
  handler run (logind signals, PAM outcomes) are the handler's step.
* Marker writes succeed. A compositor without `ext_session_lock_v1`, and the
  Renderer's exit when the compositor goes away, are left out. A failed spawn
  ends the Supervisor, as `SupervisorStop` does, and so does SIGTERM.
* In `SessionLock` the restart brake may refuse any respawn once, and the respawn
  after the cooldown is allowed: what `RestartBrake` shows of the window
  (`BurstsAreBraked`: no cooldown is followed by another before a Renderer ran).
* In `ControlSocket` a connection takes its token in the step that enters it in the
  registry (`AwaitClaim`); the code counts the token up just before.
* `MaxOutbound` counts every frame not applied yet: the writer's queue and the
  socket's buffer are one queue in the model. A hang-up delivers any prefix.
* The compositor answers a lock request after any delay.
* A polkit call without a usable identity is a choice in `Begin`. A dialog may
  send submit or cancel whenever it is connected. A helper that times out may or
  may not have told polkitd yes.
* Operators marked *wrong on purpose, for mutation* are not used by any
  specification. Each is a plausible bug that some run's property must catch when
  it takes the place of the operator next to it.

## 3. The runs

| Run | Bounds | Shows |
|---|---|---|
| `crash` | 3 generations, 2 lock requests, 2 passwords | two Renderer crashes anywhere: record, Renderer and compositor agree; a bare session is owed a lock screen; only an answered session opens |
| `ends` | 2 generations, 1 request, 2 passwords; compositor may end or deny; config edits | a held lock keeps its field; every password, unlock and bare session comes to an end (fair) |
| `restart` | 3 generations, 1 request, 2 passwords; Supervisor may stop | the marker is on disk before a lock counts as active and is enough to restore the lock screen (fair); the four-party lock implements `LockContract` |
| `polkit` | 2 calls, queue of 2, 2 generations, 2 dialog frames | every caller answered, none for another; the latch is exact; the dialog is current (fair) |
| `network` | 2 networks, 2 clicks or keys, 2 cancels or aborts, queue of 1 | the spinner and the prompt belong to somebody at work; an aborted join is stopped and no other, with the exceptions named below; the spinner stops (fair) |
| `services` | see below; about 463,000 states | each of the eleven parts keeps its promises under every interleaving of its actors (fair where a promise is about the end) |
| `release`, `retake`, `keys`, `leftbehind`, `followup`, `actions` | violation | the disagreements below |

In `services`, part by part:

| Part | Bounds | Properties |
|---|---|---|
| socket | 2 clients, 2 generations, 2 connections, 2 calls, a queue of 1 to the peer | `CallerGetsItsOwnAnswer`, `LiveLinkIsRegistered` |
| processes | 2 runs, 2 generations | `ExitIsReportedOnce`, `EveryEndIsReported` |
| lines | 2 bytes and the newline, lines of 2, 5 bytes | `LinesAreWhole` |
| watcher | a root and one directory, 2 contents, 4 edits, 4 unread events | `EditsAreLoaded` |
| brake | 3 restarts in 6 ticks, cooldown of 3 | `BurstsAreBraked` |
| notifications | queue of 2, ids 1..3 that wrap, 1 and 3 named for replacement, 3 calls, 2 at once | `QueueHoldsAnIdOnce`, `ExpiredByItsOwnTimer`, `QueuedIconExists` |
| inhibitors | 2 peers, 2 generations, cookies 1..2 that wrap, 3 requests | `FdFollowsHolds` |
| thresholds | 1 threshold, 2 generations, 2 unread events, 4 requests | `WantedIsHeard`, `ToldWhatTheSeatIs` |
| prompt | 2 devices, 2 requests, a grace of 3 ticks, 1 tick each way | `YesIsForTheCardSeen` |
| turn | 2 pushes, 2 values, a delay, a pulse, 1 failed pass | `LastPushIsShown`, `ClocksSettle` |
| reload | 3 evaluations, 3 timers, 3 instants | `TimersRunAsArmed` |

Why the bounds are enough. The lock's hazards need at most two things of a kind in
flight: the old lock and the new one, the old generation and the new one, an old
password and a new one. Three generations let a second crash hit the recovery from the
first. Two polkit calls are the one on screen and the one that must not disturb it; a
queue of two is full after one push and one replay. Three Notify calls are the entry
that leaves, the one that takes its id, and one more to evict or be served beside
them; a call may name the id the numbering gives next or the one it wraps to. Two
tasks of the network are the old attempt and the new one, and two undos are an abort
of each; its invariants are proved for any number of both. In `services` two of each
kind are the old one and the new one again: a connection and its successor, an entry
and the call that replaces it, the departed generation and the one on the glass. Where
a hazard is a wrap or a limit, the bound replaces the code's number and is small
enough to be passed: `LastId` and `LastCookie` for `u32::MAX`, `MaxLineBytes` within
the bytes written, `QueueCap` and `MaxOutboundFrames` below what is sent,
`RestartLimit` below the exits. The brake counts in ticks of an instant's age, which
stops at the window, and is checked for behaviours without end; so is the turn's
clock. All the safety properties of `services` are theorems too (section 4), which
hold for any bound. Deadlock is not checked: with its inputs used up, or with nobody
at the keyboard, the system is idle.

`BareIsOwed`, `OnlyAnsweredSessionsOpen` and the refinement `KeepsTheContract` speak
of a behaviour up to the first lock asked for while another is on its way
(`overlapped`). That exception is what the two runs `release` and `retake` are about.

### Disagreements found

* `release`. A comment says the release names the acquisition it was authorised
  for. It is checked against it when queued, but the frame that reaches the
  Renderer says only *unlock*. If two lock requests overlap, and the compositor
  ends the first lock after its password was accepted, the queued release opens
  the second.
* `retake`. `state.rs` says that `requested` lets a lock that never came be asked
  again. It is one bit for every request on its way: the report that answers one
  clears it for the other, and if the Renderer dies before it reports that other
  lock, nobody retakes the bare session.
* `keys`. A comment in `connect.rs` says the check of the prompt keeps a key from
  joining a network it was not typed for. It compares the prompt and the slot when
  the key is read. If a newer click's lookup puts its own prompt up while a key
  typed under the old prompt is on its way, that key joins the newer network.
* `leftbehind`. A comment says every process of a departed generation's Lua is
  reaped. A child that closes both output streams and runs on leaves the table
  then, and a task waits for its exit; the sweep of its generation reads the table
  only, so the child runs on.
* `followup`. A comment says a pass that moved a measurement is followed by another
  before anything else happens. The mark is set after the turn's only pass, and the
  poll that ends the turn has no timeout for it: the follow-up comes with the next
  event, whenever that is.
* `actions`. A comment says the handlers and actions of a rejected config are
  cleared. They are when its evaluation raises; when the scene refuses what it
  evaluated to, they stay, and answer for a scene of the config before.

Met and left as exceptions the properties name: a join NetworkManager takes up after
its call timed out is not stopped by the abort that came between (`unheard`), and one
NetworkManager failed to stop runs on (`unstopped`); a connection the wedge removed by
id, without a token check (`strays`); a directory written to before its watch was
added, one dropped with nothing of it hashed, and a file back at its hashed bytes
before the save between was read (`slipped`); an Idled in the forwarder's hand when
the gate closed, and registrations on an idle seat (`strayed`); an icon the next
Notify wrote before the earlier bearer of its id left (`overtaken`), or in a gap of
that one's deletion (`mistaken`); an fd held by nobody, or a cookie without a count,
once login1 refused a cookie (`refused`); a pass that raised (`missed`). `keys` is
such a case the code's own comment claims not to exist.

Comments claim the same of the icons and the fd. TLC has a trace for each of these
three when the claim takes the place of the property with its exception:

* `schedule_icon_deletion` says that a picture written over an entry's icon in the
  grace is not deleted with that entry. What it compares with is the file as it is
  after the state lock was released (in `reply` and `invoke_action` after an awaited
  signal too), and after its second look it deletes by name. A Notify that takes the
  id and writes its picture in one of these gaps loses it while it is queued.
* `drop_screensaver_peer` says that of a leaving client's releases only the last can
  reach zero, so its fold keeps the last. A cookie login1 refused has no count: with
  one of those and one counted the first release reaches zero, the last finds zero,
  and the fd stays held by nobody until a later hold is taken and released.
* `open_shared_fd` says that releasing a cookie login1 refused finds a zero count and
  does nothing. All clients share one count: if another client was granted a hold
  since, the release takes that one's count and closes the fd under it.

### Fairness

Weak fairness of each arm of the `select!` loop (a ready arm stays ready until
it is taken, and the loop has no arm that can starve another for ever), of each
connected process draining its queues, of the compositor deciding a request, and
of each PAM conversation or helper ending: `PAM_EXCHANGE_TIMEOUT` and
`ReportOnDrop` guarantee an outcome. Nothing makes a user type, a process die,
or a stopped Supervisor start. In `network` the worker and each task run on, a
D-Bus call returns (the connection has a method timeout of 25 s), and a watch ends
at `ACTIVATION_CEILING`.

In `services`, always weak:

* `ProcessFairness`: main's loop and the tasks keep running; the reap's grace is a
  timeout; the kernel ends a group that was sent SIGKILL unless it is stuck in
  uninterruptible I/O, and closes the pipes of a dead one. Nothing makes a child
  exit by itself.
* `WatcherFairness`: the watcher's task reads what is queued, and its two deadlines
  pass. Nothing makes a user save or bring the tree back.
* `TurnFairness`: the socket thread wakes the loop after it handed a frame over,
  the clock runs, and the Wayland thread goes on within its turn. The poll returns
  only for a readable descriptor or its deadline; that is a guard, not fairness, and
  it is what `LastPushIsShown` and `ClocksSettle` are about.

## 4. What is proved

For all values of the constants, with no assumption but the named ones on the
constants:

| Module | Theorem | States |
|---|---|---|
| `SessionLock_proofs` | `TypeCorrect` | `[]TypeOK` |
| | `FlagsAgree` | `[]LockFlagsAgree` |
| | `ConversationIsOwed` | `[]AuthenticatingIsOwed` |
| | `ActiveLockIsMarked` | `[]ActiveIsMarked` |
| | `FieldIsKept` | `[]HeldLockKeepsItsField` |
| `LockChain_proofs` | `SubmitIsForItsLock` | `[]SubmitReachesItsLock` |
| | `ReadReportsAgree` | `[]ActiveMatchesRenderer` |
| | `OnlyAnsweredOpen` | `OnlyAnsweredSessionsOpen` |
| | `ContractIsKept` | `KeepsTheContract`, if `~CompositorEnds` |
| | `BareSessionIsOwed` | `[]BareIsOwed`, if `~SupervisorStops` |
| `PolkitChallenge_proofs` | `CallersAreKept` | `[]NoCallerIsForgotten` |
| | `YesIsVouched` | `[]OkMeansVouched` |
| | `LatchIsExact` | `[]LatchIsOwed` |
| | `DialogFollows` | `[]DialogIsCurrent` |
| | `ViewIsCurrent` | `[]DrainedViewIsCurrent` |
| | `RevisionsOnlyRise` | `RevisionsNeverGoBack` |
| `NetworkConnect_proofs` | `SpinnerHasAJoin` | `[]SpinnerIsOwed` |
| | `PromptCanBeAnswered` | `[]PromptIsAnswerable` |
| | `AbortsAreKept` | `[]AbortedIsStopped` |
| | `StopsAreMeant` | `[]OnlyUnwantedIsStopped` |
| `Supervisor_proofs` | `AnswersAreTheCallersOwn` | `[]CallerGetsItsOwnAnswer` |
| | `LiveLinksAreRegistered` | `[]LiveLinkIsRegistered` |
| | `ExitsAreReportedOnce` | `[]ExitIsReportedOnce` |
| | `BurstsAreCut` | `[]BurstsAreBraked` |
| | `LinesComeWhole` | `[]LinesAreWhole` |
| `Capabilities_proofs` | `QueueHoldsIdsOnce` | `[]QueueHoldsAnIdOnce` |
| | `TimersExpireTheirOwn` | `[]ExpiredByItsOwnTimer` |
| | `IconsStand` | `[]QueuedIconExists` |
| | `YesIsItsOwn` | `[]YesIsForTheCardSeen` |
| | `FdFollows` | `[]FdFollowsHolds` |
| | `WantedIsListenedFor` | `[]WantedIsHeard` |
| | `TreeKnowsTheSeat` | `[]ToldWhatTheSeatIs` |
| `ConfigTimers_proofs` | `TimersRun` | `[]TimersRunAsArmed` |

`Induction_proofs` holds lemmas only, and the lemmas about the snapshot channel are
in `PolkitChallenge_proofs`, where they are used.

Four theorems speak of a definition no run checks: `TypeOK`, `LockFlagsAgree`,
`DrainedViewIsCurrent` and `RevisionsNeverGoBack` are steps of other arguments.
Most of the named assumptions give types, finite sets, distinct values, and sizes
that are not zero. `TransitAssumption` says more: the pairing grace is longer than
the way to the screen and back, which is what `ACCEPT_GRACE` is for; without it the
theorem is false.

Two theorems hold for one setting of a switch. `ContractIsKept` excludes a
compositor that ends a granted lock by itself, as the run of the refinement does: a
session opened that way was not opened by an answer. `BareSessionIsOwed` excludes a Supervisor that
stops: one that stops after it asked for a lock and before the report of it has
written no marker, so the next one knows of no lock and owes nothing; with
`SupervisorStops` TLC finds `BareIsOwed` violated in nine steps. What holds
across a restart is what the marker says, `MarkedBareIsCovered`.

The arguments:

* The session lock. `TypeOK` is inductive. `LockFlagsAgree` is inductive over the
  transitions of the record alone, which the lemmas about `LockState` state once.
  `AuthenticatingIsOwed` needs it: a conversation ends only through
  `RecordPamOutcome`, whose acquisition number either matches, and clears the
  latch, or belongs to another lock. `ActiveIsMarked` holds because
  `RecordLockReport` writes the marker in the step that activates the record and a
  report that removes it also deactivates.
* The lock object. A held lock keeps its field because `HandleLockAcquire` refuses
  a tree without one and `ConfigReload` refuses to drop it; the proof is that no
  other action writes `field` of a generation that holds one.
* The chain of reports. Record, lock object and compositor change in three
  processes, so no invariant equates them. `ChainInv` says what connects them: the
  frames of the authoritative Renderer still in the queue form a path from what the
  record says is on the glass to what the Renderer shows there (`PathInv`), each
  report naming the grant it is about; grants are numbered, and nothing refers to
  one the compositor has not made (`GrantInv`); a generation that is not started
  has no frames, no lock and no commands, and a Supervisor that is down no record
  (`LifeInv`). With the queue read the path is empty, which is
  `ActiveMatchesRenderer`.
* Which lock a release opens. A command says only *unlock*. Until requests overlap,
  `TokenInv` makes that enough: one request is anywhere, last in its queue
  (`OneRequest`); while it is on its way nothing is on the glass or under way
  (`RequestIsAlone`); while a lock is requested or held only its confirmation is
  under way (`HeldIsNews`); so a release finds the lock PAM answered for
  (`ReleaseIsMeant`). `OnlyAnsweredOpen` follows for every step that opens, and
  `ContractIsKept` case by case: each action maps to a step of the contract or
  changes nothing visible.
* The debt of a bare session. `OneLives`: a running Supervisor has one Renderer that
  may be alive. `Debt`: a locked session is owed a screen (`SessionIsOwed`); so is a
  request that may still be granted (`RequestIsOwed`); and whatever would tell the
  record to forget the lock, a report under way or an event about to be one, comes
  only after the compositor has taken the lock back (`OverIsOver`). The last is what
  fails if a lost lock could be mistaken for an ended one. `GlassInv` says that a
  Renderer that shows a lock owns it.
* The snapshot channel. `DrainedViewIsCurrent` speaks of an empty queue only. What
  is inductive is `ChannelInv`: `last` and `revisions` agree (`Kept`); the frames
  of each capability in the queue have rising revisions, all above what is shown
  (`Ordered`); and for a hydrated generation the last frame queued for a
  capability, or what is shown when there is none, is `last` (`Arriving`). A
  hang-up breaks `Arriving` for good and takes the generation out of `hydrated`
  in the same step.
* Polkit. `AgentInv` adds to `ChannelInv` that each unanswered call is on its way
  or pending (`Calls`), that a yes waiting to be read was vouched for (`Vouches`),
  that only calls polkitd made have helpers (`Asked`), that helpers and outcomes
  for the pending cookie number one exactly when the latch is set (`Debt`), and
  that `last` for the capability is the controller's state (`Published`).
* The network. An aborted join whose stop failed is `unstopped` from that step on.
  `ConnectInv` adds that attempts are never shared by two joining
  tasks nor newer than `Attempt.id`, that aborted ones are older (`AttemptsInv`),
  and that the latest attempt's running join is either answered and not yet
  accepted, known to `abort_connect` through `joined`, or asked for in a call that
  timed out (`JoinsInv`): without it
  an abort could leave a join running that nobody stops. `PromptInv` strengthens
  `PromptIsAnswerable` for an empty slot, where a task that is still to read its
  intent is of no help to the prompt.

* Calls. An answer is compared with its question through the number of the call,
  which the program does not carry. `CallInv` says that the id of a call is that
  number in every frame, route and queue (`IdIsTheCall`), and that an answered call
  has no route left and never gets one again (`AnswersAreOver`): ids only rise.
* Connections. `LinkInv` adds that a token is unused exactly while it is not below
  `nextToken`: the newest connection of a generation is then the last to have
  registered, and what a cleanup removes under another token is not its entry.
* Processes. A `Child` is in one hand at a time: the table, the task that waits for
  it, or the reap in progress (`OneHand`), and only while its exit is unreported;
  each step moves it or reports and lets go. A run nobody sent is in none
  (`Unsent`).
* The brake. The record forgets, the history does not. `BrakeInv` says the record is
  the newest part of the history (`Remembered`, `OldestFirst`), and that what came
  before it left the window or lies behind a cooldown (`Parted`); a refusal leaves
  nothing recorded until the cooldown is over (`ClearedToCool`). A burst longer than
  the limit then has a cooldown in it (`BurstIsParted`). That the pops take from the
  front only is by induction on the age list.
* Lines. `LineInv`: what was delivered and the partial line are the parse of the
  bytes taken, or the stream has ended and delivered what was open; what is
  discarded is the rest of a line already full. The parse is a recursive function of
  the text, and one byte more is one more step of it (`ParseOfMore`, by induction).
* Timers. `TimersInv`: the lists are sorted by due time; what ran and what is about
  to run is due, and ahead of what waits; every id given out is in exactly one of
  ran, firing, armed, staged or dropped (`Whole`); while an evaluation is under way
  nothing is armed, and otherwise nothing is staged (`Phased`). The steps filter and
  insert; that a filter keeps the order is by induction on the list.
* Inhibitors. Whoever counts has the fd (`HeldHasFd`): a release closes it only when
  it brings the total to zero. While nothing was refused the fd is held only then
  (`FdIsHeld`) and the screensaver's count covers the cookies that stand
  (`CookiesAreCounted`; cookies wrap, so this counts entries, not numbers): the
  releases of a client that leaves then each find a count, only the last can reach
  zero, and the fold that keeps the last loses nothing.
* Thresholds. `ThresholdInv`: what a tree wants is queued and not yet taken, being
  replayed, or in the fan-out (`Heard`), and an entry of the fan-out is behind a
  listener or one about to be made (`EntriesAreHeard`). A cancel takes one
  registration out of a queue; that it takes no other is by induction on the queue.
* What a tree is told. An event goes from the seat through the queue, the
  forwarder's fan-out and its hand to the gate's record and the tree. `SeatInv` says,
  for each threshold the forwarder sends the tree, that what is latest on this way
  agrees with the seat (`Follows`), the hand with the gate's record, and that a tree
  that is sent nothing has no trace anywhere (`Silent`). Whatever gives or takes an
  entry must find the threshold at rest: one that waits in the queue or the replay is
  (`WaitingIsQuiet`), as no listener reports it; one that is not counts as `strayed`.
  A generation still to come has left no trace (`NoneIsBorn`), nor has anything
  before the notifier is there (`DeadIsQuiet`).
* The notification queue. `QueueInv` adds to the three properties that a call being
  served is fresh (`ServedIsFresh`): what is pushed was never expired. The icons need
  more. No write has a number that is still to come (`StampsArePast`), so the picture
  of whoever wrote last under an id `Stands`: it exists, and whatever is on its way
  to be deleted under that id (leaving, in its grace, or past its second look) is
  older. This is kept for the queued entry and for a call that has spooled and is
  still to push (`PicturesStand`). When an entry leaves, every other entry has another
  id, and a call that spooled under the same one is in `overtaken`; a stamp or a
  deletion that meets a later picture puts the id into `mistaken`, and any other is
  of an older picture than the one that stands, so it backs off.
* The pairing prompt. `ScreenIsCurrent` bounds ages: while the screen does not show
  what the slot holds, the slot's age and the ticks left to the repaint are together
  at most one way; a click made on another card is at most two ways old when it
  arrives. With the grace longer than that, `TooSoon` refuses it.

Induction over data. The library states its induction theorems for a predicate,
which the provers cannot instantiate. `Induction_proofs` states them for a set:
induction over the naturals, the least element of a set of numbers, and definition
by recursion, whose step is a function. They rest on the well-foundedness of `<`,
which the library states as a fact. What the model computes over sequences is
written with functions for this.

Only model-checked: every property about what must happen in the end, as fairness is
out of the provers' reach: `PasswordIsAnswered`, `UnlockingEnds`, `BareIsCovered`,
`MarkedBareIsCovered`, the same for the dialog and the spinner, `EveryEndIsReported`,
`EditsAreLoaded`, `LastPushIsShown` and `ClocksSettle`.

## 5. What is not modelled, and the plan

In this order, most important first:

1. Abstract specifications for two services: a queue of notifications with unique
   names, which the wrapping ids implement, and a set of thresholds, which
   registration, swap and replay implement.
2. `ControlSocket` composed with `SnapshotChannel`: hydrate and the registration of
   a connection against the two critical sections of `send_to`.
3. Tray registration against `NameOwnerChanged`, and the single install of updates.
4. The rest of the Renderer's scene: the rollback of a refused pass, and tween
   frames.

Not modelled within a modelled component, and why:

* `ControlSocket`: the table of frames refused by role, and `mantle set`; the
  client's side of the wire.
* `ProcessRegistry`: a child's stdin, and the sweep at shutdown, which reads the
  same table.
* `ConfigWatcher`: symlinked directories, and an overflow of the inotify queue.
* `NotificationQueue`: hover holds, do-not-disturb, the cap of the history, markup
  and sound. `IdleThresholds`: the ungated twin of a listener, which only feeds the
  published `inhibited`.
* `BluetoothPrompt`: adapters, devices and connects, a mirror of BlueZ.
* `NetworkConnect`: scans, devices, radio switches and the saving of a key.

Left out for good: capabilities that mirror one external value, instances (a
module would restate `flock`), layout, painting, text and image decoding, which are
most of the lines of the repository (sequential, data, unit-tested), command line,
stubs and logging, and the third-party Lua VM and Wayland libraries.
