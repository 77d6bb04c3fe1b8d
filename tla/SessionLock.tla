---------------------------- MODULE SessionLock ----------------------------
(***************************************************************************)
(* The session lock across its four parties: the Supervisor loop and its   *)
(* LockController, the Renderer generations that hold ext_session_lock_v1, *)
(* the compositor (external) and the PAM conversations (external).         *)
(*                                                                         *)
(* A generation is one Renderer process.  Frames travel over two FIFO      *)
(* channels per generation (frames up, down), lock events over a FIFO from *)
(* the compositor (events); nothing else orders the parties.  The          *)
(* Supervisor may stop and be started again, a Renderer may die anywhere.  *)
(***************************************************************************)
EXTENDS LockState, Sequences, FiniteSets, Functions

CONSTANTS
  MaxGenerations,      (* bound: Renderer processes ever spawned            *)
  MaxRequests,         (* bound: lock() calls from logind and Lua           *)
  MaxSubmits,          (* bound: passwords the user types                   *)
  CompositorEnds,      (* may the compositor end or deny a lock by itself   *)
  SupervisorStops,     (* may the Supervisor process stop                   *)
  ConfigReloads        (* may an edit move the password field in or out     *)

ASSUME BoundsAssumption ==
  /\ MaxGenerations \in Nat \ {0}
  /\ MaxRequests \in Nat
  /\ MaxSubmits \in Nat

ASSUME SwitchesAssumption ==
  /\ CompositorEnds \in BOOLEAN
  /\ SupervisorStops \in BOOLEAN
  /\ ConfigReloads \in BOOLEAN

Generations == 1..MaxGenerations
NoOwner     == 0

FrameKinds == LockOutcomes \union {"lock", "submit"}
(* grant is history: the compositor grant whose lock screen the sender had *)
(* on the glass.                                                           *)
Frames == [kind: FrameKinds, id: Nat, grant: Nat]
(* One PAM conversation, or one release sleeping out its animation.        *)
Tasks == [id: Nat, acquisition: Nat]

VARIABLES
  up,            (* the Supervisor process runs                             *)
  cooldown,      (* Supervisor.respawn_at is set                            *)
  authoritative, (* Supervisor.authoritative.generation_id                  *)
  relockOwed,    (* Supervisor.relock_when_connected is set                 *)
  announced,     (* generations in the connected channel                    *)
  lock,          (* LockController.state                                    *)
  commands,      (* lock_commands: queued SetSessionLock.locked flags       *)
  workers,       (* PAM conversations whose outcome is not yet recorded     *)
  timers,        (* releases waiting for the unlock animation               *)
  marker,        (* $XDG_RUNTIME_DIR/mantle/session-locked exists           *)
  proc,          (* each generation's process and connection                *)
  held,          (* each generation's App.session_lock                      *)
  field,         (* each generation's applied lock tree can authenticate    *)
  events,        (* compositor to Renderer                                  *)
  down,          (* Supervisor to Renderer: SetSessionLock frames           *)
  frames,        (* Renderer to Supervisor                                  *)
  comp,          (* compositor: locked, whose lock object, which grant, and *)
                 (* the grant that locked the session that is locked now    *)
  asked,         (* lock requests the compositor has not decided            *)
  granted,       (* history: last grant given to each generation            *)
  acquired,      (* history: the grant the current acquisition counts       *)
  answered,      (* history: grants PAM said yes to                         *)
  overlapped,    (* history: a lock was asked for while another was on the  *)
                 (* way                                                     *)
  spawned,       (* generations spawned so far                              *)
  requests,      (* lock() calls made so far                                *)
  submits        (* passwords typed so far                                  *)

supervisorVars == <<up, cooldown, authoritative, relockOwed, announced>>
lockVars       == <<lock, commands, workers, timers>>
rendererVars   == <<proc, held, field>>
channelVars    == <<events, down, frames>>
compositorVars == <<comp, asked, granted>>
historyVars    == <<acquired, answered, overlapped>>
counterVars    == <<spawned, requests, submits>>

vars == <<supervisorVars, lockVars, marker, rendererVars, channelVars,
          compositorVars, historyVars, counterVars>>

-----------------------------------------------------------------------------
FlagsOK ==
  /\ up \in BOOLEAN
  /\ cooldown \in BOOLEAN
  /\ relockOwed \in BOOLEAN
  /\ marker \in BOOLEAN
  /\ overlapped \in BOOLEAN

SupervisorOK ==
  /\ authoritative \in Generations
  /\ announced \subseteq Generations
  /\ lock \in LockStates
  /\ commands \in Seq(BOOLEAN)
  /\ workers \subseteq Tasks
  /\ timers \subseteq Tasks
  /\ acquired \in Nat
  /\ answered \subseteq Nat
  /\ spawned \in Generations
  /\ requests \in Nat
  /\ submits \in Nat

RenderersOK ==
  /\ proc \in [Generations -> {"unborn", "starting", "connected", "dead"}]
  /\ held \in [Generations -> {"none", "requested", "locked"}]
  /\ field \in [Generations -> BOOLEAN]
  /\ events \in [Generations -> Seq({"locked", "finished"})]
  /\ down \in [Generations -> Seq(BOOLEAN)]
  /\ frames \in [Generations -> Seq(Frames)]

CompositorOK ==
  /\ comp \in [locked: BOOLEAN, owner: Generations \union {NoOwner},
              grant: Nat, since: Nat]
  /\ asked \subseteq Generations
  /\ granted \in [Generations -> Nat]

(* The type invariant.                                                     *)
TypeOK == FlagsOK /\ SupervisorOK /\ RenderersOK /\ CompositorOK

Alive(g) == proc[g] \in {"starting", "connected"}

(* The Supervisor and g are on the two ends of one open connection.        *)
Linked(g) == up /\ g = authoritative /\ proc[g] = "connected"

Init ==
  /\ up = TRUE /\ cooldown = FALSE
  /\ authoritative = 1 /\ spawned = 1
  /\ relockOwed = FALSE /\ marker = FALSE
  /\ announced = {}
  /\ lock = DefaultLock /\ commands = <<>>
  /\ workers = {} /\ timers = {}
  /\ proc = [g \in Generations |-> IF g = 1 THEN "starting" ELSE "unborn"]
  /\ held = [g \in Generations |-> "none"]
  /\ field \in [Generations -> BOOLEAN]
  /\ ConfigReloads \/ field = [g \in Generations |-> TRUE]
  /\ events = [g \in Generations |-> <<>>]
  /\ down = [g \in Generations |-> <<>>]
  /\ frames = [g \in Generations |-> <<>>]
  /\ comp = [locked |-> FALSE, owner |-> NoOwner, grant |-> 0, since |-> 0]
  /\ asked = {} /\ granted = [g \in Generations |-> 0]
  /\ acquired = 0 /\ answered = {} /\ overlapped = FALSE
  /\ requests = 0 /\ submits = 0

-----------------------------------------------------------------------------
(* The Supervisor's select! loop, one action per arm or inbound frame.     *)

(* An earlier request has not been answered by a report yet.               *)
LockOnItsWay ==
  \/ TRUE \in Range(commands)
  \/ TRUE \in Range(down[authoritative])
  \/ held[authoritative] # "none"
  \/ \E i \in DOMAIN frames[authoritative] :
       frames[authoritative][i].kind \in LockOutcomes

(* LockController::lock: dropped while a lock is active, queued otherwise. *)
LockCall ==
  \/ lock.active /\ UNCHANGED <<lock, commands, overlapped>>
  \/ /\ ~lock.active
     /\ lock' = LockRequested(lock)
     /\ commands' = Append(commands, TRUE)
     /\ overlapped' = (overlapped \/ LockOnItsWay)

(* logind's Lock signal (loginctl lock-session).                           *)
LockRequestedByLogind ==
  /\ up /\ requests < MaxRequests
  /\ requests' = requests + 1
  /\ LockCall
  /\ UNCHANGED <<supervisorVars, workers, timers, marker, rendererVars,
                 channelVars, compositorVars, acquired, answered, spawned,
                 submits>>

(* One queued command goes to whichever generation is authoritative now; a *)
(* generation with no connection loses it.                                 *)
SendLockCommand ==
  /\ up /\ commands # <<>>
  /\ commands' = Tail(commands)
  /\ down' = IF proc[authoritative] = "connected"
             THEN [down EXCEPT ![authoritative] = Append(@, Head(commands))]
             ELSE down
  /\ UNCHANGED <<supervisorVars, lock, workers, timers, marker, rendererVars,
                 events, frames, compositorVars, historyVars, counterVars>>

(* Wrong on purpose, for mutation: the debt is struck off, never paid.     *)
HydrateForgetsTheDebt(g) ==
  /\ up /\ g \in announced
  /\ announced' = announced \ {g}
  /\ relockOwed' = (relockOwed /\ g # authoritative)
  /\ UNCHANGED <<up, cooldown, authoritative, lockVars, marker, rendererVars,
                 channelVars, compositorVars, historyVars, counterVars>>

(* A registered connection is hydrated; an owed lock is asked for here.    *)
Hydrate(g) ==
  /\ up /\ g \in announced
  /\ announced' = announced \ {g}
  /\ \/ /\ g = authoritative /\ relockOwed
        /\ relockOwed' = FALSE
        /\ LockCall
     \/ /\ g # authoritative \/ ~relockOwed
        /\ UNCHANGED <<relockOwed, lock, commands, overlapped>>
  /\ UNCHANGED <<up, cooldown, authoritative, workers, timers, marker,
                 rendererVars, channelVars, compositorVars, acquired, answered,
                 counterVars>>

(* The inbound arm reads one frame.  Only the authoritative generation is  *)
(* heard, and nobody during a cooldown.                                    *)
LiveFromAnyone(g) == ~cooldown     (* wrong on purpose, for mutation        *)

Live(g) == g = authoritative /\ ~cooldown

Receives(g, kinds) ==
  /\ up /\ frames[g] # <<>> /\ Head(frames[g]).kind \in kinds
  /\ frames' = [frames EXCEPT ![g] = Tail(@)]

DropStaleFrame(g) ==
  /\ Receives(g, FrameKinds) /\ ~Live(g)
  /\ UNCHANGED <<supervisorVars, lockVars, marker, rendererVars, events, down,
                 compositorVars, historyVars, counterVars>>

RecordLockReport(g) ==
  /\ Receives(g, LockOutcomes) /\ Live(g)
  /\ LET report == Head(frames[g]) IN
       /\ marker' = MarkerAfter(marker, report.kind)
       /\ lock' = Reported(lock, report.kind)
       /\ acquired' = IF report.kind = "locked" THEN report.grant ELSE acquired
  /\ UNCHANGED <<supervisorVars, commands, workers, timers, rendererVars,
                 events, down, compositorVars, answered, overlapped,
                 counterVars>>

(* mantle.lock:invoke("lock") from the config's Lua.                       *)
DispatchLock(g) ==
  /\ Receives(g, {"lock"}) /\ Live(g)
  /\ LockCall
  /\ UNCHANGED <<supervisorVars, workers, timers, marker, rendererVars,
                 events, down, compositorVars, acquired, answered, counterVars>>

(* secure_submit(lock, authenticate): one PAM conversation, or a drop.     *)
BeginAuthentication(g) ==
  /\ Receives(g, {"submit"}) /\ Live(g)
  /\ \/ /\ MayAuthenticate(lock)
        /\ lock' = AuthenticationStarted(lock)
        /\ workers' = workers \union
             {[id |-> Head(frames[g]).id, acquisition |-> lock.acquisition]}
     \/ ~MayAuthenticate(lock) /\ UNCHANGED <<lock, workers>>
  /\ UNCHANGED <<supervisorVars, commands, timers, marker, rendererVars,
                 events, down, compositorVars, historyVars, counterVars>>

(* A PAM answer is recorded; an accepted success orders the release, at    *)
(* once or after the configured animation (the config may set either).     *)
RecordPamOutcome(w, outcome) ==
  /\ up
  /\ workers' = workers \ {w}
  /\ \/ /\ ~AcceptsOutcome(lock, w.acquisition)
        /\ UNCHANGED <<lock, commands, timers, answered>>
     \/ /\ AcceptsOutcome(lock, w.acquisition)
        /\ lock' = Authenticated(lock, outcome)
        /\ \/ outcome # "success" /\ UNCHANGED <<commands, timers, answered>>
           \/ /\ outcome = "success"
              /\ answered' = answered \union {acquired}
              /\ \/ commands' = Append(commands, FALSE) /\ UNCHANGED timers
                 \/ /\ timers' = timers \union
                         {[id |-> w.id, acquisition |-> lock.acquisition]}
                    /\ UNCHANGED commands
  /\ UNCHANGED <<supervisorVars, marker, rendererVars, channelVars,
                 compositorVars, acquired, overlapped, counterVars>>

(* unlock_after_animation's task wakes and re-reads the acquisition.       *)
ReleaseTimerFires(t) ==
  /\ up
  /\ timers' = timers \ {t}
  /\ commands' = IF Releases(lock, t.acquisition)
                 THEN Append(commands, FALSE) ELSE commands
  /\ UNCHANGED <<supervisorVars, lock, workers, marker, rendererVars,
                 channelVars, compositorVars, historyVars, counterVars>>

(* Supervisor::respawn_renderer past the brake.                            *)
Respawn ==
  /\ spawned < MaxGenerations
  /\ spawned' = spawned + 1
  /\ authoritative' = spawned + 1
  /\ cooldown' = FALSE
  /\ proc' = [proc EXCEPT ![spawned + 1] = "starting"]
  /\ IF lock.active \/ lock.requested
     THEN lock' = RendererLost(lock) /\ relockOwed' = TRUE
     ELSE UNCHANGED <<lock, relockOwed>>
  /\ UNCHANGED <<up, announced, commands, workers, timers, marker, held, field,
                 channelVars, compositorVars, historyVars, requests, submits>>

(* child.wait() answers; the brake lets the respawn through or defers it.  *)
ReplaceDepartedRenderer ==
  /\ up /\ ~cooldown /\ proc[authoritative] = "dead"
  /\ \/ Respawn
     \/ /\ cooldown' = TRUE
        /\ UNCHANGED <<up, authoritative, relockOwed, announced, lockVars,
                       marker, rendererVars, channelVars, compositorVars,
                       historyVars, counterVars>>

(* The cooldown's timer: the brake was cleared when it refused, so this    *)
(* attempt is allowed.                                                     *)
CooldownKeepsARequest ==           (* wrong on purpose, for mutation        *)
  up /\ cooldown /\ ~lock.requested /\ Respawn

CooldownExpires == up /\ cooldown /\ Respawn

-----------------------------------------------------------------------------
(* The Supervisor process ends: every channel and task dies with it, the   *)
(* marker file stays.                                                      *)
SupervisorStop ==
  /\ SupervisorStops /\ up /\ spawned < MaxGenerations
  /\ up' = FALSE /\ cooldown' = FALSE
  /\ relockOwed' = FALSE /\ announced' = {}
  /\ lock' = DefaultLock /\ commands' = <<>>
  /\ workers' = {} /\ timers' = {}
  /\ frames' = [g \in Generations |-> <<>>]
  /\ acquired' = 0
  /\ UNCHANGED <<authoritative, marker, rendererVars, events, down,
                 compositorVars, answered, overlapped, counterVars>>

(* Started again: the marker is read before the boot Renderer registers.   *)
SupervisorStart ==
  /\ ~up /\ spawned < MaxGenerations
  /\ up' = TRUE
  /\ spawned' = spawned + 1
  /\ authoritative' = spawned + 1
  /\ proc' = [proc EXCEPT ![spawned + 1] = "starting"]
  /\ relockOwed' = marker
  /\ UNCHANGED <<cooldown, announced, lockVars, marker, held, field,
                 channelVars, compositorVars, historyVars, requests, submits>>

-----------------------------------------------------------------------------
(* A Renderer generation.                                                  *)

(* Frames g queues for the Supervisor; a peer that is gone reads nothing.  *)
Sends(g, kind, id) ==
  frames' = IF Linked(g)
            THEN [frames EXCEPT ![g] =
                    Append(@, [kind |-> kind, id |-> id, grant |-> granted[g]])]
            ELSE frames

RendererConnects(g) ==
  /\ up /\ g = authoritative /\ proc[g] = "starting"
  /\ proc' = [proc EXCEPT ![g] = "connected"]
  /\ announced' = announced \union {g}
  /\ UNCHANGED <<up, cooldown, authoritative, relockOwed, lockVars, marker,
                 held, field, channelVars, compositorVars, historyVars,
                 counterVars>>

(* Lua asks for a lock: an idle timer, a button.                           *)
RendererAsksLock(g) ==
  /\ Linked(g) /\ requests < MaxRequests
  /\ requests' = requests + 1
  /\ Sends(g, "lock", 0)
  /\ UNCHANGED <<supervisorVars, lockVars, marker, rendererVars, events, down,
                 compositorVars, historyVars, spawned, submits>>

(* Enter in the lock screen's password field.                              *)
RendererSubmits(g) ==
  /\ Linked(g) /\ held[g] = "locked" /\ field[g] /\ submits < MaxSubmits
  /\ submits' = submits + 1
  /\ Sends(g, "submit", submits + 1)
  /\ UNCHANGED <<supervisorVars, lockVars, marker, rendererVars, events, down,
                 compositorVars, historyVars, spawned, requests>>

(* The drained frame is SetSessionLock { locked }.                         *)
Drains(g, locked) ==
  /\ proc[g] = "connected" /\ down[g] # <<>> /\ Head(down[g]) = locked
  /\ down' = [down EXCEPT ![g] = Tail(@)]

HandleLockNothing(g) ==
  /\ \/ Drains(g, TRUE) /\ held[g] # "none"
     \/ Drains(g, FALSE) /\ held[g] = "none" /\ events[g] = <<>>
  /\ UNCHANGED <<supervisorVars, lockVars, marker, rendererVars, events,
                 frames, compositorVars, historyVars, counterVars>>

HandleLockRefuse(g) ==
  /\ Drains(g, TRUE) /\ held[g] = "none" /\ ~field[g]
  /\ Sends(g, "refused", 0)
  /\ UNCHANGED <<supervisorVars, lockVars, marker, rendererVars, events,
                 compositorVars, historyVars, counterVars>>

HandleLockAcquire(g) ==
  /\ Drains(g, TRUE) /\ held[g] = "none" /\ field[g]
  /\ held' = [held EXCEPT ![g] = "requested"]
  /\ asked' = asked \union {g}
  /\ UNCHANGED <<supervisorVars, lockVars, marker, proc, field, events,
                 frames, comp, granted, historyVars, counterVars>>

(* The round trip before an unlock dispatches every event already sent, so *)
(* the release itself runs with events[g] empty.                           *)
HandleLockRelease(g) ==
  /\ Drains(g, FALSE) /\ held[g] # "none" /\ events[g] = <<>>
  /\ held' = [held EXCEPT ![g] = "none"]
  /\ asked' = asked \ {g}
  /\ comp' = IF held[g] = "locked" /\ comp.owner = g
             THEN [comp EXCEPT !.locked = FALSE, !.owner = NoOwner] ELSE comp
  /\ Sends(g, IF held[g] = "locked" THEN "unlocked" ELSE "refused", 0)
  /\ UNCHANGED <<supervisorVars, lockVars, marker, proc, field, events,
                 granted, historyVars, counterVars>>

(* SessionLockHandler::locked and ::finished.                              *)
DispatchLocked(g) ==
  /\ Alive(g) /\ events[g] # <<>> /\ Head(events[g]) = "locked"
  /\ events' = [events EXCEPT ![g] = Tail(@)]
  /\ held' = [held EXCEPT ![g] = "locked"]
  /\ Sends(g, "locked", 0)
  /\ UNCHANGED <<supervisorVars, lockVars, marker, proc, field, down,
                 compositorVars, historyVars, counterVars>>

DispatchFinished(g) ==
  /\ Alive(g) /\ events[g] # <<>> /\ Head(events[g]) = "finished"
  /\ events' = [events EXCEPT ![g] = Tail(@)]
  /\ held' = [held EXCEPT ![g] = "none"]
  /\ Sends(g, IF held[g] = "locked" THEN "finished" ELSE "refused", 0)
  /\ UNCHANGED <<supervisorVars, lockVars, marker, proc, field, down,
                 compositorVars, historyVars, counterVars>>

(* Wrong on purpose, for mutation: the reload never asks about the lock.   *)
ConfigReloadUnasked(g) ==
  /\ ConfigReloads /\ Linked(g)
  /\ field' = [field EXCEPT ![g] = ~@]
  /\ UNCHANGED <<supervisorVars, lockVars, marker, proc, held, channelVars,
                 compositorVars, historyVars, counterVars>>

(* A reload moves the password field in or out; while a lock is requested  *)
(* or held, one that leaves none is refused.                               *)
ConfigReload(g) ==
  /\ ConfigReloads /\ Linked(g)
  /\ held[g] # "none" => ~field[g]
  /\ field' = [field EXCEPT ![g] = ~@]
  /\ UNCHANGED <<supervisorVars, lockVars, marker, proc, held, channelVars,
                 compositorVars, historyVars, counterVars>>

(* The process ends: what it had not yet written to the socket is lost,    *)
(* and the compositor keeps a lock whose client died.                      *)
ProcessEnds(g) ==
  /\ proc' = [proc EXCEPT ![g] = "dead"]
  /\ held' = [held EXCEPT ![g] = "none"]
  /\ events' = [events EXCEPT ![g] = <<>>]
  /\ down' = [down EXCEPT ![g] = <<>>]
  /\ \E n \in 0..Len(frames[g]) :
       frames' = [frames EXCEPT ![g] = SubSeq(@, 1, n)]
  /\ asked' = asked \ {g}
  /\ UNCHANGED <<supervisorVars, lockVars, marker, field, comp, granted,
                 historyVars, counterVars>>

RendererDies(g) == Alive(g) /\ spawned < MaxGenerations /\ ProcessEnds(g)

(* A Renderer whose Supervisor is gone drains what it was sent and exits   *)
(* without releasing anything.                                             *)
RendererLosesSupervisor(g) ==
  /\ Alive(g) /\ (~up \/ g # authoritative) /\ down[g] = <<>>
  /\ ProcessEnds(g)

-----------------------------------------------------------------------------
(* The compositor (external): a request is granted when no live client     *)
(* holds the lock, otherwise denied; a live lock may be ended.             *)
CompositorGrants(g) ==
  /\ g \in asked
  /\ comp.locked => ~Alive(comp.owner)
  /\ comp' = [locked |-> TRUE, owner |-> g, grant |-> comp.grant + 1,
               since |-> IF comp.locked THEN comp.since ELSE comp.grant + 1]
  /\ granted' = [granted EXCEPT ![g] = comp.grant + 1]
  /\ asked' = asked \ {g}
  /\ events' = [events EXCEPT ![g] = Append(@, "locked")]
  /\ UNCHANGED <<supervisorVars, lockVars, marker, rendererVars, down, frames,
                 historyVars, counterVars>>

CompositorDenies(g) ==
  /\ g \in asked
  /\ CompositorEnds \/ (comp.locked /\ Alive(comp.owner))
  /\ asked' = asked \ {g}
  /\ events' = [events EXCEPT ![g] = Append(@, "finished")]
  /\ UNCHANGED <<supervisorVars, lockVars, marker, rendererVars, down, frames,
                 comp, granted, historyVars, counterVars>>

CompositorFinishes ==
  /\ CompositorEnds /\ comp.locked /\ Alive(comp.owner)
  /\ comp' = [comp EXCEPT !.locked = FALSE, !.owner = NoOwner]
  /\ events' = [events EXCEPT ![comp.owner] = Append(@, "finished")]
  /\ UNCHANGED <<supervisorVars, lockVars, marker, rendererVars, down, frames,
                 asked, granted, historyVars, counterVars>>

-----------------------------------------------------------------------------
SupervisorStep(g) ==
  \/ Hydrate(g)
  \/ DropStaleFrame(g)
  \/ RecordLockReport(g)
  \/ DispatchLock(g)
  \/ BeginAuthentication(g)

RendererStep(g) ==
  \/ RendererConnects(g)
  \/ HandleLockNothing(g)
  \/ HandleLockRefuse(g)
  \/ HandleLockAcquire(g)
  \/ HandleLockRelease(g)
  \/ DispatchLocked(g)
  \/ DispatchFinished(g)
  \/ RendererLosesSupervisor(g)

Next ==
  \/ LockRequestedByLogind
  \/ SendLockCommand
  \/ ReplaceDepartedRenderer
  \/ CooldownExpires
  \/ SupervisorStop
  \/ SupervisorStart
  \/ CompositorFinishes
  \/ \E w \in workers, outcome \in PamOutcomes : RecordPamOutcome(w, outcome)
  \/ \E t \in timers : ReleaseTimerFires(t)
  \/ \E g \in Generations :
       \/ SupervisorStep(g)
       \/ RendererStep(g)
       \/ RendererAsksLock(g)
       \/ RendererSubmits(g)
       \/ ConfigReload(g)
       \/ RendererDies(g)
       \/ CompositorGrants(g)
       \/ CompositorDenies(g)

Spec == Init /\ [][Next]_vars

(* Every ready arm of select! is eventually taken, every running process   *)
(* keeps draining its queues, the compositor decides each request and each *)
(* PAM conversation ends (PAM_EXCHANGE_TIMEOUT, ReportOnDrop).  Nothing    *)
(* makes a user type, a process die or a stopped Supervisor start again.   *)
Fairness ==
  /\ WF_vars(SendLockCommand)
  /\ WF_vars(ReplaceDepartedRenderer)
  /\ WF_vars(CooldownExpires)
  /\ WF_vars(\E w \in workers, outcome \in PamOutcomes :
               RecordPamOutcome(w, outcome))
  /\ WF_vars(\E t \in timers : ReleaseTimerFires(t))
  /\ \A g \in Generations :
       /\ WF_vars(SupervisorStep(g))
       /\ WF_vars(RendererStep(g))
       /\ WF_vars(CompositorGrants(g) \/ CompositorDenies(g))

FairSpec == Spec /\ Fairness

-----------------------------------------------------------------------------
(* Properties *)

(* A PAM conversation is bound to the lock it was asked about: while the   *)
(* record says one is in flight there is one to answer it, so the latch    *)
(* that refuses the next password always has somebody left to clear it.    *)
Conversations(s) == {w \in workers : w.acquisition = s.acquisition}

AuthenticatingIsOwed ==
  lock.authenticating => lock.active /\ Conversations(lock) # {}

(* The flags of the record never contradict each other: a release or a     *)
(* conversation needs a lock on the glass, a request needs none.           *)
LockFlagsAgree ==
  /\ lock.unlocking => lock.active
  /\ lock.requested => ~lock.active

(* A password reaches PAM only for the lock screen it was typed into, even *)
(* when that lock ended and another began while the frame was queued.      *)
SubmitReachesItsLock ==
  \A g \in Generations :
    (up /\ frames[g] # <<>> /\ Live(g) /\ MayAuthenticate(lock))
      => (Head(frames[g]).kind = "submit" => Head(frames[g]).grant = acquired)

Reports(g) == {i \in 1..Len(frames[g]) : frames[g][i].kind \in LockOutcomes}

(* Once every report of a connected generation is read, the Supervisor's   *)
(* active flag and the Renderer's lock object agree.                       *)
ActiveMatchesRenderer ==
  (up /\ Live(authoritative) /\ proc[authoritative] = "connected"
      /\ Reports(authoritative) = {})
    => (lock.active <=> held[authoritative] = "locked")

(* A lock the Supervisor calls active is on disk, so that the process that *)
(* replaces a killed Supervisor retakes it.                                *)
ActiveIsMarked == lock.active => marker

(* While a lock is requested or held, the lock screen keeps a field a      *)
(* password can be typed into, whatever the config is edited to.           *)
HeldLockKeepsItsField ==
  \A g \in Generations : held[g] # "none" => field[g]

(* A session locked with no lock screen on it: its client died.            *)
Bare == comp.locked /\ ~Alive(comp.owner)

(* A bare session is owed a lock screen: something in the state of the     *)
(* running Supervisor will ask for one, unless the last attempt was        *)
(* refused.  Overlapping requests are excepted: `requested` is one bit, so *)
(* the answer to one of them clears the debt of the other.                 *)
Owed == lock.active \/ lock.requested \/ relockOwed \/ lock.error = "refused"

BareIsOwed == (up /\ Bare /\ ~overlapped) => Owed

(* A session that is locked is opened by a Renderer only when PAM accepted *)
(* a password typed since it was locked, whichever Renderer held the lock  *)
(* screen by then; a stale release never opens a later lock.  Overlapping  *)
(* requests are excepted: a command says which way, never which lock.      *)
Released == comp.locked /\ ~comp'.locked /\ held' # held

OnlyAnsweredSessionsOpen ==
  [][(Released /\ ~overlapped)
       => \E grant \in answered : grant >= comp.since]_vars

(* Liveness.  A password is eventually answered; a lock being left is      *)
(* eventually left; a bare session eventually gets a lock screen back,     *)
(* unless the attempt is refused or the Supervisor itself stops.           *)
PasswordIsAnswered == lock.authenticating ~> ~lock.authenticating

UnlockingEnds == lock.unlocking ~> ~lock.unlocking

Covered == ~up \/ ~Bare \/ lock.error = "refused" \/ overlapped

BareIsCovered == (up /\ Bare) ~> Covered

(* The same across a restart of the Supervisor, from what the marker says  *)
(* and for as long as it says it.                                          *)
MarkedBareIsCovered == (up /\ Bare /\ marker) ~> (Covered \/ ~marker)
=============================================================================
