----------------------------- MODULE MCServices -----------------------------
(* The modules that share no variable with one another, checked in one run:  *)
(* a behaviour chooses a part of the shell and runs that part alone, so that *)
(* the state spaces add up instead of multiplying.                           *)
EXTENDS ControlSocket, ProcessRegistry, OutputLines, ConfigWatcher,
        RestartBrake, NotificationQueue, IdleInhibit, IdleThresholds,
        BluetoothPrompt, SceneTurn, ConfigTimers

VARIABLE part            \* the part this behaviour runs

supervisorVars == <<socketVars, processVars, linesVars, watcherVars, brakeVars>>
capabilityVars == <<queueVars, inhibitVars, thresholdVars, promptVars>>
rendererVars   == <<turnVars, reloadVars>>
servicesVars   == <<part, supervisorVars, capabilityVars, rendererVars>>

ServicesInit ==
  /\ part \in {"socket", "processes", "lines", "watcher", "brake", "notifications",
               "inhibitors", "thresholds", "prompt", "turn", "reload"}
  /\ SocketInit /\ ProcessInit /\ LinesInit /\ WatcherInit /\ BrakeInit
  /\ QueueInit /\ InhibitInit /\ ThresholdInit /\ PromptInit
  /\ TurnInit /\ ReloadInit
  /\ part # "reload" => scene = 1         \* ReloadInit offers three states

SocketSteps ==
  /\ part = "socket" /\ SocketNext
  /\ UNCHANGED <<part, processVars, linesVars, watcherVars, brakeVars,
                 capabilityVars, rendererVars>>

ProcessSteps ==
  /\ part = "processes" /\ ProcessNext
  /\ UNCHANGED <<part, socketVars, linesVars, watcherVars, brakeVars,
                 capabilityVars, rendererVars>>

LinesSteps ==
  /\ part = "lines" /\ LinesNext
  /\ UNCHANGED <<part, socketVars, processVars, watcherVars, brakeVars,
                 capabilityVars, rendererVars>>

WatcherSteps ==
  /\ part = "watcher" /\ WatcherNext
  /\ UNCHANGED <<part, socketVars, processVars, linesVars, brakeVars,
                 capabilityVars, rendererVars>>

BrakeSteps ==
  /\ part = "brake" /\ BrakeNext
  /\ UNCHANGED <<part, socketVars, processVars, linesVars, watcherVars,
                 capabilityVars, rendererVars>>

QueueSteps ==
  /\ part = "notifications" /\ QueueNext
  /\ UNCHANGED <<part, supervisorVars, inhibitVars, thresholdVars, promptVars,
                 rendererVars>>

InhibitSteps ==
  /\ part = "inhibitors" /\ InhibitNext
  /\ UNCHANGED <<part, supervisorVars, queueVars, thresholdVars, promptVars,
                 rendererVars>>

ThresholdSteps ==
  /\ part = "thresholds" /\ ThresholdNext
  /\ UNCHANGED <<part, supervisorVars, queueVars, inhibitVars, promptVars,
                 rendererVars>>

PromptSteps ==
  /\ part = "prompt" /\ PromptNext
  /\ UNCHANGED <<part, supervisorVars, queueVars, inhibitVars, thresholdVars,
                 rendererVars>>

TurnSteps ==
  /\ part = "turn" /\ TurnNext
  /\ UNCHANGED <<part, supervisorVars, capabilityVars, reloadVars>>

ReloadSteps ==
  /\ part = "reload" /\ ReloadNext
  /\ UNCHANGED <<part, supervisorVars, capabilityVars, turnVars>>

ServicesNext ==
  \/ SocketSteps \/ ProcessSteps \/ LinesSteps \/ WatcherSteps \/ BrakeSteps
  \/ QueueSteps \/ InhibitSteps \/ ThresholdSteps \/ PromptSteps
  \/ TurnSteps \/ ReloadSteps

\* The parts that are not chosen have no step to take in their first state.
ServicesSpec ==
  /\ ServicesInit /\ [][ServicesNext]_servicesVars
  /\ ProcessFairness /\ WatcherFairness /\ TurnFairness
=============================================================================
