---------------------------- MODULE RestartBrake ----------------------------
(* The brake on respawns: the sliding window of restart instants, the        *)
(* refusal that clears it, and the cooldown the Supervisor's loop then       *)
(* sleeps out (supervisor/generation.rs, and respawn_renderer with the two   *)
(* arms of main.rs that call it).                                            *)
(*                                                                           *)
(* An instant is its age, which stops counting at the window: nothing tells  *)
(* older ones apart.  A time to come is what is left of it.                  *)
EXTENDS Naturals, Sequences

CONSTANTS RestartLimit,      \* RESTART_LIMIT
          RestartWindow,     \* RESTART_WINDOW, in ticks
          RestartCooldown    \* RESTART_COOLDOWN, in ticks

ASSUME BrakeAssumption ==
  RestartLimit \in Nat \ {0} /\ RestartWindow \in Nat /\ RestartCooldown \in Nat

VARIABLES rendererRuns,
          recent,            \* ages of the restarts in the window, oldest first
          respawnAt,         \* time left of the cooldown, Unset without one
          restarts           \* history: the last RestartLimit + 1 restarts, oldest
                             \* first, each with its age and whether a cooldown led to it

brakeVars == <<rendererRuns, recent, respawnAt, restarts>>

Unset == RestartCooldown + 1

BrakeInit ==
  /\ rendererRuns = TRUE
  /\ recent = <<>> /\ respawnAt = Unset /\ restarts = <<>>

Older(age) == IF age < RestartWindow THEN age + 1 ELSE age

BrakeTick ==
  /\ respawnAt # 0
  /\ recent' = [i \in DOMAIN recent |-> Older(recent[i])]
  /\ restarts' = [i \in DOMAIN restarts |-> [restarts[i] EXCEPT !.age = Older(@)]]
  /\ respawnAt' = IF respawnAt = Unset THEN Unset ELSE respawnAt - 1
  /\ UNCHANGED rendererRuns

RendererExits ==
  /\ rendererRuns /\ rendererRuns' = FALSE
  /\ UNCHANGED <<recent, respawnAt, restarts>>

\* What left the window is popped from the front, up to the first that has not.
InWindow ==
  LET first == CHOOSE i \in 1..(Len(recent) + 1) :
                 /\ \A j \in 1..(i - 1) : recent[j] >= RestartWindow
                 /\ i <= Len(recent) => recent[i] < RestartWindow
  IN SubSeq(recent, first, Len(recent))

\* Wrong on purpose, for mutation: the limit itself still passes.
AllowOneMore == Len(InWindow) <= RestartLimit

\* RestartBrake::allow, once what left the window is popped.
Allow == Len(InWindow) < RestartLimit

LastOnes(s) == IF Len(s) > RestartLimit + 1 THEN Tail(s) ELSE s

\* An allowed restart is recorded; a refusal forgets them all and starts the cooldown.
RespawnOrDefer ==
  IF Allow
    THEN /\ rendererRuns' = TRUE /\ respawnAt' = Unset
         /\ recent' = Append(InWindow, 0)
         /\ restarts' = LastOnes(Append(restarts, [age |-> 0, cooled |-> respawnAt # Unset]))
    ELSE /\ recent' = <<>> /\ respawnAt' = RestartCooldown
         /\ UNCHANGED <<rendererRuns, restarts>>

\* The arm of the child's exit is off during a cooldown.
DepartureArm == ~rendererRuns /\ respawnAt = Unset /\ RespawnOrDefer
CooldownArm  == respawnAt = 0 /\ RespawnOrDefer

BrakeNext == BrakeTick \/ RendererExits \/ DepartureArm \/ CooldownArm

BrakeSpec == BrakeInit /\ [][BrakeNext]_brakeVars

-----------------------------------------------------------------------------
(* One restart more than the limit never fits in a window unless a cooldown  *)
(* lies between them, though the refusal empties the window and a restart    *)
(* at its very edge has left it; and no cooldown is followed by another      *)
(* before a Renderer ran (generation.rs: RestartBrake::allow).               *)
BurstsAreBraked ==
  /\ Len(restarts) > RestartLimit /\ restarts[Len(restarts)].age = 0 =>
       \/ restarts[1].age = RestartWindow
       \/ \E i \in 2..Len(restarts) : restarts[i].cooled
  /\ respawnAt = 0 => Allow
=============================================================================
