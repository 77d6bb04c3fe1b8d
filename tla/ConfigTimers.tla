---------------------------- MODULE ConfigTimers ----------------------------
(* What an evaluation of shell.lua registers and how long it lasts: the      *)
(* `on_change` handlers and `action` exports, and the one-shot timers, which *)
(* are staged until the scene takes what was evaluated and then run in       *)
(* batches whose callbacks may arm and cancel others (renderer/src/lua/      *)
(* timer.rs, lua/action.rs, the reload half of socket/client.rs, and         *)
(* apply_pending of wayland/output.rs).                                      *)
(*                                                                           *)
(* An evaluation is named by its number, a timer by its id.                  *)
EXTENDS Naturals, Sequences, FiniteSets, SequencesExt

CONSTANTS LastEvaluation,   \* bound: evaluations of shell.lua
          LastTimer,        \* bound: timers armed
          LastInstant       \* bound: the clock

VARIABLES evaluations,      \* evaluations so far
          appliedOutput,    \* the one whose output is applied, 0 for none
          scene,            \* the one whose trees the scene holds, 0 for none
          handlers,         \* the one whose handlers and actions answer, 0 for none
          rescue,           \* is_rescue
          now,
          nextTimer,        \* next_id
          entries,          \* armed timers, earliest first: [id, due]
          evaluating,       \* arm goes to the staged list
          staged,           \* armed by an evaluation that is not applied yet
          firing,           \* what is left of the batch; a cancelled slot has id 0
          ran,              \* history: timers run
          dropped           \* history: timers cancelled, or gone with their evaluation

reloadVars == <<evaluations, appliedOutput, scene, handlers, rescue, now, nextTimer,
                entries, evaluating, staged, firing, ran, dropped>>
configVars == <<evaluations, appliedOutput, scene, handlers, rescue>>

Timers(list) == {entry.id : entry \in ToSet(list)} \ {0}

\* At startup a config may raise, or be evaluated and not laid out.
ReloadInit ==
  /\ evaluations = 1
  /\ \/ appliedOutput = 1 /\ handlers = 1 /\ scene = 1 /\ rescue = FALSE
     \/ appliedOutput = 1 /\ handlers = 1 /\ scene = 0 /\ rescue = TRUE
     \/ appliedOutput = 0 /\ handlers = 0 /\ scene = 0 /\ rescue = TRUE
  /\ now = 0 /\ nextTimer = 1
  /\ entries = <<>> /\ evaluating = FALSE /\ staged = <<>> /\ firing = <<>>
  /\ ran = <<>> /\ dropped = {}

-----------------------------------------------------------------------------
(* Timers.                                                                   *)

\* partition_point: how many at the front of a sorted list are due by an instant.
DueBy(list, instant) ==
  CHOOSE n \in 0..Len(list) :
    /\ \A i \in 1..n : list[i].due <= instant
    /\ n < Len(list) => list[n + 1].due > instant

\* Sorted by deadline, then as registered.
Armed(list, due) == InsertAt(list, DueBy(list, due) + 1, [id |-> nextTimer, due |-> due])

Arm(due) ==
  /\ nextTimer <= LastTimer /\ nextTimer' = nextTimer + 1
  /\ IF evaluating THEN staged' = Armed(staged, due) /\ UNCHANGED entries
                   ELSE entries' = Armed(entries, due) /\ UNCHANGED staged
  /\ UNCHANGED dropped

\* Wrong on purpose, for mutation: the batch was taken whole, cancel reaches what is armed only.
EmptiesNoSlot(batch, id) == batch

\* A timer of the running batch whose turn has not come loses its slot.
EmptiesSlot(batch, id) ==
  [i \in DOMAIN batch |-> IF batch[i].id = id THEN [batch[i] EXCEPT !.id = 0] ELSE batch[i]]

Disarmed(list, id) == RemoveAt(list, CHOOSE i \in DOMAIN list : list[i].id = id)

\* `take` looks in three places; cancelling one that ran or went is a no-op.
Cancel(id, batch) ==
  LET armed  == id \in Timers(entries)
      about  == ~armed /\ id \in Timers(batch)
      waits  == ~armed /\ ~about /\ id \in Timers(staged) IN
  /\ entries' = IF armed THEN Disarmed(entries, id) ELSE entries
  /\ firing' = IF about THEN EmptiesSlot(batch, id) ELSE batch
  /\ staged' = IF waits THEN Disarmed(staged, id) ELSE staged
  /\ dropped' = IF armed \/ about \/ waits THEN dropped \cup {id} ELSE dropped
  /\ UNCHANGED nextTimer

\* What a callback, a handler or an action may do to the timers.
Effects(batch) ==
  \/ UNCHANGED <<nextTimer, entries, staged, dropped>> /\ firing' = batch
  \/ \E due \in (now + 1)..(LastInstant + 1) : Arm(due) /\ firing' = batch
  \/ \E id \in 1..(nextTimer - 1) : Cancel(id, batch)

DispatchDue ==
  /\ firing = <<>> /\ entries # <<>> /\ Head(entries).due <= now
  /\ LET split == DueBy(entries, now) IN
       /\ firing' = SubSeq(entries, 1, split)
       /\ entries' = SubSeq(entries, split + 1, Len(entries))
  /\ UNCHANGED <<configVars, now, nextTimer, evaluating, staged, ran, dropped>>

\* The slot is emptied before its callback runs.
FireNext ==
  /\ firing # <<>>
  /\ IF Head(firing).id = 0
       THEN firing' = Tail(firing) /\ UNCHANGED <<nextTimer, entries, staged, ran, dropped>>
       ELSE ran' = Append(ran, Head(firing)) /\ Effects(Tail(firing))
  /\ UNCHANGED <<configVars, now, evaluating>>

\* `mantle call`, or a push's on_change.
HandlerRuns ==
  /\ firing = <<>> /\ handlers # 0
  /\ Effects(<<>>)
  /\ UNCHANGED <<configVars, now, evaluating, ran>>

Elapse ==
  /\ now < LastInstant /\ now' = now + 1
  /\ UNCHANGED <<configVars, nextTimer, entries, evaluating, staged, firing, ran, dropped>>

-----------------------------------------------------------------------------
(* A reload: what the last evaluation registered goes first.                 *)

BeginEvaluation ==
  /\ ~evaluating /\ firing = <<>> /\ evaluations < LastEvaluation
  /\ evaluations' = evaluations + 1
  /\ entries' = <<>> /\ staged' = <<>> /\ evaluating' = TRUE
  /\ dropped' = dropped \cup Timers(entries)
  /\ handlers' = 0
  /\ UNCHANGED <<appliedOutput, scene, rescue, now, nextTimer, firing, ran>>

\* shell.lua arms timers at its top level, and may cancel them there.
TopLevelRuns ==
  /\ evaluating /\ Effects(<<>>)
  /\ UNCHANGED <<configVars, now, evaluating, ran>>

Discard ==
  /\ dropped' = dropped \cup Timers(staged) /\ staged' = <<>>
  /\ evaluating' = FALSE
  /\ UNCHANGED entries

Promote ==
  /\ entries' = staged /\ staged' = <<>>
  /\ evaluating' = FALSE
  /\ UNCHANGED dropped

EvaluationRaises ==
  /\ evaluating /\ Discard
  /\ rescue' = TRUE
  /\ UNCHANGED <<evaluations, appliedOutput, scene, handlers, now, nextTimer, firing, ran>>

\* The layout pass fails, the lock vetoes it, or it would rename a held lock's surface.
EvaluationRefused ==
  /\ evaluating /\ Discard
  /\ handlers' = evaluations /\ rescue' = FALSE
  /\ UNCHANGED <<evaluations, appliedOutput, scene, now, nextTimer, firing, ran>>

EvaluationApplies ==
  /\ evaluating /\ Promote
  /\ handlers' = evaluations /\ rescue' = FALSE
  /\ appliedOutput' = evaluations /\ scene' = evaluations
  /\ UNCHANGED <<evaluations, now, nextTimer, firing, ran>>

\* A pass of a dirty scene lays out what is applied; one that fails rolls back.
ReResolve ==
  /\ ~evaluating /\ firing = <<>> /\ appliedOutput # 0
  /\ scene' = appliedOutput
  /\ UNCHANGED <<evaluations, appliedOutput, handlers, rescue, now, nextTimer, entries, evaluating, staged,
                 firing, ran, dropped>>

ReloadNext ==
  \/ DispatchDue \/ FireNext \/ (~evaluating /\ HandlerRuns) \/ Elapse
  \/ BeginEvaluation \/ TopLevelRuns \/ EvaluationRaises \/ EvaluationRefused \/ EvaluationApplies \/ ReResolve

ReloadSpec == ReloadInit /\ [][ReloadNext]_reloadVars

-----------------------------------------------------------------------------
(* A timer runs once, in the order of deadlines, and neither after a         *)
(* callback of its own batch or anyone else cancelled it nor after its       *)
(* evaluation went; and one that is not gone is armed or about to run,       *)
(* whatever reloads were refused in between (timer.rs: arm, take,            *)
(* dispatch_due, promote, discard).                                          *)
TimersRunAsArmed ==
  LET runIds == {entry.id : entry \in ToSet(ran)} IN
  /\ \A i, j \in DOMAIN ran : i < j => ran[i].due <= ran[j].due /\ ran[i].id # ran[j].id
  /\ runIds \cap dropped = {}
  /\ 1..(nextTimer - 1) = runIds \cup dropped \cup Timers(entries) \cup Timers(firing)
                            \cup (IF evaluating THEN Timers(staged) ELSE {})

(* Actions and handlers are those of the config on screen; refuted:          *)
(* socket/client.rs on clear_change_handlers, "those belong to a config that *)
(* was rejected.  Half a config answering `mantle call` is worse than none". *)
ActionsBelongToTheScene == ~evaluating /\ scene # 0 => handlers \in {0, scene}
=============================================================================
