-------------------------- MODULE ProcessRegistry --------------------------
(* `process.run`: the children the Supervisor spawns for a generation's Lua, *)
(* how one is killed, how its end is reported, and what is reaped when the   *)
(* generation departs (supervisor/src/process/registry.rs, process/mod.rs,   *)
(* and the operations of supervisor.rs that call them).                      *)
(*                                                                           *)
(* main's loop is one thread and blocks inside a reap; the task that reads a *)
(* child's output and the one that waits for its exit run beside it.         *)
EXTENDS Naturals, Sequences, FiniteSets

CONSTANTS Runs,              \* ids of process.run commands, each sent once
          LastOwner          \* bound: generations 0..LastOwner

ASSUME OwnerAssumption == LastOwner \in Nat

VARIABLES owner,       \* authoritative generation
          ownerUp,     \* its Renderer runs
          spawnedBy,   \* run -> generation that asked, NoOne before
          group,       \* run -> its process group: "none" "alive" "dead"
          stuck,       \* run -> its group sits in uninterruptible I/O
          piped,       \* run -> its stdout or stderr is still open
          tracked,     \* LiveProcesses: the runs whose Child the map holds
          processDone, \* main's queue of runs whose streams closed
          detached,    \* runs whose Child a wait_and_report_exit task owns
          reaping,     \* main, inside reap_process_group
          sweep,       \* runs main still has to reap for a departed generation
          exits        \* run -> ProcessExited frames sent

processVars == <<owner, ownerUp, spawnedBy, group, stuck, piped, tracked,
                 processDone, detached, reaping, sweep, exits>>
osVars      == <<group, stuck, piped>>

NoOne     == LastOwner + 1
NotReaping == [run |-> "none", signal |-> "none", report |-> FALSE]
LoopIsFree == reaping = NotReaping /\ sweep = {}

ProcessInit ==
  /\ owner = 0 /\ ownerUp = TRUE
  /\ spawnedBy = [r \in Runs |-> NoOne]
  /\ group = [r \in Runs |-> "none"]
  /\ stuck = [r \in Runs |-> FALSE]
  /\ piped = [r \in Runs |-> FALSE]
  /\ tracked = {} /\ processDone = <<>> /\ detached = {}
  /\ reaping = NotReaping /\ sweep = {}
  /\ exits = [r \in Runs |-> 0]

ReportExit(r) == exits' = [exits EXCEPT ![r] = @ + 1]

-----------------------------------------------------------------------------
(* process.run and process.kill, dispatched for the authoritative generation. *)

Run(r) ==
  /\ LoopIsFree /\ ownerUp /\ spawnedBy[r] = NoOne
  /\ spawnedBy' = [spawnedBy EXCEPT ![r] = owner]
  /\ group' = [group EXCEPT ![r] = "alive"]
  /\ \E inDisk \in BOOLEAN : stuck' = [stuck EXCEPT ![r] = inDisk]
  /\ piped' = [piped EXCEPT ![r] = TRUE]
  /\ tracked' = tracked \cup {r}
  /\ UNCHANGED <<owner, ownerUp, processDone, detached, reaping, sweep, exits>>

\* The spawn failed or the arguments were malformed: the exit is owed all the same.
RunFails(r) ==
  /\ LoopIsFree /\ ownerUp /\ spawnedBy[r] = NoOne
  /\ spawnedBy' = [spawnedBy EXCEPT ![r] = owner]
  /\ ReportExit(r)
  /\ UNCHANGED <<owner, ownerUp, osVars, tracked, processDone, detached, reaping, sweep>>

\* Wrong on purpose, for mutation: the entry stays while its group is reaped.
KeepEntry(r) == tracked
TakeEntry(r) == tracked \ {r}

\* A kill that finds no entry does nothing (KillOutcome::NotRegistered).
Kill(r) ==
  /\ LoopIsFree /\ ownerUp /\ spawnedBy[r] = owner
  /\ r \in tracked
  /\ tracked' = TakeEntry(r)
  /\ reaping' = [run |-> r, signal |-> "SIGTERM", report |-> TRUE]
  /\ UNCHANGED <<owner, ownerUp, spawnedBy, osVars, processDone, detached, sweep, exits>>

-----------------------------------------------------------------------------
(* reap_process_group: SIGTERM, the grace, SIGKILL, two more seconds.        *)

\* Wrong on purpose, for mutation: a reap that failed reports nothing.
ReapEndsSilently ==
  /\ reaping' = NotReaping
  /\ IF reaping.report /\ group[reaping.run] = "dead" THEN ReportExit(reaping.run) ELSE UNCHANGED exits

ReapEnds ==
  /\ reaping' = NotReaping
  /\ IF reaping.report THEN ReportExit(reaping.run) ELSE UNCHANGED exits

ReapSeesExit ==
  /\ reaping # NotReaping /\ group[reaping.run] = "dead"
  /\ ReapEnds
  /\ UNCHANGED <<owner, ownerUp, spawnedBy, osVars, tracked, processDone, detached, sweep>>

GraceElapses ==
  /\ reaping.signal = "SIGTERM" /\ group[reaping.run] = "alive"
  /\ reaping' = [reaping EXCEPT !.signal = "SIGKILL"]
  /\ UNCHANGED <<owner, ownerUp, spawnedBy, osVars, tracked, processDone, detached, sweep, exits>>

\* Not even SIGKILL: KillOutcome::ReapFailed, and the exit is reported without a code.
ReapFails ==
  /\ reaping.signal = "SIGKILL" /\ group[reaping.run] = "alive" /\ stuck[reaping.run]
  /\ ReapEnds
  /\ UNCHANGED <<owner, ownerUp, spawnedBy, osVars, tracked, processDone, detached, sweep>>

-----------------------------------------------------------------------------
(* The child, the task that reads its output, the one that waits for it.     *)

\* It exits by itself or by the signal it was sent; the whole group and its pipes go with it.
GroupExits(r) ==
  /\ group[r] = "alive"
  /\ group' = [group EXCEPT ![r] = "dead"]
  /\ UNCHANGED <<owner, ownerUp, spawnedBy, stuck, piped, tracked, processDone, detached, reaping, sweep, exits>>

\* stream_process_output reaches both ends of file: the child exited, or closed them and runs on.
StreamsClose(r) ==
  /\ piped[r]
  /\ piped' = [piped EXCEPT ![r] = FALSE]
  /\ processDone' = Append(processDone, r)
  /\ UNCHANGED <<owner, ownerUp, spawnedBy, group, stuck, tracked, detached, reaping, sweep, exits>>

ReapExited ==
  /\ LoopIsFree /\ processDone # <<>>
  /\ processDone' = Tail(processDone)
  /\ LET r == Head(processDone) IN
       IF r \in tracked
         THEN tracked' = tracked \ {r} /\ detached' = detached \cup {r}
         ELSE UNCHANGED <<tracked, detached>>
  /\ UNCHANGED <<owner, ownerUp, spawnedBy, osVars, reaping, sweep, exits>>

WaitReturns(r) ==
  /\ r \in detached /\ group[r] = "dead"
  /\ detached' = detached \ {r}
  /\ ReportExit(r)
  /\ UNCHANGED <<owner, ownerUp, spawnedBy, osVars, tracked, processDone, reaping, sweep>>

-----------------------------------------------------------------------------
(* The Renderer dies and is replaced: its generation's entries are swept.    *)

OwnerDies ==
  /\ ownerUp /\ owner < LastOwner
  /\ ownerUp' = FALSE
  /\ UNCHANGED <<owner, spawnedBy, osVars, tracked, processDone, detached, reaping, sweep, exits>>

EntriesOfDeparted == {r \in tracked : spawnedBy[r] = owner}

ReplaceOwner ==
  /\ LoopIsFree /\ ~ownerUp
  /\ owner' = owner + 1 /\ ownerUp' = TRUE
  /\ sweep' = EntriesOfDeparted
  /\ UNCHANGED <<spawnedBy, osVars, tracked, processDone, detached, reaping, exits>>

SweepOne(r) ==
  /\ reaping = NotReaping /\ r \in sweep
  /\ sweep' = sweep \ {r}
  /\ tracked' = tracked \ {r}
  /\ reaping' = [run |-> r, signal |-> "SIGTERM", report |-> FALSE]
  /\ UNCHANGED <<owner, ownerUp, spawnedBy, osVars, processDone, detached, exits>>

ProcessNext ==
  \/ \E r \in Runs : \/ Run(r) \/ RunFails(r) \/ Kill(r) \/ GroupExits(r)
                     \/ StreamsClose(r) \/ WaitReturns(r) \/ SweepOne(r)
  \/ ReapSeesExit \/ GraceElapses \/ ReapFails \/ ReapExited \/ OwnerDies \/ ReplaceOwner

\* The kernel ends a group that was sent SIGKILL, unless it is stuck, and closes the pipes
\* of a dead one; main's loop and the tasks keep running.
SignalledDies == reaping.signal = "SIGKILL" /\ ~stuck[reaping.run] /\ GroupExits(reaping.run)

ProcessFairness ==
  /\ WF_processVars(ReapSeesExit) /\ WF_processVars(GraceElapses) /\ WF_processVars(ReapFails)
  /\ WF_processVars(ReapExited) /\ WF_processVars(ReplaceOwner) /\ WF_processVars(SignalledDies)
  /\ \A r \in Runs : /\ WF_processVars(SweepOne(r)) /\ WF_processVars(WaitReturns(r))
                     /\ WF_processVars(group[r] = "dead" /\ StreamsClose(r))

ProcessSpec == ProcessInit /\ [][ProcessNext]_processVars /\ ProcessFairness

-----------------------------------------------------------------------------
(* An exit_cb runs at most once, and never before its group is gone or a     *)
(* reap gave up on it: a kill, the end of the streams and the exit itself    *)
(* come in any order (registry.rs: kill_registered_process,                  *)
(* wait_and_report_exit; supervisor.rs: reap_exited_process).                *)
ExitIsReportedOnce ==
  \A r \in Runs : /\ exits[r] <= 1
                  /\ exits[r] = 1 /\ ~stuck[r] => group[r] # "alive"

(* Every run that ends, by itself or by a kill, is reported to the Renderer  *)
(* that asked for it as long as that Renderer lives: no path drops an        *)
(* exit_cb (registry.rs: dispatch, wait_and_report_exit).                    *)
EveryEndIsReported ==
  \A r \in Runs :
    (group[r] = "dead" /\ spawnedBy[r] = owner) ~> (exits[r] = 1 \/ spawnedBy[r] # owner \/ ~ownerUp)

(* What the comment on reap_generations_processes says: every process a      *)
(* departed generation's Lua spawned is reaped, not only its Renderer.       *)
DepartedLeaveNoProcess ==
  \A r \in Runs :
    LoopIsFree /\ spawnedBy[r] < owner /\ ~stuck[r] => group[r] # "alive"
=============================================================================
