------------------------- MODULE NotificationQueue -------------------------
(* The notification server: Notify calls served side by side by the bus's    *)
(* worker threads, the bounded queue they append to or replace in, the       *)
(* expiry tasks they leave behind, and the spooled icon files that outlive   *)
(* their entry by a grace (capabilities/notifications/controller.rs and      *)
(* queue.rs).                                                                *)
(*                                                                           *)
(* An entry keeps what these decisions read: its id, the incarnation of its  *)
(* content, whether it is expired, and whether it has a spooled icon; that   *)
(* it is transient is read once, by its expiry, and chosen there.  An icon   *)
(* file is the number of its last write, which stands for the mtime and      *)
(* length that icon_stamp compares; 0 is no file.                            *)
EXTENDS Naturals, Sequences, FiniteSets, SequencesExt

CONSTANTS QueueCap,          \* NOTIFICATION_QUEUE_CAP
          LastId,            \* bound in place of u32::MAX: ids wrap from here to 1
          Named,             \* bound: ids a Notify may give as its replaces_id
          LastIncarnation,   \* bound: Notify calls in a run
          InFlight           \* bound: Notify calls served at once

ASSUME QueueAssumption ==
  QueueCap \in Nat /\ LastId \in Nat \ {0} /\ Named \subseteq 1..LastId

VARIABLES queue, nextId, nextIncarnation,
          serving,     \* Notify calls between the id they took and their push
          timers,      \* expiry tasks asleep: <<id, incarnation>>
          served,      \* timers that have fired
          icons,       \* id -> last write of notif-{id}.png
          writes,      \* writes so far
          leaving,     \* entries taken off the queue whose icon is still to be
                       \* stamped: [id, incarnation, icon], icon for the history
          deletions,   \* schedule_icon_deletion tasks asleep: [id, stamp]
          unlinking,   \* those that found the file unmoved and are about to delete it
          overtaken,   \* history: ids whose bearer left after the Notify that
                       \* reuses the id had already written its picture
          mistaken     \* history: ids whose later picture was taken for that of
                       \* the bearer that left

queueVars == <<queue, nextId, nextIncarnation, serving, timers, served,
               icons, writes, leaving, deletions, unlinking, overtaken, mistaken>>
spoolVars == <<deletions, unlinking, mistaken>>

Ids == 1..LastId

QueueInit ==
  /\ queue = <<>> /\ nextIncarnation = 1
  /\ nextId = LastId                 \* so many came and went: the ids are about to wrap
  /\ serving = {} /\ timers = {} /\ served = {}
  /\ icons = [id \in Ids |-> 0] /\ writes = 0
  /\ leaving = {} /\ deletions = {} /\ unlinking = {}
  /\ overtaken = {} /\ mistaken = {}

Find(id) == SelectInSeq(queue, LAMBDA entry : entry.id = id)

-----------------------------------------------------------------------------
(* Notify.                                                                   *)

\* It takes its id and incarnation in one critical section; a nonzero replaces_id is the id.
NotifyBegins(replacesId, picture) ==
  LET id == IF replacesId # 0 THEN replacesId ELSE nextId IN
  /\ nextIncarnation <= LastIncarnation
  /\ Cardinality(serving) < InFlight
  /\ nextId' = IF replacesId # 0 THEN nextId ELSE IF nextId = LastId THEN 1 ELSE nextId + 1
  /\ nextIncarnation' = nextIncarnation + 1
  /\ serving' = serving \cup
       {[id |-> id, incarnation |-> nextIncarnation, picture |-> picture, spooled |-> FALSE, expired |-> FALSE]}
  /\ UNCHANGED <<queue, timers, served, icons, writes, leaving, overtaken, spoolVars>>

\* resolve_and_spool_image: the picture is written under the id's own name.
Spool(call) ==
  /\ call \in serving /\ call.picture /\ ~call.spooled
  /\ writes' = writes + 1
  /\ icons' = [icons EXCEPT ![call.id] = writes']
  /\ serving' = (serving \ {call}) \cup {[call EXCEPT !.spooled = TRUE]}
  /\ UNCHANGED <<queue, nextId, nextIncarnation, timers, served, leaving, overtaken, spoolVars>>

\* An entry goes under the state lock; its icon is seen to when the lock is free again.
Departs(entry) ==
  IF entry.picture
    THEN /\ leaving' = leaving \cup {[id |-> entry.id, incarnation |-> entry.incarnation,
                                      icon |-> icons[entry.id]]}
         /\ overtaken' = overtaken \cup {call.id : call \in {s \in serving : s.spooled /\ s.id = entry.id}}
    ELSE UNCHANGED <<leaving, overtaken>>

\* Wrong on purpose, for mutation: a replacement is appended like a new arrival.
AppendAlways(entry) == Append(queue, entry)

\* replace_or_push, before the eviction.
ReplaceOrAppend(entry) ==
  IF Find(entry.id) # 0 THEN [queue EXCEPT ![Find(entry.id)] = entry] ELSE Append(queue, entry)

\* A replacement that comes without a picture gives up the one it replaces.  Content
\* that never expires is a timer that never fires.
Push(call) ==
  /\ call \in serving /\ call.picture = call.spooled
  /\ serving' = serving \ {call}
  /\ LET pushed == ReplaceOrAppend(call) IN
       CASE Len(pushed) > QueueCap ->
              /\ queue' = Tail(pushed) /\ Departs(Head(pushed))
         [] Find(call.id) # 0 /\ ~call.picture ->
              /\ queue' = pushed /\ Departs(queue[Find(call.id)])
         [] OTHER -> queue' = pushed /\ UNCHANGED <<leaving, overtaken>>
  /\ timers' = timers \cup {<<call.id, call.incarnation>>}
  /\ UNCHANGED <<nextId, nextIncarnation, served, icons, writes, spoolVars>>

-----------------------------------------------------------------------------
(* The ways an entry leaves.                                                 *)

\* Wrong on purpose, for mutation: the timer's id is enough.
FindById(timer) == Find(timer[1])

FindExpiringEntry(timer) ==
  SelectInSeq(queue, LAMBDA entry : entry.id = timer[1] /\ entry.incarnation = timer[2])

\* An ordinary entry is retired to the history, a transient one goes.
Expire(timer, transient) ==
  LET at == FindExpiringEntry(timer) IN
  /\ timer \in timers
  /\ timers' = timers \ {timer} /\ served' = served \cup {timer}
  /\ IF at = 0 THEN UNCHANGED <<queue, leaving, overtaken>>
     ELSE IF queue[at].expired THEN UNCHANGED <<queue, leaving, overtaken>>
     ELSE IF transient
       THEN queue' = RemoveAt(queue, at) /\ Departs(queue[at])
       ELSE queue' = [queue EXCEPT ![at].expired = TRUE] /\ UNCHANGED <<leaving, overtaken>>
  /\ UNCHANGED <<nextId, nextIncarnation, serving, icons, writes, spoolVars>>

\* dismiss, CloseNotification, and reply and invoke_action on an entry that is not resident.
RemoveById(id) ==
  /\ Find(id) # 0
  /\ queue' = RemoveAt(queue, Find(id))
  /\ Departs(queue[Find(id)])
  /\ UNCHANGED <<nextId, nextIncarnation, serving, timers, served, icons, writes, spoolVars>>

-----------------------------------------------------------------------------
(* The icon of an entry that went: schedule_icon_deletion.  Notify runs      *)
(* beside each of its steps.                                                 *)

queueAndCallVars == <<queue, nextId, nextIncarnation, serving, timers, served>>

\* The file's later write passes for the one that is to go.
Mistakes(id, icon) == mistaken' = IF icons[id] > icon THEN mistaken \cup {id} ELSE mistaken

\* It stamps the file as it finds it: reply and invoke_action have awaited a signal by then.
StampIcon(gone) ==
  /\ gone \in leaving
  /\ leaving' = leaving \ {gone}
  /\ deletions' = deletions \cup {[id |-> gone.id, stamp |-> icons[gone.id]]}
  /\ Mistakes(gone.id, gone.icon)
  /\ UNCHANGED <<queueAndCallVars, icons, writes, unlinking, overtaken>>

\* Wrong on purpose, for mutation: the grace ends without a second look at the file.
DeleteUnseen(deletion) == TRUE
StampUnmoved(deletion) == icons[deletion.id] = deletion.stamp

\* ICON_DELETE_GRACE is over: the task goes on unless a later write took the name.
IconGraceEnds(deletion) ==
  /\ deletion \in deletions
  /\ deletions' = deletions \ {deletion}
  /\ unlinking' = IF StampUnmoved(deletion)
                    THEN unlinking \cup {[deletion EXCEPT !.stamp = icons[deletion.id]]} ELSE unlinking
  /\ UNCHANGED <<queueAndCallVars, icons, writes, leaving, overtaken, mistaken>>

\* delete_icon_file, on whatever bears the name by now.
DeleteIcon(deletion) ==
  /\ deletion \in unlinking
  /\ unlinking' = unlinking \ {deletion}
  /\ icons' = [icons EXCEPT ![deletion.id] = 0]
  /\ Mistakes(deletion.id, deletion.stamp)
  /\ UNCHANGED <<queueAndCallVars, writes, leaving, deletions, overtaken>>

QueueNext ==
  \/ \E replacesId \in {0} \cup Named, picture \in BOOLEAN : NotifyBegins(replacesId, picture)
  \/ \E call \in serving : Spool(call) \/ Push(call)
  \/ \E timer \in timers, transient \in BOOLEAN : Expire(timer, transient)
  \/ \E id \in Ids : RemoveById(id)
  \/ \E gone \in leaving : StampIcon(gone)
  \/ \E deletion \in deletions : IconGraceEnds(deletion)
  \/ \E deletion \in unlinking : DeleteIcon(deletion)

QueueSpec == QueueInit /\ [][QueueNext]_queueVars

-----------------------------------------------------------------------------
(* The queue holds an id once and never more than its cap, whatever order    *)
(* two Notify calls that name the same id are served in, a dismissal between *)
(* them included, and after the ids wrapped (queue.rs: replace_or_push,      *)
(* push_new, resolve_notification_id).                                       *)
QueueHoldsAnIdOnce ==
  /\ Len(queue) <= QueueCap
  /\ \A i, j \in DOMAIN queue : queue[i].id = queue[j].id => i = j

(* Content is marked expired only by its own countdown: a timer left by what *)
(* replaces_id replaced never retires the newer content (queue.rs:           *)
(* find_expiring_entry, expire_entry).                                       *)
ExpiredByItsOwnTimer ==
  \A i \in DOMAIN queue :
    queue[i].expired => <<queue[i].id, queue[i].incarnation>> \in served

(* The icon of a queued entry is on disk: the deletion an earlier bearer of  *)
(* the id left behind backs off, whatever is written, removed or replaced    *)
(* in its grace.  The exceptions are the pictures it cannot tell from the    *)
(* one that is to go: written before the earlier bearer left (overtaken), or *)
(* between its leaving and the stamp, or between the second look and the     *)
(* deletion (mistaken) (controller.rs: schedule_icon_deletion,               *)
(* resolve_and_spool_image).                                                 *)
QueuedIconExists ==
  \A i \in DOMAIN queue :
    queue[i].picture /\ queue[i].id \notin overtaken \cup mistaken => icons[queue[i].id] # 0
=============================================================================
