-------------------------- MODULE Capabilities_proofs -------------------------
(***************************************************************************)
(* The capabilities of the Supervisor, for every value of their constants. *)
(***************************************************************************)
EXTENDS NotificationQueue, BluetoothPrompt, IdleInhibit, IdleThresholds,
        FiniteSetTheorems, Induction_proofs, TLAPS

-----------------------------------------------------------------------------
(* The notification queue for every cap, every range of ids that wraps and   *)
(* any number of Notify calls served at once.                                *)

Entries == [id : Ids, incarnation : Nat, picture : BOOLEAN, spooled : BOOLEAN, expired : BOOLEAN]

Departures == [id : Ids, incarnation : Nat, icon : Nat]

Deletions == [id : Ids, stamp : Nat]

QueueTypes ==
  /\ queue \in Seq(Entries)
  /\ nextId \in Ids /\ nextIncarnation \in Nat
  /\ serving \subseteq Entries /\ timers \subseteq Ids \X Nat
  /\ icons \in [Ids -> Nat] /\ writes \in Nat
  /\ leaving \subseteq Departures
  /\ deletions \subseteq Deletions /\ unlinking \subseteq Deletions

(* A call comes with fresh content.                                        *)
ServedIsFresh == \A call \in serving : ~call.expired

(* No write has a number that is still to come.                            *)
StampsArePast ==
  /\ \A id \in Ids : icons[id] <= writes
  /\ \A deletion \in deletions \cup unlinking : deletion.stamp <= writes
  /\ \A gone \in leaving : gone.icon <= writes

(* The ids whose picture a deletion cannot tell from an earlier one's.     *)
Excused == overtaken \cup mistaken

(* The picture written last under an id whose bearer counts on it exists,  *)
(* and is later than any that is to go.                                    *)
Stands(id) ==
  /\ icons[id] # 0
  /\ \A deletion \in deletions \cup unlinking : deletion.id = id => deletion.stamp < icons[id]
  /\ \A gone \in leaving : gone.id = id => gone.icon < icons[id]

PicturesStand ==
  /\ \A i \in DOMAIN queue :
       queue[i].picture /\ queue[i].id \notin Excused => Stands(queue[i].id)
  /\ \A call \in serving :
       call.spooled /\ call.id \notin Excused => Stands(call.id)

QueueInv ==
  /\ QueueTypes /\ ServedIsFresh /\ StampsArePast
  /\ QueueHoldsAnIdOnce /\ ExpiredByItsOwnTimer /\ PicturesStand

-----------------------------------------------------------------------------
(* The least of a set of one is the one.                                   *)
LEMMA MinOfOne ==
  ASSUME NEW n \in Nat
  PROVE  Min({n}) = n
  BY DEF Min

(* Where an id stands, once it stands at one place only.                   *)
LEMMA FindIsThere ==
  ASSUME QueueTypes, QueueHoldsAnIdOnce, NEW id \in Ids
  PROVE  \/ Find(id) = 0 /\ \A i \in DOMAIN queue : queue[i].id # id
         \/ Find(id) \in DOMAIN queue /\ queue[Find(id)].id = id
  <1> DEFINE at == {i \in 1..Len(queue) : queue[i].id = id}
  <1>1. Find(id) = IF at # {} THEN Min(at) ELSE 0
    BY DEF Find, SelectInSeq
  <1>2. DOMAIN queue = 1..Len(queue) /\ Len(queue) \in Nat
    BY DEF QueueTypes
  <1>3. CASE at = {}
    BY <1>1, <1>2, <1>3
  <1>4. CASE at # {}
    <2>1. PICK i \in at : TRUE
      BY <1>4
    <2>2. at = {i}
      BY <1>2, <2>1 DEF QueueHoldsAnIdOnce
    <2>3. Min(at) = i
      BY <1>2, <2>1, <2>2, MinOfOne
    <2> QED
      BY <1>1, <1>2, <1>4, <2>1, <2>3
  <1> QED
    BY <1>3, <1>4

(* The entry a timer may retire bears its id and its incarnation.          *)
LEMMA ExpiringIsItsOwn ==
  ASSUME QueueTypes, QueueHoldsAnIdOnce, NEW timer, FindExpiringEntry(timer) # 0
  PROVE  /\ FindExpiringEntry(timer) \in DOMAIN queue
         /\ queue[FindExpiringEntry(timer)].id = timer[1]
         /\ queue[FindExpiringEntry(timer)].incarnation = timer[2]
  <1> DEFINE at == {i \in 1..Len(queue) : queue[i].id = timer[1] /\ queue[i].incarnation = timer[2]}
  <1>1. FindExpiringEntry(timer) = IF at # {} THEN Min(at) ELSE 0
    BY DEF FindExpiringEntry, SelectInSeq
  <1>2. DOMAIN queue = 1..Len(queue) /\ Len(queue) \in Nat
    BY DEF QueueTypes
  <1>3. PICK i \in at : TRUE
    BY <1>1
  <1>4. at = {i}
    BY <1>2, <1>3 DEF QueueHoldsAnIdOnce
  <1>5. Min(at) = i
    BY <1>2, <1>3, <1>4, MinOfOne
  <1> QED
    BY <1>1, <1>2, <1>3, <1>5

(* An element of two sequences in a row is one of either.                  *)
LEMMA InARow ==
  ASSUME NEW S, NEW l \in Seq(S), NEW r \in Seq(S)
  PROVE  /\ l \o r \in Seq(S) /\ Len(l \o r) = Len(l) + Len(r)
         /\ \A j \in 1..(Len(l) + Len(r)) : (l \o r)[j] = IF j <= Len(l) THEN l[j] ELSE r[j - Len(l)]
  OBVIOUS

(* What is left of a sequence keeps its order.                             *)
LEMMA RemoveAtShifts ==
  ASSUME NEW S, NEW s \in Seq(S), NEW i \in 1..Len(s)
  PROVE  /\ RemoveAt(s, i) \in Seq(S)
         /\ Len(RemoveAt(s, i)) = Len(s) - 1
         /\ \A j \in 1..(Len(s) - 1) : RemoveAt(s, i)[j] = IF j < i THEN s[j] ELSE s[j + 1]
  <1> DEFINE l == SubSeq(s, 1, i - 1)
             r == SubSeq(s, i + 1, Len(s))
  <1>1. Len(s) \in Nat
    OBVIOUS
  <1>2. /\ l \in Seq(S) /\ Len(l) = i - 1
        /\ \A j \in 1..(i - 1) : l[j] = s[j]
    BY <1>1
  <1>3. /\ r \in Seq(S) /\ Len(r) = Len(s) - i
        /\ \A j \in 1..(Len(s) - i) : r[j] = s[i + j]
    BY <1>1
  <1>4. RemoveAt(s, i) = l \o r
    BY DEF RemoveAt
  <1> HIDE DEF l, r
  <1>5. RemoveAt(s, i) \in Seq(S) /\ Len(RemoveAt(s, i)) = Len(s) - 1
    <2>1. l \o r \in Seq(S) /\ Len(l \o r) = Len(l) + Len(r)
      BY <1>2, <1>3, InARow
    <2>2. Len(l) + Len(r) = Len(s) - 1
      BY <1>1, <1>2, <1>3
    <2> QED
      BY <1>4, <2>1, <2>2
  <1>6. ASSUME NEW j \in 1..(Len(s) - 1)
        PROVE  RemoveAt(s, i)[j] = IF j < i THEN s[j] ELSE s[j + 1]
    <2>1. (l \o r)[j] = IF j <= Len(l) THEN l[j] ELSE r[j - Len(l)]
      <3>1. j \in 1..(Len(l) + Len(r))
        BY <1>1, <1>2, <1>3
      <3> QED
        BY <1>2, <1>3, <3>1, InARow
    <2>2. CASE j < i
      BY <1>1, <1>2, <1>4, <2>1, <2>2
    <2>3. CASE j >= i
      <3>1. j - (i - 1) \in 1..(Len(s) - i) /\ i + (j - (i - 1)) = j + 1
        BY <1>1, <2>3
      <3>2. r[j - (i - 1)] = s[j + 1]
        BY <1>3, <3>1
      <3> QED
        BY <1>1, <1>2, <1>4, <2>1, <2>3, <3>2
    <2> QED
      BY <1>1, <2>2, <2>3
  <1> QED
    BY <1>5, <1>6
(* What is queued is an entry.                                             *)
LEMMA QueuedIsAnEntry ==
  ASSUME QueueTypes
  PROVE  \A i \in DOMAIN queue : queue[i] \in Entries
  BY DEF QueueTypes

-----------------------------------------------------------------------------
(* Nothing is queued and nobody calls.                                     *)
LEMMA QueueInitInv == QueueInit => QueueInv
  BY QueueAssumption DEF QueueInit, QueueInv, QueueTypes, ServedIsFresh, StampsArePast, PicturesStand,
     QueueHoldsAnIdOnce, ExpiredByItsOwnTimer, Ids

(* A deletion to come concerns the entry that goes, and whoever has        *)
(* written its picture under the same id meanwhile is overtaken.           *)
LEMMA DepartsKeeps ==
  ASSUME QueueInv, NEW entry \in Entries, Departs(entry),
         UNCHANGED <<icons, writes, spoolVars>>, serving' \subseteq serving
  PROVE  /\ leaving' \subseteq Departures
         /\ \A gone \in leaving' : gone.icon <= writes'
         /\ Excused \subseteq Excused'
         /\ \A id \in Ids : Stands(id) /\ (entry.picture => id # entry.id) => Stands(id)'
         /\ \A call \in serving' : call.spooled /\ call.id \notin Excused' => Stands(call.id)'
  <1> DEFINE g == [id |-> entry.id, incarnation |-> entry.incarnation, icon |-> icons[entry.id]]
  <1>1. g \in Departures /\ g.icon <= writes
    BY DEF QueueInv, QueueTypes, StampsArePast, Entries, Departures
  <1>2. CASE entry.picture
    <2>1. /\ leaving' = leaving \cup {g} /\ g.id = entry.id
          /\ overtaken' = overtaken \cup {call.id : call \in {s \in serving : s.spooled /\ s.id = entry.id}}
          /\ UNCHANGED <<deletions, unlinking, mistaken>>
      BY <1>2 DEF Departs, spoolVars
    <2>2. \A id \in Ids : Stands(id) /\ id # entry.id => Stands(id)'
      BY <2>1 DEF Stands
    <2>3. ASSUME NEW call \in serving', call.spooled, call.id \notin Excused'
          PROVE  Stands(call.id)'
      <3>1. call.id \in Ids /\ call.id \notin Excused /\ call.id # entry.id /\ Stands(call.id)
        BY <2>1, <2>3 DEF QueueInv, QueueTypes, Entries, PicturesStand, Excused
      <3> QED
        BY <2>2, <3>1
    <2>4. Excused \subseteq Excused'
      BY <2>1 DEF Excused
    <2> QED
      BY <1>1, <1>2, <2>1, <2>2, <2>3, <2>4 DEF QueueInv, QueueTypes, StampsArePast
  <1>3. CASE ~entry.picture
    BY <1>3 DEF Departs, spoolVars, Excused, QueueInv, QueueTypes, StampsArePast, PicturesStand, Stands
  <1> QED
    BY <1>2, <1>3

(* A step of the deletions leaves the pictures that are counted on where   *)
(* they are, or they are excused from then on.                             *)
LEMMA PicturesKeep ==
  ASSUME QueueInv, UNCHANGED <<queue, serving, overtaken>>, mistaken \subseteq mistaken',
         \A id \in Ids : Stands(id) /\ id \notin mistaken' => Stands(id)'
  PROVE  PicturesStand'
  <1>1. \A i \in DOMAIN queue : queue[i].id \in Ids
    BY QueuedIsAnEntry DEF QueueInv, Entries
  <1>2. \A call \in serving : call.id \in Ids
    BY DEF QueueInv, QueueTypes, Entries
  <1>3. \A id \in Ids : id \notin Excused' => id \notin Excused /\ id \notin mistaken'
    BY DEF Excused
  <1> QED
    BY <1>1, <1>2, <1>3 DEF QueueInv, PicturesStand

(* What becomes of the queue when an entry leaves it.                      *)
LEMMA LeavingKeeps ==
  ASSUME QueueInv, NEW at \in DOMAIN queue, queue' = RemoveAt(queue, at),
         Departs(queue[at]), served \subseteq served', timers' \subseteq timers,
         UNCHANGED <<nextId, nextIncarnation, serving, icons, writes, spoolVars>>
  PROVE  QueueInv'
  <1>1. queue \in Seq(Entries) /\ Len(queue) \in Nat /\ DOMAIN queue = 1..Len(queue) /\ queue[at] \in Entries
    BY DEF QueueInv, QueueTypes
  <1>2. /\ queue' \in Seq(Entries) /\ Len(queue') = Len(queue) - 1
        /\ \A j \in 1..(Len(queue) - 1) : queue'[j] = IF j < at THEN queue[j] ELSE queue[j + 1]
    BY <1>1, RemoveAtShifts
  <1>3. ASSUME NEW j \in DOMAIN queue'
        PROVE  \E i \in DOMAIN queue \ {at} : queue'[j] = queue[i] /\ i = IF j < at THEN j ELSE j + 1
    <2>1. j \in 1..(Len(queue) - 1)
      BY <1>1, <1>2
    <2> QED
      BY <1>1, <1>2, <2>1
  <1>4. /\ leaving' \subseteq Departures
        /\ \A gone \in leaving' : gone.icon <= writes'
        /\ Excused \subseteq Excused'
        /\ \A id \in Ids : Stands(id) /\ (queue[at].picture => id # queue[at].id) => Stands(id)'
        /\ \A call \in serving' : call.spooled /\ call.id \notin Excused' => Stands(call.id)'
    BY <1>1, DepartsKeeps
  <1>5. QueueTypes' /\ ServedIsFresh' /\ StampsArePast'
    BY <1>2, <1>4 DEF QueueInv, QueueTypes, ServedIsFresh, StampsArePast, spoolVars
  <1>6. QueueHoldsAnIdOnce'
    <2>1. Len(queue') <= QueueCap
      BY <1>1, <1>2, QueueAssumption DEF QueueInv, QueueHoldsAnIdOnce
    <2>2. ASSUME NEW i \in DOMAIN queue', NEW j \in DOMAIN queue', queue'[i].id = queue'[j].id
          PROVE  i = j
      <3>1. PICK k \in DOMAIN queue \ {at} : queue'[i] = queue[k] /\ k = IF i < at THEN i ELSE i + 1
        BY <1>3
      <3>2. PICK m \in DOMAIN queue \ {at} : queue'[j] = queue[m] /\ m = IF j < at THEN j ELSE j + 1
        BY <1>3
      <3>3. k = m
        BY <2>2, <3>1, <3>2 DEF QueueInv, QueueHoldsAnIdOnce
      <3>4. i \in Nat /\ j \in Nat /\ at \in Nat
        BY <1>1, <1>2
      <3> QED
        BY <3>1, <3>2, <3>3, <3>4
    <2> QED
      BY <2>1, <2>2 DEF QueueHoldsAnIdOnce
  <1>7. ExpiredByItsOwnTimer'
    BY <1>3 DEF QueueInv, ExpiredByItsOwnTimer
  <1>8. PicturesStand'
    <2>1. ASSUME NEW j \in DOMAIN queue', queue'[j].picture, queue'[j].id \notin Excused',
                 NEW id, id = queue'[j].id
          PROVE  Stands(id)'
      <3>1. PICK i \in DOMAIN queue \ {at} : queue'[j] = queue[i]
        BY <1>3
      <3>2. queue[i] \in Entries /\ id = queue[i].id
        BY <1>1, <2>1, <3>1
      <3>3. id # queue[at].id
        BY <3>1, <3>2 DEF QueueInv, QueueHoldsAnIdOnce
      <3>4. Stands(id)
        <4>1. queue[i].picture /\ queue[i].id \notin Excused
          BY <1>4, <2>1, <3>1
        <4> QED
          BY <3>1, <3>2, <4>1 DEF QueueInv, PicturesStand
      <3> QED
        BY <1>4, <3>2, <3>3, <3>4 DEF Entries
    <2>2. \A j \in DOMAIN queue' :
            queue'[j].picture /\ queue'[j].id \notin Excused'
              => /\ icons'[queue'[j].id] # 0
                 /\ \A deletion \in deletions' \cup unlinking' :
                      deletion.id = queue'[j].id => deletion.stamp < icons'[queue'[j].id]
                 /\ \A gone \in leaving' : gone.id = queue'[j].id => gone.icon < icons'[queue'[j].id]
      BY <2>1 DEF Stands
    <2> QED
      BY <1>4, <2>2 DEF PicturesStand, Stands
  <1> QED
    BY <1>5, <1>6, <1>7, <1>8 DEF QueueInv

(* A replacement takes the place of its id, a new arrival the end.         *)
LEMMA PushedIs ==
  ASSUME QueueInv, NEW call \in Entries
  PROVE  /\ ReplaceOrAppend(call) \in Seq(Entries)
         /\ Len(ReplaceOrAppend(call)) = IF Find(call.id) # 0 THEN Len(queue) ELSE Len(queue) + 1
         /\ \A i \in DOMAIN ReplaceOrAppend(call) :
              ReplaceOrAppend(call)[i] = IF (IF Find(call.id) # 0 THEN i = Find(call.id) ELSE i = Len(queue) + 1)
                                         THEN call ELSE queue[i]
         /\ \A i, j \in DOMAIN ReplaceOrAppend(call) :
              ReplaceOrAppend(call)[i].id = ReplaceOrAppend(call)[j].id => i = j
  <1> DEFINE f == Find(call.id)
             p == ReplaceOrAppend(call)
  <1>1. queue \in Seq(Entries) /\ Len(queue) \in Nat /\ DOMAIN queue = 1..Len(queue) /\ call.id \in Ids
    BY DEF QueueInv, QueueTypes, Entries
  <1>2. \/ f = 0 /\ \A i \in DOMAIN queue : queue[i].id # call.id
        \/ f \in DOMAIN queue /\ queue[f].id = call.id
    BY <1>1, FindIsThere DEF QueueInv
  <1>3. p = IF f # 0 THEN [queue EXCEPT ![f] = call] ELSE Append(queue, call)
    BY DEF ReplaceOrAppend
  <1> HIDE DEF f, p
  <1>4. CASE f = 0
    <2>1. /\ p \in Seq(Entries) /\ Len(p) = Len(queue) + 1 /\ DOMAIN p = 1..(Len(queue) + 1)
          /\ \A i \in 1..(Len(queue) + 1) : p[i] = IF i = Len(queue) + 1 THEN call ELSE queue[i]
      BY <1>1, <1>3, <1>4
    <2>2. \A i, j \in DOMAIN p : p[i].id = p[j].id => i = j
      BY <1>1, <1>2, <1>4, <2>1 DEF QueueInv, QueueHoldsAnIdOnce
    <2> QED
      BY <1>4, <2>1, <2>2 DEF f, p
  <1>5. CASE f # 0
    <2>1. f \in 1..Len(queue) /\ queue[f].id = call.id
      BY <1>1, <1>2, <1>5
    <2>2. /\ p \in Seq(Entries) /\ Len(p) = Len(queue) /\ DOMAIN p = 1..Len(queue)
          /\ \A i \in 1..Len(queue) : p[i] = IF i = f THEN call ELSE queue[i]
      BY <1>1, <1>3, <1>5, <2>1
    <2>3. \A i \in 1..Len(queue) : p[i].id = queue[i].id
      BY <2>1, <2>2
    <2>4. \A i, j \in DOMAIN p : p[i].id = p[j].id => i = j
      BY <1>1, <2>2, <2>3 DEF QueueInv, QueueHoldsAnIdOnce
    <2> QED
      BY <1>5, <2>2, <2>4 DEF f, p
  <1> QED
    BY <1>4, <1>5

(* A call that is served ends in the queue, whole or not at all, and what  *)
(* goes in its favour is the oldest entry or the one it replaces.          *)
LEMMA PushKeeps ==
  ASSUME QueueInv, NEW call \in serving, Push(call)
  PROVE  QueueInv'
  <1> DEFINE f == Find(call.id)
             p == ReplaceOrAppend(call)
             n == IF f # 0 THEN f ELSE Len(queue) + 1
  <1>1. /\ queue \in Seq(Entries) /\ Len(queue) \in Nat /\ DOMAIN queue = 1..Len(queue)
        /\ call \in Entries /\ call.picture = call.spooled /\ ~call.expired
        /\ serving' = serving \ {call} /\ timers' \subseteq Ids \X Nat
        /\ UNCHANGED <<nextId, nextIncarnation, served, icons, writes, spoolVars>>
    <2>1. call \in Entries
      BY DEF QueueInv, QueueTypes
    <2>2. timers' \subseteq Ids \X Nat
      BY <2>1 DEF QueueInv, QueueTypes, Push, Entries
    <2> QED
      BY <2>1, <2>2 DEF QueueInv, QueueTypes, ServedIsFresh, Push
  <1>2. /\ p \in Seq(Entries) /\ Len(p) \in Nat /\ DOMAIN p = 1..Len(p)
        /\ Len(p) = IF f # 0 THEN Len(queue) ELSE Len(queue) + 1
        /\ \A i \in DOMAIN p : p[i] = IF i = n THEN call ELSE queue[i]
        /\ \A i, j \in DOMAIN p : p[i].id = p[j].id => i = j
    BY <1>1, PushedIs
  <1>3. \/ f = 0 /\ \A i \in DOMAIN queue : queue[i].id # call.id
        \/ f \in DOMAIN queue /\ queue[f].id = call.id
    BY <1>1, FindIsThere DEF QueueInv, Entries
  <1>4. \/ Len(p) > QueueCap /\ queue' = Tail(p) /\ Departs(Head(p))
        \/ Len(p) <= QueueCap /\ f # 0 /\ ~call.picture /\ queue' = p /\ Departs(queue[f])
        \/ Len(p) <= QueueCap /\ queue' = p /\ UNCHANGED <<leaving, overtaken>>
    <2>1. Len(p) > QueueCap => f = 0
      BY <1>1, <1>2, QueueAssumption DEF QueueInv, QueueHoldsAnIdOnce
    <2>2. Len(p) > QueueCap \/ Len(p) <= QueueCap
      BY <1>2, QueueAssumption
    <2>3. CASE Len(p) > QueueCap
      <3>1. queue' = Tail(p) /\ Departs(Head(p))
        BY <2>1, <2>3, Zenon DEF Push
      <3> QED
        BY <2>3, <3>1
    <2>4. CASE Len(p) <= QueueCap
      <3>1. ~(Len(p) > QueueCap)
        BY <1>2, <2>4, QueueAssumption
      <3>2. CASE f # 0 /\ ~call.picture
        BY <2>4, <3>1, <3>2, Zenon DEF Push
      <3>3. CASE ~(f # 0 /\ ~call.picture)
        BY <2>4, <3>1, <3>3, Zenon DEF Push
      <3> QED
        BY <3>2, <3>3
    <2> QED
      BY <2>2, <2>3, <2>4
  <1>5. Len(p) <= QueueCap + 1
    BY <1>1, <1>2, QueueAssumption DEF QueueInv, QueueHoldsAnIdOnce
  <1> HIDE DEF f, p, n
  \* An entry of the pushed queue that counts on its picture has it already.
  <1>6. ASSUME NEW i \in DOMAIN p, p[i].picture, p[i].id \notin Excused
        PROVE  p[i].id \in Ids /\ Stands(p[i].id)
    <2>1. CASE i = n
      <3>1. p[i] = call
        BY <1>2, <2>1
      <3>2. call.spooled /\ call.id \notin Excused /\ call.id \in Ids
        BY <1>1, <1>6, <3>1 DEF Entries
      <3>3. Stands(call.id)
        BY <3>2 DEF QueueInv, PicturesStand
      <3> QED
        BY <3>1, <3>2, <3>3
    <2>2. CASE i # n
      <3>1. p[i] = queue[i] /\ i \in DOMAIN queue
        BY <1>1, <1>2, <1>3, <2>2 DEF n
      <3> QED
        <4>1. queue[i] \in Entries /\ queue[i].picture /\ queue[i].id \notin Excused
          BY <1>1, <1>6, <3>1
        <4>2. queue[i].id \in Ids /\ Stands(queue[i].id)
          BY <3>1, <4>1 DEF QueueInv, PicturesStand, Entries
        <4> QED
          BY <3>1, <4>2
    <2> QED
      BY <2>1, <2>2
  <1>7. \A i \in DOMAIN p : p[i].expired => <<p[i].id, p[i].incarnation>> \in served
    <2> SUFFICES ASSUME NEW i \in DOMAIN p, p[i].expired
                 PROVE  <<p[i].id, p[i].incarnation>> \in served
      OBVIOUS
    <2>1. i # n /\ p[i] = queue[i]
      BY <1>1, <1>2
    <2>2. i \in DOMAIN queue
      BY <1>1, <1>2, <1>3, <2>1 DEF n
    <2> QED
      BY <2>1, <2>2 DEF QueueInv, ExpiredByItsOwnTimer
  <1>8. CASE Len(p) > QueueCap /\ queue' = Tail(p) /\ Departs(Head(p))
    <2>1. Len(p) \in Nat \ {0} /\ p # <<>> /\ Head(p) = p[1] /\ p[1] \in Entries /\ 1 \in DOMAIN p
      BY <1>2, <1>8, QueueAssumption
    <2>2. /\ queue' \in Seq(Entries) /\ Len(queue') = Len(p) - 1 /\ DOMAIN queue' = 1..(Len(p) - 1)
          /\ \A i \in 1..(Len(p) - 1) : queue'[i] = p[i + 1] /\ i + 1 \in DOMAIN p
      BY <1>2, <1>8, <2>1
    <2>3. /\ leaving' \subseteq Departures
          /\ \A gone \in leaving' : gone.icon <= writes'
          /\ Excused \subseteq Excused'
          /\ \A id \in Ids : Stands(id) /\ (p[1].picture => id # p[1].id) => Stands(id)'
          /\ \A c \in serving' : c.spooled /\ c.id \notin Excused' => Stands(c.id)'
      BY <1>1, <1>8, <2>1, DepartsKeeps
    <2>4. QueueTypes' /\ ServedIsFresh' /\ StampsArePast'
      BY <1>1, <2>2, <2>3 DEF QueueInv, QueueTypes, ServedIsFresh, StampsArePast, spoolVars
    <2>5. QueueHoldsAnIdOnce'
      <3>1. Len(queue') <= QueueCap
        BY <1>2, <1>5, <2>2, QueueAssumption
      <3>2. ASSUME NEW i \in DOMAIN queue', NEW j \in DOMAIN queue', queue'[i].id = queue'[j].id
            PROVE  i + 1 = j + 1
        <4>1. i + 1 \in DOMAIN p /\ j + 1 \in DOMAIN p /\ p[i + 1].id = p[j + 1].id
          BY <2>2, <3>2
        <4> QED
          BY <1>2, <4>1
      <3>3. \A i, j \in DOMAIN queue' : i + 1 = j + 1 => i = j
        BY <2>2
      <3> QED
        BY <3>1, <3>2, <3>3 DEF QueueHoldsAnIdOnce
    <2>6. ExpiredByItsOwnTimer'
      BY <1>1, <1>7, <2>2 DEF ExpiredByItsOwnTimer
    <2>7. PicturesStand'
      <3>1. ASSUME NEW i \in DOMAIN queue', queue'[i].picture, queue'[i].id \notin Excused',
                   NEW id, id = queue'[i].id
            PROVE  Stands(id)'
        <4>1. i + 1 \in DOMAIN p /\ id = p[i + 1].id /\ p[i + 1].picture /\ i + 1 # 1
          BY <2>2, <3>1
        <4>2. id \in Ids /\ Stands(id)
          BY <1>6, <2>3, <3>1, <4>1
        <4>3. id # p[1].id
          BY <1>2, <2>1, <4>1
        <4> QED
          BY <2>3, <4>2, <4>3
      <3>2. \A i \in DOMAIN queue' :
              queue'[i].picture /\ queue'[i].id \notin Excused'
                => /\ icons'[queue'[i].id] # 0
                   /\ \A deletion \in deletions' \cup unlinking' :
                        deletion.id = queue'[i].id => deletion.stamp < icons'[queue'[i].id]
                   /\ \A gone \in leaving' : gone.id = queue'[i].id => gone.icon < icons'[queue'[i].id]
        BY <3>1 DEF Stands
      <3> QED
        BY <2>3, <3>2 DEF PicturesStand, Stands
    <2> QED
      BY <2>4, <2>5, <2>6, <2>7 DEF QueueInv
  <1>9. CASE Len(p) <= QueueCap /\ f # 0 /\ ~call.picture /\ queue' = p /\ Departs(queue[f])
    <2>1. f \in DOMAIN queue /\ queue[f] \in Entries /\ queue[f].id = call.id /\ n = f
      BY <1>1, <1>3, <1>9 DEF n
    <2>2. /\ leaving' \subseteq Departures
          /\ \A gone \in leaving' : gone.icon <= writes'
          /\ Excused \subseteq Excused'
          /\ \A id \in Ids : Stands(id) /\ (queue[f].picture => id # call.id) => Stands(id)'
          /\ \A c \in serving' : c.spooled /\ c.id \notin Excused' => Stands(c.id)'
      BY <1>1, <1>9, <2>1, DepartsKeeps
    <2>3. QueueTypes' /\ ServedIsFresh' /\ StampsArePast'
      BY <1>1, <1>2, <1>9, <2>2 DEF QueueInv, QueueTypes, ServedIsFresh, StampsArePast, spoolVars
    <2>4. QueueHoldsAnIdOnce' /\ ExpiredByItsOwnTimer'
      BY <1>1, <1>2, <1>7, <1>9 DEF QueueHoldsAnIdOnce, ExpiredByItsOwnTimer
    <2>5. PicturesStand'
      <3>1. ASSUME NEW i \in DOMAIN p, p[i].picture, p[i].id \notin Excused', NEW id, id = p[i].id
            PROVE  Stands(id)'
        <4>1. id \in Ids /\ Stands(id)
          BY <1>6, <2>2, <3>1
        <4>2. i # n
          BY <1>2, <1>9, <3>1
        <4>3. id # call.id
          <5>1. n \in DOMAIN p /\ p[n] = call
            BY <1>1, <1>2, <1>9, <2>1
          <5> QED
            BY <1>2, <3>1, <4>2, <5>1
        <4> QED
          BY <2>2, <4>1, <4>3
      <3>2. \A i \in DOMAIN queue' :
              queue'[i].picture /\ queue'[i].id \notin Excused'
                => /\ icons'[queue'[i].id] # 0
                   /\ \A deletion \in deletions' \cup unlinking' :
                        deletion.id = queue'[i].id => deletion.stamp < icons'[queue'[i].id]
                   /\ \A gone \in leaving' : gone.id = queue'[i].id => gone.icon < icons'[queue'[i].id]
        BY <1>9, <3>1 DEF Stands
      <3> QED
        BY <2>2, <3>2 DEF PicturesStand, Stands
    <2> QED
      BY <2>3, <2>4, <2>5 DEF QueueInv
  <1>10. CASE Len(p) <= QueueCap /\ queue' = p /\ UNCHANGED <<leaving, overtaken>>
    <2>1. QueueTypes' /\ ServedIsFresh' /\ StampsArePast'
      BY <1>1, <1>2, <1>10 DEF QueueInv, QueueTypes, ServedIsFresh, StampsArePast, spoolVars
    <2>2. QueueHoldsAnIdOnce' /\ ExpiredByItsOwnTimer'
      BY <1>1, <1>2, <1>7, <1>10 DEF QueueHoldsAnIdOnce, ExpiredByItsOwnTimer
    <2>3. PicturesStand'
      BY <1>1, <1>6, <1>10 DEF QueueInv, PicturesStand, Stands, Excused, spoolVars
    <2> QED
      BY <2>1, <2>2, <2>3 DEF QueueInv
  <1> QED
    BY <1>4, <1>8, <1>9, <1>10

-----------------------------------------------------------------------------
LEMMA QueueStep == QueueInv /\ [QueueNext]_queueVars => QueueInv'
  <1> SUFFICES ASSUME QueueInv, [QueueNext]_queueVars PROVE QueueInv'
    OBVIOUS
  <1> USE DEF QueueInv
  <1>1. ASSUME NEW replacesId \in {0} \cup Named, NEW picture \in BOOLEAN, NotifyBegins(replacesId, picture)
        PROVE  QueueInv'
    <2> DEFINE id   == IF replacesId # 0 THEN replacesId ELSE nextId
               call == [id |-> id, incarnation |-> nextIncarnation, picture |-> picture,
                        spooled |-> FALSE, expired |-> FALSE]
    <2>1. id \in Ids /\ nextId' \in Ids /\ call \in Entries
      BY <1>1, QueueAssumption DEF NotifyBegins, QueueTypes, Ids, Entries
    <2>2. serving' = serving \cup {call}
      BY <1>1 DEF NotifyBegins
    <2>3. QueueTypes'
      <3> HIDE DEF id, call
      <3>1. nextIncarnation' \in Nat
        BY <1>1 DEF NotifyBegins, QueueTypes
      <3>2. serving' \subseteq Entries
        BY <2>1, <2>2 DEF QueueTypes
      <3> QED
        BY <1>1, <2>1, <3>1, <3>2 DEF NotifyBegins, spoolVars, QueueTypes
    <2>5. ServedIsFresh' /\ StampsArePast'
      <3>1. ~call.expired
        OBVIOUS
      <3> QED
        BY <1>1, <2>2, <3>1 DEF NotifyBegins, spoolVars, ServedIsFresh, StampsArePast
    <2>4. QueueHoldsAnIdOnce' /\ ExpiredByItsOwnTimer' /\ PicturesStand'
      BY <1>1, <2>2 DEF NotifyBegins, spoolVars, QueueHoldsAnIdOnce, ExpiredByItsOwnTimer, PicturesStand, Stands, Excused
    <2> QED
      BY <2>3, <2>4, <2>5
  <1>2. ASSUME NEW call \in serving, Spool(call)
        PROVE  QueueInv'
    <2> DEFINE spooled == [call EXCEPT !.spooled = TRUE]
    <2>1. call \in Entries /\ spooled \in Entries /\ ~spooled.expired /\ spooled.id = call.id
      BY DEF QueueTypes, ServedIsFresh, Entries
    <2>2. /\ serving' = (serving \ {call}) \cup {spooled}
          /\ icons' = [icons EXCEPT ![call.id] = writes + 1] /\ writes' = writes + 1
      BY <1>2 DEF Spool
    <2>3. call.id \in Ids
      BY <2>1 DEF Entries
    <2>4. QueueTypes'
      <3> HIDE DEF spooled
      <3>1. serving' \subseteq Entries
        BY <2>1, <2>2 DEF QueueTypes
      <3>2. icons' \in [Ids -> Nat] /\ writes' \in Nat
        BY <2>2, <2>3 DEF QueueTypes
      <3> QED
        BY <1>2, <3>1, <3>2 DEF Spool, spoolVars, QueueTypes
    <2>5. ServedIsFresh'
      BY <2>1, <2>2 DEF ServedIsFresh
    <2>6. StampsArePast'
      BY <1>2, <2>2, <2>3 DEF Spool, spoolVars, QueueTypes, Departures, Deletions, StampsArePast
    <2>7. QueueHoldsAnIdOnce' /\ ExpiredByItsOwnTimer'
      BY <1>2 DEF Spool, QueueHoldsAnIdOnce, ExpiredByItsOwnTimer
    <2>8. Stands(call.id)'
      BY <1>2, <2>2, <2>3 DEF Spool, spoolVars, QueueTypes, Departures, Deletions, StampsArePast, Stands
    <2>9. \A id \in Ids : Stands(id) => Stands(id)'
      BY <1>2, <2>2, <2>3, <2>8 DEF Spool, spoolVars, QueueTypes, Stands
    <2>10. PicturesStand'
      <3>1. \A i \in DOMAIN queue : queue[i].id \in Ids
        BY QueuedIsAnEntry DEF Entries
      <3>2. \A c \in serving : c.id \in Ids
        BY DEF QueueTypes, Entries
      <3> QED
        BY <1>2, <2>1, <2>2, <2>8, <2>9, <3>1, <3>2 DEF Spool, spoolVars, Excused, PicturesStand
    <2> QED
      BY <2>4, <2>5, <2>6, <2>7, <2>10
  <1>3. ASSUME NEW timer \in timers, NEW transient \in BOOLEAN, Expire(timer, transient)
        PROVE  QueueInv'
    <2> DEFINE at == FindExpiringEntry(timer)
    <2>1. /\ served' = served \cup {timer} /\ timers' \subseteq timers
          /\ UNCHANGED <<nextId, nextIncarnation, serving, icons, writes, spoolVars>>
      BY <1>3 DEF Expire
    <2>2. CASE UNCHANGED <<queue, leaving, overtaken>>
      <3>1. QueueTypes' /\ ServedIsFresh' /\ StampsArePast'
        BY <2>1, <2>2 DEF spoolVars, QueueTypes, ServedIsFresh, StampsArePast
      <3> QED
        BY <2>1, <2>2, <3>1 DEF spoolVars, QueueHoldsAnIdOnce, ExpiredByItsOwnTimer, PicturesStand, Stands, Excused
    <2>3. CASE /\ at # 0 /\ ~queue[at].expired /\ transient
               /\ queue' = RemoveAt(queue, at) /\ Departs(queue[at])
      BY <2>1, <2>3, ExpiringIsItsOwn, LeavingKeeps
    <2>4. CASE /\ at # 0 /\ queue' = [queue EXCEPT ![at].expired = TRUE]
               /\ UNCHANGED <<leaving, overtaken>>
      <3>1. at \in DOMAIN queue /\ queue[at].id = timer[1] /\ queue[at].incarnation = timer[2]
        BY <2>4, ExpiringIsItsOwn
      <3>2. queue \in Seq(Entries) /\ Len(queue) \in Nat /\ DOMAIN queue = 1..Len(queue)
        BY DEF QueueTypes
      <3>3. ASSUME NEW entry \in Entries
            PROVE  LET retired == [entry EXCEPT !.expired = TRUE] IN
                   /\ retired \in Entries
                   /\ retired.id = entry.id /\ retired.incarnation = entry.incarnation
                   /\ retired.picture = entry.picture
        BY DEF Entries
      <3>10. queue[at] \in Entries
        BY <3>1, <3>2
      <3>4. /\ queue' \in Seq(Entries) /\ Len(queue') = Len(queue) /\ DOMAIN queue' = DOMAIN queue
            /\ \A i \in DOMAIN queue :
                 queue'[i] = IF i = at THEN [queue[at] EXCEPT !.expired = TRUE] ELSE queue[i]
        BY <2>4, <3>1, <3>2, <3>3, <3>10
      <3>5. \A i \in DOMAIN queue :
              /\ queue'[i].id = queue[i].id /\ queue'[i].incarnation = queue[i].incarnation
              /\ queue'[i].picture = queue[i].picture
              /\ queue'[i].expired => i = at \/ queue[i].expired
        <4>1. queue'[at] = [queue[at] EXCEPT !.expired = TRUE]
          BY <3>1, <3>4
        <4>2. \A i \in DOMAIN queue : i # at => queue'[i] = queue[i]
          BY <3>4
        <4>3. /\ queue'[at].id = queue[at].id /\ queue'[at].incarnation = queue[at].incarnation
              /\ queue'[at].picture = queue[at].picture
          BY <3>3, <3>10, <4>1
        <4> QED
          BY <4>2, <4>3
      <3>6. QueueTypes' /\ ServedIsFresh' /\ StampsArePast'
        BY <2>1, <2>4, <3>4 DEF spoolVars, QueueTypes, ServedIsFresh, StampsArePast
      <3>7. QueueHoldsAnIdOnce'
        BY <3>4, <3>5 DEF QueueHoldsAnIdOnce
      <3>8. ExpiredByItsOwnTimer'
        <4>1. timer = <<timer[1], timer[2]>>
          BY DEF QueueTypes
        <4> QED
          BY <2>1, <3>1, <3>4, <3>5, <4>1 DEF ExpiredByItsOwnTimer
      <3>9. PicturesStand'
        BY <2>1, <2>4, <3>4, <3>5 DEF spoolVars, PicturesStand, Stands, Excused
      <3> QED
        BY <3>6, <3>7, <3>8, <3>9
    <2> QED
      BY <1>3, <2>2, <2>3, <2>4 DEF Expire
  <1>4. ASSUME NEW id \in Ids, RemoveById(id)
        PROVE  QueueInv'
    <2>1. Find(id) \in DOMAIN queue
      BY <1>4, FindIsThere DEF RemoveById
    <2> QED
      BY <1>4, <2>1, LeavingKeeps DEF RemoveById
  <1>5. ASSUME NEW gone \in leaving, StampIcon(gone)
        PROVE  QueueInv'
    <2> DEFINE d == [id |-> gone.id, stamp |-> icons[gone.id]]
    <2>1. /\ gone \in Departures /\ gone.id \in Ids /\ d \in Deletions
          /\ d.id = gone.id /\ d.stamp = icons[gone.id] /\ d.stamp <= writes
      BY DEF QueueTypes, StampsArePast, Departures, Deletions
    <2>2. /\ leaving' \subseteq leaving /\ deletions' = deletions \cup {d}
          /\ mistaken' = IF icons[gone.id] > gone.icon THEN mistaken \cup {gone.id} ELSE mistaken
          /\ UNCHANGED <<queueAndCallVars, icons, writes, unlinking, overtaken>>
      BY <1>5 DEF StampIcon, Mistakes
    <2> HIDE DEF d
    <2>3. QueueTypes' /\ ServedIsFresh' /\ StampsArePast'
      BY <2>1, <2>2 DEF queueAndCallVars, QueueTypes, ServedIsFresh, StampsArePast
    <2>4. QueueHoldsAnIdOnce' /\ ExpiredByItsOwnTimer'
      BY <2>2 DEF queueAndCallVars, QueueHoldsAnIdOnce, ExpiredByItsOwnTimer
    <2>5. \A id \in Ids : Stands(id) /\ id \notin mistaken' => Stands(id)'
      BY <2>1, <2>2 DEF QueueTypes, Departures, Stands
    <2>6. PicturesStand'
      BY <2>2, <2>5, PicturesKeep DEF queueAndCallVars
    <2> QED
      BY <2>3, <2>4, <2>6
  <1>7. ASSUME NEW deletion \in deletions, IconGraceEnds(deletion)
        PROVE  QueueInv'
    <2>1. /\ deletion.id \in Ids /\ deletion \in Deletions
          /\ StampUnmoved(deletion) =>
               [deletion EXCEPT !.stamp = icons[deletion.id]] = deletion
      BY DEF QueueTypes, Deletions, StampUnmoved
    <2>2. /\ deletions' \subseteq deletions
          /\ unlinking' \subseteq unlinking \cup {deletion}
          /\ deletion \in unlinking' \ unlinking => icons[deletion.id] = deletion.stamp
          /\ UNCHANGED <<queueAndCallVars, icons, writes, leaving, overtaken, mistaken>>
      BY <1>7, <2>1 DEF IconGraceEnds, StampUnmoved
    <2>3. QueueTypes' /\ ServedIsFresh' /\ StampsArePast'
      BY <2>1, <2>2 DEF queueAndCallVars, QueueTypes, ServedIsFresh, StampsArePast
    <2>4. QueueHoldsAnIdOnce' /\ ExpiredByItsOwnTimer'
      BY <2>2 DEF queueAndCallVars, QueueHoldsAnIdOnce, ExpiredByItsOwnTimer
    <2>5. \A id \in Ids : Stands(id) => Stands(id)'
      BY <2>1, <2>2 DEF Stands
    <2>6. PicturesStand'
      BY <2>2, <2>5, PicturesKeep DEF queueAndCallVars
    <2> QED
      BY <2>3, <2>4, <2>6
  <1>8. ASSUME NEW deletion \in unlinking, DeleteIcon(deletion)
        PROVE  QueueInv'
    <2>1. deletion.id \in Ids /\ deletion \in Deletions
      BY DEF QueueTypes, Deletions
    <2>2. /\ unlinking' \subseteq unlinking /\ icons' = [icons EXCEPT ![deletion.id] = 0]
          /\ mistaken' = IF icons[deletion.id] > deletion.stamp THEN mistaken \cup {deletion.id} ELSE mistaken
          /\ UNCHANGED <<queueAndCallVars, writes, leaving, deletions, overtaken>>
      BY <1>8 DEF DeleteIcon, Mistakes
    <2>3. QueueTypes' /\ ServedIsFresh' /\ StampsArePast'
      BY <2>1, <2>2 DEF queueAndCallVars, QueueTypes, ServedIsFresh, StampsArePast
    <2>4. QueueHoldsAnIdOnce' /\ ExpiredByItsOwnTimer'
      BY <2>2 DEF queueAndCallVars, QueueHoldsAnIdOnce, ExpiredByItsOwnTimer
    <2>5. \A id \in Ids : Stands(id) /\ id \notin mistaken' => Stands(id)'
      BY <2>1, <2>2 DEF QueueTypes, Deletions, Stands
    <2>6. PicturesStand'
      BY <2>2, <2>5, PicturesKeep DEF queueAndCallVars
    <2> QED
      BY <2>3, <2>4, <2>6
  <1>6. CASE UNCHANGED queueVars
    <2>1. QueueTypes' /\ ServedIsFresh' /\ StampsArePast'
      BY <1>6 DEF queueVars, QueueTypes, ServedIsFresh, StampsArePast
    <2> QED
      BY <1>6, <2>1 DEF queueVars, QueueHoldsAnIdOnce, ExpiredByItsOwnTimer, PicturesStand, Stands, Excused
  <1> QED
    BY <1>1, <1>2, <1>3, <1>4, <1>5, <1>6, <1>7, <1>8, PushKeeps DEF QueueNext

LEMMA QueueStays == QueueSpec => []QueueInv
  BY QueueInitInv, QueueStep, PTL DEF QueueSpec

(* The queue holds an id once and stays within its cap, however many calls *)
(* name the same id at once and however often the ids wrap (queue.rs:      *)
(* replace_or_push, push_new).                                             *)
THEOREM QueueHoldsIdsOnce == QueueSpec => []QueueHoldsAnIdOnce
  <1>1. QueueInv => QueueHoldsAnIdOnce
    BY DEF QueueInv
  <1> QED
    BY <1>1, QueueStays, PTL

(* Whatever incarnations an id has had, an entry is retired by the timer   *)
(* of its own (queue.rs: find_expiring_entry, expire_entry).               *)
THEOREM TimersExpireTheirOwn == QueueSpec => []ExpiredByItsOwnTimer
  <1>1. QueueInv => ExpiredByItsOwnTimer
    BY DEF QueueInv
  <1> QED
    BY <1>1, QueueStays, PTL

(* The deletions of earlier bearers never take the picture of an entry     *)
(* that is queued, save one written before the earlier bearer left, before *)
(* that departure was stamped, or after the deletion's second look         *)
(* (controller.rs: schedule_icon_deletion).                                *)
THEOREM IconsStand == QueueSpec => []QueuedIconExists
  <1>1. QueueInv => QueuedIconExists
    BY DEF QueueInv, PicturesStand, Stands, Excused, QueuedIconExists
  <1> QED
    BY <1>1, QueueStays, PTL

-----------------------------------------------------------------------------
(* A yes is for the card it was clicked on, for every set of devices, any    *)
(* number of requests, and every grace longer than the way to the screen and *)
(* back.                                                                     *)

Askings == [n : 1..requested, mac : Macs, waits : BOOLEAN]
Times   == 0..Quiet

Types ==
  /\ requested \in 0..LastRequest
  /\ asking \subseteq Askings
  /\ prompt = NoPrompt \/ prompt \in [n : 1..requested, mac : Macs, waits : BOOLEAN, age : 0..AcceptGrace]
  /\ answered \in [Requests -> [is : {"unasked", "waiting", "rejected", "allowed"}, card : Nat]]
  /\ changed \in Times
  /\ card.n \in Nat /\ click.card.n \in Nat
  /\ click.left \in Times /\ click.accept \in BOOLEAN
  /\ click # NoClick => click.left # Quiet

(* A call that waits is kept somewhere; a code display keeps none.         *)
CallsAreKept ==
  /\ \A n \in 1..requested :
       answered[n] = Waiting => prompt.n = n \/ \E request \in asking : request.n = n
  /\ \A request \in asking : ~request.waits => answered[request.n] # Waiting
  /\ prompt.n # 0 /\ ~prompt.waits => answered[prompt.n] # Waiting
  /\ \A n \in 1..requested : answered[n].is = "allowed" => answered[n].card = n
  /\ \A n \in Requests : n > requested => answered[n] = Unasked

(* What stands in the slot is on the screen, or came there lately; and so  *)
(* a click made on another card is young enough to be refused.             *)
ScreenIsCurrent ==
  /\ changed = Quiet => card.n = prompt.n
  /\ changed # Quiet /\ prompt.n # 0 => prompt.age + changed <= Transit
  /\ click # NoClick /\ prompt.n # 0 /\ click.card.n # prompt.n =>
       prompt.age + click.left <= 2 * Transit

PromptInv == Types /\ CallsAreKept /\ ScreenIsCurrent

-----------------------------------------------------------------------------
(* No request has come.                                                    *)
LEMMA PromptInitInv == PromptInit => PromptInv
  BY TransitAssumption DEF PromptInit, PromptInv, Types, CallsAreKept, ScreenIsCurrent, Times, Quiet,
     Askings, Requests, NoPrompt, NoCard, NoClick, Unasked

(* The slot is emptied with a no, or with the yes of the card in it.       *)
LEMMA TakeDownKeeps ==
  ASSUME PromptInv, prompt.n # 0, NEW verdict \in {Rejected, Allowed(prompt.n)}, TakeDown(verdict),
         UNCHANGED <<asking, requested, card>>, click' = click \/ click' = NoClick
  PROVE  PromptInv'
  <1> USE DEF PromptInv
  <1>1. /\ prompt' = NoPrompt /\ prompt.n \in 1..requested /\ prompt.n \in Requests /\ prompt.waits \in BOOLEAN
        /\ changed' \in Times /\ changed' # Quiet
    BY TransitAssumption DEF TakeDown, PairingChanged, Types, NoPrompt, Times, Quiet, Requests
  <1>2. answered' = IF prompt.waits THEN [answered EXCEPT ![prompt.n] = verdict] ELSE answered
    BY DEF TakeDown
  <1>3. /\ verdict \in [is : {"unasked", "waiting", "rejected", "allowed"}, card : Nat]
        /\ verdict # Waiting /\ (verdict.is = "allowed" => verdict.card = prompt.n)
    BY <1>1 DEF Rejected, Allowed, Waiting
  <1> HIDE DEF Rejected, Allowed
  <1>4. Types'
    <2>1. answered' \in [Requests -> [is : {"unasked", "waiting", "rejected", "allowed"}, card : Nat]]
      BY <1>1, <1>2, <1>3 DEF Types
    <2>2. /\ click'.card.n \in Nat /\ click'.left \in Times /\ click'.accept \in BOOLEAN
          /\ click' # NoClick => click'.left # Quiet
      <3>1. CASE click' = NoClick
        BY <3>1, TransitAssumption DEF Times, Quiet, NoClick, NoCard
      <3>2. CASE click' = click
        BY <3>2 DEF Types
      <3> QED
        BY <3>1, <3>2
    <2> QED
      BY <1>1, <2>1, <2>2 DEF Types, Askings
  <1>5. CallsAreKept'
    BY <1>1, <1>2, <1>3 DEF CallsAreKept, Types, NoPrompt, Requests, Askings
  <1>6. ScreenIsCurrent'
    BY <1>1 DEF ScreenIsCurrent, NoPrompt
  <1> QED
    BY <1>4, <1>5, <1>6

(* A waiting call that is turned away hears so, the others nothing.        *)
LEMMA RejectKeeps ==
  ASSUME PromptInv, NEW request \in asking, Reject(request), asking' = asking \ {request},
         UNCHANGED <<requested, prompt, changed, card, click>>
  PROVE  PromptInv'
  <1> USE DEF PromptInv
  <1>1. request \in Askings /\ request.n \in Requests /\ request.n \in 1..requested
    BY TransitAssumption DEF Types, Askings, Requests
  <1>2. \A n \in Requests : answered'[n] = IF request.waits /\ n = request.n THEN Rejected ELSE answered[n]
    BY <1>1 DEF Reject, Types
  <1>3. Types'
    BY <1>1 DEF Types, Reject, Rejected, Askings
  <1>4. CallsAreKept'
    <2>1. 1..requested \subseteq Requests /\ (prompt.n # 0 => prompt.n \in Requests)
      BY TransitAssumption DEF Types, Requests, NoPrompt
    <2> QED
      BY <1>1, <1>2, <2>1 DEF CallsAreKept, Rejected, Waiting, Types, Askings
  <1> QED
    BY <1>3, <1>4 DEF ScreenIsCurrent

(* No step forgets a call or ages the screen past the grace.               *)
LEMMA PromptNextInv == PromptInv /\ [PromptNext]_promptVars => PromptInv'
  <1> SUFFICES ASSUME PromptInv, [PromptNext]_promptVars PROVE PromptInv'
    OBVIOUS
  <1> USE DEF PromptInv
  <1>1. CASE UNCHANGED promptVars
    BY <1>1 DEF promptVars, Types, CallsAreKept, ScreenIsCurrent, Askings
  <1>2. ASSUME NEW mac \in Macs, NEW waits \in BOOLEAN, BluezAsks(mac, waits) PROVE PromptInv'
    <2> DEFINE request == [n |-> requested + 1, mac |-> mac, waits |-> waits]
    <2>1. /\ requested' = requested + 1 /\ requested + 1 \in Requests /\ requested \in Nat
          /\ asking' = asking \cup {request}
          /\ UNCHANGED <<prompt, changed, card, click>>
      BY <1>2, TransitAssumption DEF BluezAsks, Types, Requests
    <2>2. \A n \in Requests : answered'[n] = IF waits /\ n = requested + 1 THEN Waiting ELSE answered[n]
      BY <1>2, <2>1 DEF BluezAsks, Types
    <2>3. answered' \in [Requests -> [is : {"unasked", "waiting", "rejected", "allowed"}, card : Nat]]
      BY <1>2, <2>1 DEF BluezAsks, Types, Waiting
    <2>4. requested' \in 0..LastRequest /\ asking' \subseteq Askings'
      BY <2>1, TransitAssumption DEF Types, Askings, Requests
    <2>5. Types'
      BY <2>1, <2>3, <2>4 DEF Types
    <2>6. CallsAreKept'
      <3>1. \A n \in 1..(requested + 1) : n \in Requests /\ (n \in 1..requested \/ n = requested + 1)
        BY <2>1, TransitAssumption DEF Types, Requests
      <3> QED
        <4>1. \A n \in 1..requested : n \in Requests /\ n # requested + 1 /\ answered'[n] = answered[n]
          BY <2>1, <2>2, <3>1, TransitAssumption DEF Types, Requests
        <4>3. answered[requested + 1] = Unasked
          BY <2>1 DEF CallsAreKept
        <4>4. answered'[requested + 1] = IF waits THEN Waiting ELSE Unasked
          BY <2>1, <2>2, <4>3
        <4>5. \A q \in asking : q.n \in 1..requested
          BY DEF Types, Askings
        <4>6. prompt.n # 0 => prompt.n \in 1..requested
          BY DEF Types, NoPrompt
        <4>7. \A n \in 1..(requested + 1) :
                answered'[n] = Waiting => prompt.n = n \/ \E q \in asking' : q.n = n
          <5>1. request \in asking' /\ request.n = requested + 1
            BY <2>1
          <5>2. \A n \in 1..requested :
                  answered'[n] = Waiting => prompt.n = n \/ \E q \in asking' : q.n = n
            BY <2>1, <4>1 DEF CallsAreKept
          <5> HIDE DEF request
          <5> QED
            BY <3>1, <5>1, <5>2
        <4>8. \A q \in asking' : ~q.waits => answered'[q.n] # Waiting
          BY <2>1, <4>1, <4>4, <4>5 DEF CallsAreKept, Unasked, Waiting
        <4>9. \A n \in 1..(requested + 1) : answered'[n].is = "allowed" => answered'[n].card = n
          BY <3>1, <4>1, <4>4 DEF CallsAreKept, Unasked, Waiting
        <4>10. \A n \in Requests : n > requested + 1 => answered'[n] = Unasked
          BY <2>1, <2>2, TransitAssumption DEF CallsAreKept, Requests, Types
        <4> QED
          BY <2>1, <4>1, <4>6, <4>7, <4>8, <4>9, <4>10 DEF CallsAreKept
    <2> QED
      BY <2>1, <2>5, <2>6 DEF ScreenIsCurrent
  <1>3. ASSUME NEW request \in asking, Show(request) PROVE PromptInv'
    <2>1. CASE ~IsFree(request)
      BY <1>3, <2>1, RejectKeeps DEF Show
    <2>2. CASE IsFree(request)
      <3>1. /\ prompt' = [n |-> request.n, mac |-> request.mac, waits |-> request.waits, age |-> 0]
            /\ asking' = asking \ {request} /\ UNCHANGED <<answered, requested, card, click>>
            /\ changed' \in Times /\ changed' # Quiet
        BY <1>3, <2>2, TransitAssumption DEF Show, PairingChanged, Types, Times, Quiet
      <3>2. request \in Askings
        BY DEF Types
      <3>3. Types'
        BY <3>1, <3>2, TransitAssumption DEF Types, Askings
      <3>4. CallsAreKept'
        BY <2>2, <3>1, <3>2 DEF IsFree, CallsAreKept, Types, Askings, NoPrompt
      <3>5. ScreenIsCurrent'
        <4>1. click # NoClick => click.left \in 0..Transit
          BY TransitAssumption DEF Types, Times, Quiet
        <4>2. changed' \in 0..Transit /\ prompt'.age = 0
          BY <3>1, TransitAssumption DEF Times, Quiet
        <4> QED
          BY <3>1, <4>1, <4>2, TransitAssumption DEF ScreenIsCurrent
      <3> QED
        BY <3>3, <3>4, <3>5
    <2> QED
      BY <2>1, <2>2
  <1>4. ASSUME NEW request \in asking, Refuse(request) PROVE PromptInv'
    BY <1>4, RejectKeeps DEF Refuse
  <1>5. CASE BluezCancels \/ (\E mac \in Macs : ClearDisplay(mac))
    BY <1>5, TakeDownKeeps DEF BluezCancels, ClearDisplay
  <1>6. CASE ShowCard
    <2>1. Types'
      BY <1>6, TransitAssumption DEF ShowCard, Types, Times, Quiet, Askings, NoPrompt
    <2> QED
      BY <1>6, <2>1 DEF ShowCard, CallsAreKept, ScreenIsCurrent
  <1>7. ASSUME NEW accept \in BOOLEAN, UserClicks(accept) PROVE PromptInv'
    <2>1. /\ click' = [card |-> card, accept |-> accept, left |-> Transit]
          /\ UNCHANGED <<asking, requested, prompt, answered, changed, card>>
      BY <1>7 DEF UserClicks
    <2>2. Types'
      BY <2>1, TransitAssumption DEF Types, Times, Quiet, Askings
    <2>3. ScreenIsCurrent'
      <3>1. prompt.n # 0 /\ card.n # prompt.n => prompt.age + changed <= Transit
        BY DEF ScreenIsCurrent
      <3>2. prompt.n # 0 => prompt.age \in Nat
        BY TransitAssumption DEF Types, NoPrompt
      <3>3. changed \in Nat
        BY TransitAssumption DEF Types, Times, Quiet
      <3> QED
        BY <2>1, <3>1, <3>2, <3>3, TransitAssumption DEF ScreenIsCurrent
    <2> QED
      BY <2>1, <2>2, <2>3 DEF CallsAreKept
  <1>8. CASE AnswerPairing
    <2>1. CASE UNCHANGED <<prompt, answered, changed>>
      <3>1. UNCHANGED <<asking, requested, card>> /\ click' = NoClick
        BY <1>8 DEF AnswerPairing
      <3>2. Types'
        BY <2>1, <3>1, TransitAssumption DEF Types, NoClick, NoCard, Times, Quiet, Askings
      <3> QED
        BY <2>1, <3>1, <3>2 DEF CallsAreKept, ScreenIsCurrent
    <2>2. CASE prompt.n # 0 /\ ~TooSoon /\ TakeDown(IF click.accept THEN Allowed(click.card.n) ELSE Rejected)
      <3>1. click # NoClick /\ click' = NoClick /\ UNCHANGED <<asking, requested, card>>
        BY <1>8 DEF AnswerPairing
      <3>2. click.accept => click.card.n = prompt.n
        <4>1. prompt.age \in Nat /\ click.left \in Nat
          BY <2>2, TransitAssumption DEF Types, NoPrompt, Times, Quiet
        <4> QED
          BY <2>2, <3>1, <4>1, TransitAssumption DEF TooSoon, ScreenIsCurrent
      <3>3. (IF click.accept THEN Allowed(click.card.n) ELSE Rejected) \in {Rejected, Allowed(prompt.n)}
        BY <3>2
      <3> QED
        BY <2>2, <3>1, <3>3, TakeDownKeeps
    <2> QED
      BY <1>8, <2>1, <2>2 DEF AnswerPairing
  <1>9. CASE PromptTick
    <2>1. /\ changed # 0 /\ click.left # 0
          /\ UNCHANGED <<asking, requested, answered, card>>
          /\ changed' = IF changed = Quiet THEN Quiet ELSE changed - 1
          /\ click' = [click EXCEPT !.left = IF @ = Quiet THEN Quiet ELSE @ - 1]
          /\ prompt' = [prompt EXCEPT !.age = IF prompt.n # 0 /\ @ < AcceptGrace THEN @ + 1 ELSE @]
      BY <1>9 DEF PromptTick
    <2>2. /\ prompt'.n = prompt.n /\ prompt'.mac = prompt.mac /\ prompt'.waits = prompt.waits
          /\ prompt' = NoPrompt \/ prompt' \in [n : 1..requested, mac : Macs, waits : BOOLEAN, age : 0..AcceptGrace]
          /\ prompt.n # 0 => prompt.age \in Nat /\ prompt'.age \in {prompt.age, prompt.age + 1}
      <3>1. CASE prompt = NoPrompt
        <4>1. prompt' = NoPrompt
          BY <2>1, <3>1 DEF NoPrompt
        <4> QED
          BY <3>1, <4>1 DEF NoPrompt
      <3>2. CASE prompt \in [n : 1..requested, mac : Macs, waits : BOOLEAN, age : 0..AcceptGrace]
        <4>1. prompt.n # 0 /\ prompt.age \in 0..AcceptGrace
          BY <3>2
        <4>2. prompt' = [prompt EXCEPT !.age = IF prompt.age < AcceptGrace THEN prompt.age + 1 ELSE prompt.age]
          BY <2>1, <4>1
        <4> QED
          BY <3>2, <4>1, <4>2, TransitAssumption
      <3> QED
        BY <3>1, <3>2 DEF Types
    <2>3. /\ changed' \in Times /\ changed \in Nat /\ (changed' = Quiet <=> changed = Quiet)
          /\ changed # Quiet => changed' = changed - 1
      BY <2>1, TransitAssumption DEF Types, Times, Quiet
    <2>4. CASE click = NoClick
      <3>1. click' = click
        BY <2>1, <2>4 DEF NoClick
      <3>2. Types'
        BY <2>1, <2>2, <2>3, <3>1 DEF Types, Askings
      <3>3. ScreenIsCurrent'
        BY <2>1, <2>2, <2>3, <2>4, <3>1, TransitAssumption DEF ScreenIsCurrent
      <3> QED
        BY <2>1, <2>2, <3>2, <3>3 DEF CallsAreKept
    <2>5. CASE click # NoClick
      <3>1. /\ click'.left = click.left - 1 /\ click'.card = click.card /\ click'.accept = click.accept
            /\ click.left \in Nat /\ click'.left \in Times /\ click'.left # Quiet
        BY <2>1, <2>5, TransitAssumption DEF Types, Times, Quiet
      <3>2. Types'
        BY <2>1, <2>2, <2>3, <3>1 DEF Types, Askings
      <3>3. ScreenIsCurrent'
        BY <2>1, <2>2, <2>3, <2>5, <3>1, TransitAssumption DEF ScreenIsCurrent
      <3> QED
        BY <2>1, <2>2, <3>2, <3>3 DEF CallsAreKept
    <2> QED
      BY <2>4, <2>5
  <1> QED
    BY <1>1, <1>2, <1>3, <1>4, <1>5, <1>6, <1>7, <1>8, <1>9 DEF PromptNext

(* A call BlueZ waits on is kept until it is answered, and a yes was       *)
(* clicked on its own card: the slot, its grace and the device a click     *)
(* names (agent.rs: show, answer).                                         *)
THEOREM YesIsItsOwn == PromptSpec => []YesIsForTheCardSeen
  <1>1. PromptInv => YesIsForTheCardSeen
    BY DEF PromptInv, CallsAreKept, YesIsForTheCardSeen
  <1> QED
    BY <1>1, PromptInitInv, PromptNextInv, PTL DEF PromptSpec

-----------------------------------------------------------------------------
(* What holds the session awake, for any number of clients, generations,      *)
(* cookies and requests.                                                      *)

Holders == Configs \union {ScreenSaver}

InhibitTypes ==
  /\ counts \in [Holders -> Nat] /\ fd \in BOOLEAN
  /\ nextCookie \in 1..LastCookie /\ DOMAIN cookies \subseteq 1..LastCookie
  /\ holder \in Configs /\ toClear \in Configs \union {0}

HeldHasFd == Held(counts) => fd

FdIsHeld == refused = {} => (fd => Held(counts))

CookiesAreCounted == refused = {} => counts[ScreenSaver] >= Cardinality(DOMAIN cookies)

InhibitInv == InhibitTypes /\ HeldHasFd /\ FdIsHeld /\ CookiesAreCounted

LEMMA CookiesAreFinite ==
  ASSUME NEW S \in SUBSET (1..LastCookie)
  PROVE  IsFiniteSet(S) /\ Cardinality(S) \in Nat
<1>1. IsFiniteSet(1..LastCookie)
  BY InhibitAssumption, FS_Interval
<1> QED
  BY <1>1, FS_Subset, FS_CardinalityType

(* One more count, or none when login1 refuses the fd.                     *)
LEMMA InhibitCounts ==
  ASSUME InhibitTypes, HeldHasFd, NEW h \in Holders, NEW granted \in BOOLEAN, Inhibit(h, granted)
  PROVE  /\ counts' \in [Holders -> Nat] /\ fd' \in BOOLEAN /\ HeldHasFd'
         /\ (fd => Held(counts)) => (fd' => Held(counts'))
         /\ \A g \in Holders : g # h => counts'[g] = counts[g]
         /\ counts' # counts => counts'[h] = counts[h] + 1
<1>1. counts \in [Holders -> Nat] /\ fd \in BOOLEAN
  BY DEF InhibitTypes
<1>2. CASE Held(counts)
  <2>1. counts' = [counts EXCEPT ![h] = @ + 1] /\ fd' = fd
    BY <1>2 DEF Inhibit
  <2>2. counts'[h] > 0 /\ h \in DOMAIN counts'
    BY <1>1, <2>1
  <2>3. Held(counts')
    BY <2>2 DEF Held
  <2>4. HeldHasFd'
    BY <1>2, <2>1 DEF HeldHasFd
  <2>5. /\ counts' \in [Holders -> Nat] /\ counts'[h] = counts[h] + 1
        /\ \A g \in Holders : g # h => counts'[g] = counts[g]
    BY <1>1, <2>1
  <2> QED
    BY <1>1, <2>1, <2>3, <2>4, <2>5
<1>3. CASE ~Held(counts) /\ granted
  <2>1. counts' = [counts EXCEPT ![h] = 1] /\ fd' = TRUE
    BY <1>3 DEF Inhibit
  <2>2. counts[h] = 0
    BY <1>1, <1>3 DEF Held
  <2>3. counts'[h] > 0 /\ h \in DOMAIN counts'
    BY <1>1, <2>1
  <2>4. Held(counts')
    BY <2>3 DEF Held
  <2> QED
    BY <1>1, <2>1, <2>2, <2>4 DEF HeldHasFd
<1>4. CASE ~Held(counts) /\ ~granted
  <2>1. counts' = counts /\ fd' = fd
    BY <1>1, <1>4 DEF Inhibit
  <2> QED
    BY <1>1, <1>4, <2>1 DEF HeldHasFd
<1> QED
  BY <1>2, <1>3, <1>4

(* What is not held is not held with fewer counts.                         *)
LEMMA FewerHold ==
  ASSUME NEW c \in [Holders -> Nat], NEW d \in [Holders -> Nat],
         \A g \in Holders : d[g] <= c[g], Held(d)
  PROVE  Held(c)
<1>1. PICK g \in Holders : d[g] > 0
  BY DEF Held
<1>2. c[g] > 0
  BY <1>1
<1> QED
  BY <1>2 DEF Held

(* n releases of a count.                                                  *)
LEMMA MinusIsLess ==
  ASSUME NEW m \in Nat, NEW n \in Nat
  PROVE  Minus(m, n) \in Nat /\ Minus(m, n) <= m /\ Minus(m, n) >= m - n
  BY DEF Minus

(* The fd goes with the last count, whoever's it is.                       *)
LEMMA ReleaseCounts ==
  ASSUME InhibitTypes, HeldHasFd, NEW h \in Holders, NEW n \in Nat, Release(h, n)
  PROVE  /\ counts' \in [Holders -> Nat] /\ fd' \in BOOLEAN /\ HeldHasFd'
         /\ (fd => Held(counts)) => (fd' => Held(counts'))
         /\ \A g \in Holders : g # h => counts'[g] = counts[g]
<1>1. counts \in [Holders -> Nat] /\ counts[h] \in Nat
  BY DEF InhibitTypes
<1>2. counts' = [counts EXCEPT ![h] = Minus(counts[h], n)]
  BY DEF Release
<1>3. Minus(counts[h], n) \in Nat /\ Minus(counts[h], n) <= counts[h]
  BY <1>1, MinusIsLess
<1>4. /\ counts' \in [Holders -> Nat]
      /\ \A g \in Holders : g # h => counts'[g] = counts[g]
      /\ \A g \in Holders : counts'[g] <= counts[g]
  BY <1>1, <1>2, <1>3
<1>5. Held(counts') => Held(counts)
  BY <1>1, <1>4, FewerHold
<1>6. fd' = (fd /\ ~(Held(counts) /\ ~Held(counts')))
  BY DEF Release, Closes
<1> QED
  BY <1>4, <1>5, <1>6 DEF HeldHasFd

(* The ScreenSaver holds of some cookies end together.  As long as every   *)
(* cookie is counted, the last of these releases is the one that may bring *)
(* the count to zero.                                                      *)
LEMMA DropKeeps ==
  ASSUME InhibitInv, NEW gone \in SUBSET DOMAIN cookies, gone # {}, Drop(gone),
         UNCHANGED <<nextCookie, refused, holder, toClear>>
  PROVE  InhibitInv'
<1> DEFINE n == Cardinality(gone)
           beforeTheLast == [counts EXCEPT ![ScreenSaver] = Minus(@, n - 1)]
<1>1. /\ ScreenSaver \in Holders /\ DOMAIN cookies \in SUBSET (1..LastCookie)
      /\ counts \in [Holders -> Nat]
  BY DEF Holders, InhibitInv, InhibitTypes
<1>2. /\ Cardinality(gone) \in Nat /\ Cardinality(DOMAIN cookies) \in Nat
      /\ IsFiniteSet(DOMAIN cookies) /\ IsFiniteSet(gone)
  BY <1>1, CookiesAreFinite
<1>3. n - 1 \in Nat
  <2>1. Cardinality(gone) # 0
    BY <1>2, FS_EmptySet
  <2> QED
    BY <1>2, <2>1
<1>4. /\ counts' = [counts EXCEPT ![ScreenSaver] = Minus(@, n)]
      /\ fd' = (fd /\ ~(Held(beforeTheLast) /\ ~Held(counts')))
  BY DEF Drop, Closes
<1>5. DOMAIN cookies' = DOMAIN cookies \ gone
  BY DEF Drop, Restrict
<1>6. Cardinality(DOMAIN cookies') = Cardinality(DOMAIN cookies) - Cardinality(gone)
  <2>1. DOMAIN cookies \intersect gone = gone
    OBVIOUS
  <2> QED
    BY <1>2, <1>5, <2>1, FS_Difference
<1>7. Cardinality(gone) <= Cardinality(DOMAIN cookies)
  BY <1>2, FS_Subset
<1>8. /\ beforeTheLast[ScreenSaver] \in Nat
      /\ beforeTheLast[ScreenSaver] >= counts[ScreenSaver] - (n - 1)
      /\ beforeTheLast \in [Holders -> Nat]
  <2>1. /\ Minus(counts[ScreenSaver], n - 1) \in Nat
        /\ Minus(counts[ScreenSaver], n - 1) >= counts[ScreenSaver] - (n - 1)
    BY <1>1, <1>3, MinusIsLess
  <2> HIDE DEF n
  <2> QED
    BY <1>1, <2>1
<1> HIDE DEF beforeTheLast
<1>9. /\ counts' \in [Holders -> Nat]
      /\ counts'[ScreenSaver] \in Nat
      /\ counts'[ScreenSaver] >= counts[ScreenSaver] - n
      /\ Held(counts') => Held(counts)
  <2>1. /\ Minus(counts[ScreenSaver], n) \in Nat
        /\ Minus(counts[ScreenSaver], n) <= counts[ScreenSaver]
        /\ Minus(counts[ScreenSaver], n) >= counts[ScreenSaver] - n
    BY <1>1, <1>2, MinusIsLess
  <2> HIDE DEF n
  <2>2. /\ counts' \in [Holders -> Nat]
        /\ counts'[ScreenSaver] = Minus(counts[ScreenSaver], n)
        /\ \A g \in Holders : counts'[g] <= counts[g]
    BY <1>1, <1>4, <2>1
  <2>3. Held(counts') => Held(counts)
    BY <1>1, <2>2, FewerHold
  <2> QED
    BY <2>1, <2>2, <2>3
<1>10. HeldHasFd'
  BY <1>4, <1>9 DEF InhibitInv, HeldHasFd
<1>11. FdIsHeld'
  <2> SUFFICES ASSUME refused = {}, fd', ~Held(counts')
               PROVE  FALSE
    BY DEF FdIsHeld
  <2>1. counts[ScreenSaver] \in Nat /\ counts[ScreenSaver] >= Cardinality(DOMAIN cookies)
    BY <1>1 DEF InhibitInv, CookiesAreCounted
  <2>2. beforeTheLast[ScreenSaver] > 0
    BY <1>2, <1>7, <1>8, <2>1
  <2>3. Held(beforeTheLast)
    BY <1>1, <1>8, <2>2 DEF Held
  <2> QED
    BY <1>4, <2>3
<1>12. InhibitTypes'
  BY <1>1, <1>4, <1>5, <1>9 DEF InhibitInv, InhibitTypes
<1>13. CookiesAreCounted'
  BY <1>1, <1>2, <1>6, <1>9 DEF InhibitInv, CookiesAreCounted
<1> QED
  BY <1>10, <1>11, <1>12, <1>13 DEF InhibitInv

(* A config's refcount moves, and no ScreenSaver hold.                     *)
LEMMA ConfigCountKeeps ==
  ASSUME InhibitInv, NEW g \in Configs,
         \/ \E granted \in BOOLEAN : Inhibit(g, granted)
         \/ \E n \in Nat : Release(g, n),
         UNCHANGED <<cookies, nextCookie, refused>>,
         holder' \in Configs, toClear' \in Configs \union {0}
  PROVE  InhibitInv'
<1>1. g \in Holders /\ ScreenSaver \in Holders /\ g # ScreenSaver
  BY InhibitAssumption DEF Holders, Configs, ScreenSaver
<1>2. /\ counts' \in [Holders -> Nat] /\ fd' \in BOOLEAN /\ HeldHasFd'
      /\ (fd => Held(counts)) => (fd' => Held(counts'))
      /\ counts'[ScreenSaver] = counts[ScreenSaver]
  BY <1>1, InhibitCounts, ReleaseCounts DEF InhibitInv
<1>3. FdIsHeld'
  BY <1>2 DEF InhibitInv, FdIsHeld
<1> QED
  BY <1>2, <1>3 DEF InhibitInv, InhibitTypes, CookiesAreCounted

(* A ScreenSaver hold is counted unless login1 refused.                    *)
LEMMA ScreenSaverInhibitKeeps ==
  ASSUME InhibitInv, NEW p, NEW granted \in BOOLEAN, ScreenSaverInhibit(p, granted)
  PROVE  InhibitInv'
<1>1. ScreenSaver \in Holders /\ DOMAIN cookies \in SUBSET (1..LastCookie)
      /\ nextCookie \in 1..LastCookie
  BY DEF Holders, InhibitInv, InhibitTypes
<1>2. /\ counts' \in [Holders -> Nat] /\ fd' \in BOOLEAN /\ HeldHasFd'
      /\ (fd => Held(counts)) => (fd' => Held(counts'))
      /\ counts' # counts => counts'[ScreenSaver] = counts[ScreenSaver] + 1
  BY <1>1, InhibitCounts DEF ScreenSaverInhibit, InhibitInv
<1>3. DOMAIN cookies' = DOMAIN cookies \union {nextCookie}
  BY DEF ScreenSaverInhibit
<1>4. InhibitTypes'
  <2>1. nextCookie' \in 1..LastCookie
    BY <1>1, InhibitAssumption DEF ScreenSaverInhibit
  <2> QED
    BY <1>1, <1>2, <1>3, <2>1 DEF ScreenSaverInhibit, InhibitInv, InhibitTypes
<1>5. CookiesAreCounted'
  <2> SUFFICES ASSUME refused' = {}
               PROVE  counts'[ScreenSaver] >= Cardinality(DOMAIN cookies')
    BY DEF CookiesAreCounted
  <2>1. refused = {} /\ counts' # counts
    BY DEF ScreenSaverInhibit
  <2>2. counts[ScreenSaver] \in Nat /\ counts[ScreenSaver] >= Cardinality(DOMAIN cookies)
    BY <1>1, <2>1 DEF InhibitInv, InhibitTypes, CookiesAreCounted
  <2>3. /\ IsFiniteSet(DOMAIN cookies) /\ Cardinality(DOMAIN cookies) \in Nat
        /\ Cardinality(DOMAIN cookies') =
             IF nextCookie \in DOMAIN cookies THEN Cardinality(DOMAIN cookies)
                                              ELSE Cardinality(DOMAIN cookies) + 1
    BY <1>1, <1>3, CookiesAreFinite, FS_AddElement
  <2> QED
    BY <1>2, <2>1, <2>2, <2>3
<1>6. FdIsHeld'
  <2>1. refused' = {} => refused = {}
    BY DEF ScreenSaverInhibit
  <2> QED
    BY <1>2, <2>1 DEF InhibitInv, FdIsHeld
<1> QED
  BY <1>2, <1>4, <1>5, <1>6 DEF InhibitInv

(* The logind fd is held while anybody's count stands, and, unless login1  *)
(* refused a ScreenSaver hold, only then and with every such hold counted: *)
(* no order of holds, releases, reaps, departures and wraps of the cookies *)
(* drops it under another holder (inhibit.rs: apply_inhibit,               *)
(* apply_release_inhibit, drop_screensaver_peer,                           *)
(* cleanup_generation_inhibit).                                            *)
THEOREM FdFollows == InhibitSpec => []FdFollowsHolds
<1>1. InhibitInit => InhibitInv
  <2> SUFFICES ASSUME InhibitInit PROVE InhibitInv
    OBVIOUS
  <2>1. InhibitTypes
    <3>1. counts \in [Holders -> Nat] /\ fd = FALSE
      BY DEF InhibitInit, Holders
    <3>2. DOMAIN cookies = {}
      BY DEF InhibitInit
    <3>3. nextCookie \in 1..LastCookie /\ holder \in Configs /\ toClear = 0
      BY InhibitAssumption DEF InhibitInit, Configs
    <3> QED
      BY <3>1, <3>2, <3>3 DEF InhibitTypes
  <2>2. HeldHasFd /\ FdIsHeld
    <3>1. \A h \in DOMAIN counts : counts[h] = 0
      BY DEF InhibitInit
    <3>2. ~Held(counts) /\ fd = FALSE
      BY <3>1 DEF Held, InhibitInit
    <3> QED
      BY <3>2 DEF HeldHasFd, FdIsHeld
  <2>3. Cardinality(DOMAIN cookies) = 0 /\ counts[ScreenSaver] = 0
    <3>1. DOMAIN cookies = {}
      BY DEF InhibitInit
    <3> QED
      BY <3>1, FS_EmptySet DEF InhibitInit
  <2> QED
    BY <2>1, <2>2, <2>3 DEF InhibitInv, CookiesAreCounted
<1>2. ASSUME InhibitInv, [InhibitNext]_inhibitVars
      PROVE  InhibitInv'
  <2>1. ASSUME UNCHANGED <<counts, cookies, nextCookie, fd, refused>>,
               holder' \in Configs, toClear' \in Configs \union {0}
        PROVE  InhibitInv'
    BY <1>2, <2>1 DEF InhibitInv, InhibitTypes, HeldHasFd, FdIsHeld, CookiesAreCounted
  <2>2. holder \in Configs /\ toClear \in Configs \union {0}
    BY <1>2 DEF InhibitInv, InhibitTypes
  <2>3. CASE \/ \E kind \in {"inhibit", "release"} : ConfigAsks(kind)
             \/ \E p \in Peers : PeerCalls(p) \/ PeerLeaves(p)
             \/ UNCHANGED inhibitVars
    BY <2>1, <2>2, <2>3 DEF ConfigAsks, PeerCalls, PeerLeaves, stateVars, inhibitVars
  <2>4. CASE RendererReplaced
    <3>1. holder' \in Configs /\ toClear' \in Configs \union {0}
      BY <2>2, <2>4, InhibitAssumption DEF RendererReplaced, Configs
    <3> QED
      BY <2>1, <2>4, <3>1 DEF RendererReplaced, stateVars
  <2>5. ASSUME NEW g \in Configs, NEW granted \in BOOLEAN, ConfigInhibits(g, granted)
        PROVE  InhibitInv'
    BY <1>2, <2>2, <2>5, ConfigCountKeeps DEF ConfigInhibits
  <2>6. ASSUME NEW g \in Configs, ConfigReleases(g)
        PROVE  InhibitInv'
    <3>1. \E n \in Nat : Release(g, n)
      BY <2>6 DEF ConfigReleases
    <3> QED
      BY <1>2, <2>2, <2>6, <3>1, ConfigCountKeeps DEF ConfigReleases
  <2>7. CASE ReapHolds
    <3>1. toClear \in Configs /\ Release(toClear, counts[toClear])
      BY <2>2, <2>7 DEF ReapHolds
    <3>2. counts[toClear] \in Nat
      BY <1>2, <3>1 DEF InhibitInv, InhibitTypes, Holders
    <3> QED
      BY <1>2, <2>2, <2>7, <3>1, <3>2, ConfigCountKeeps DEF ReapHolds
  <2>8. ASSUME NEW p \in Peers, PeerLeft(p)
        PROVE  InhibitInv'
    <3> DEFINE gone == {c \in DOMAIN cookies : cookies[c] = p}
    <3>1. CASE gone = {}
      BY <2>1, <2>2, <2>8, <3>1 DEF PeerLeft
    <3>2. CASE gone # {}
      BY <1>2, <2>8, <3>2, DropKeeps DEF PeerLeft
    <3> QED
      BY <3>1, <3>2
  <2>9. ASSUME NEW p \in Peers, NEW granted \in BOOLEAN, ScreenSaverInhibit(p, granted)
        PROVE  InhibitInv'
    BY <1>2, <2>9, ScreenSaverInhibitKeeps
  <2>10. ASSUME NEW cookie \in 1..LastCookie, ScreenSaverRelease(cookie)
         PROVE  InhibitInv'
    <3>1. {cookie} \in SUBSET DOMAIN cookies /\ Drop({cookie})
      BY <2>10 DEF ScreenSaverRelease
    <3> QED
      BY <1>2, <2>10, <3>1, DropKeeps DEF ScreenSaverRelease
  <2> QED
    BY <1>2, <2>3, <2>4, <2>5, <2>6, <2>7, <2>8, <2>9, <2>10 DEF InhibitNext
<1>3. InhibitInv => FdFollowsHolds
  BY DEF InhibitInv, HeldHasFd, FdIsHeld, CookiesAreCounted, FdFollowsHolds
<1> QED
  BY <1>1, <1>2, <1>3, PTL DEF InhibitSpec

-----------------------------------------------------------------------------
(* Idle thresholds, for any number of thresholds, generations and requests.   *)

(* The equation of the function that Without is the last value of.         *)
Filters(f, s, gone) ==
  f = [i \in 0..Len(s) |->
         IF i = 0 THEN <<>>
         ELSE IF s[i] \in gone THEN f[i - 1] ELSE Append(f[i - 1], s[i])]

LEMMA WithoutRec ==
  ASSUME NEW T, NEW s \in Seq(T), NEW gone
  PROVE  \E f \in [0..Len(s) -> Seq(T)] :
           Filters(f, s, gone) /\ Without(s, gone) = f[Len(s)]
<1> DEFINE n == Len(s)
           Is(f) == Filters(f, s, gone)
           step == [i \in Nat |-> [q \in Seq(T) |->
                     IF i \in 1..n /\ s[i] \notin gone THEN Append(q, s[i]) ELSE q]]
<1>0. n \in Nat /\ \A i \in 1..n : s[i] \in T
  OBVIOUS
<1>1. step \in [Nat -> [Seq(T) -> Seq(T)]] /\ <<>> \in Seq(T)
  BY <1>0
<1>2. \A i \in 1..n, q \in Seq(T) : step[i][q] = IF s[i] \in gone THEN q ELSE Append(q, s[i])
  BY <1>0
<1> HIDE DEF step, n
<1>3. PICK f \in [0..n -> Seq(T)] : f[0] = <<>> /\ \A i \in 1..n : f[i] = step[i][f[i - 1]]
  <2> DEFINE V == Seq(T)
             base == <<>>
  <2>1. base \in V /\ step \in [Nat -> [V -> V]] /\ n \in Nat
    BY <1>0, <1>1
  <2> HIDE DEF V, base
  <2>2. Computes(V, base, step, n)
    BY <2>1, Recursion
  <2> QED
    BY <2>2 DEF V, base, Computes
<1>4. Is(f)
  <2>1. ASSUME NEW i \in 0..n
        PROVE  f[i] = IF i = 0 THEN <<>> ELSE IF s[i] \in gone THEN f[i - 1] ELSE Append(f[i - 1], s[i])
    <3>1. i = 0 \/ (i \in 1..n /\ i - 1 \in 0..n /\ i # 0)
      BY <1>0
    <3>2. ASSUME i \in 1..n, i - 1 \in 0..n
          PROVE  f[i] = IF s[i] \in gone THEN f[i - 1] ELSE Append(f[i - 1], s[i])
      <4>1. f[i - 1] \in Seq(T) /\ f[i] = step[i][f[i - 1]]
        BY <1>3, <3>2
      <4> QED
        BY <1>2, <3>2, <4>1
    <3> QED
      BY <1>3, <3>1, <3>2
  <2> QED
    BY <1>3, <2>1 DEF n, Filters
<1>5. Without(s, gone) = (CHOOSE g : Is(g))[n]
  BY DEF Without, n, Filters
<1>6. Is(CHOOSE g : Is(g))
  BY <1>4
<1> DEFINE h == CHOOSE g : Is(g)
<1> QED
  <2>1. h = [i \in 0..n |-> IF i = 0 THEN <<>> ELSE IF s[i] \in gone THEN h[i - 1] ELSE Append(h[i - 1], s[i])]
    BY <1>6 DEF n, Filters
  <2> HIDE DEF h
  <2> DEFINE S == {i \in Nat : i <= n => h[i] \in Seq(T)}
  <2>2. 0 \in S
    BY <1>0, <2>1
  <2>3. ASSUME NEW i \in Nat, i \in S PROVE i + 1 \in S
    <3>1. CASE i + 1 <= n
      <4>1. i + 1 \in 0..n /\ i + 1 # 0 /\ i + 1 \in 1..n /\ (i + 1) - 1 = i /\ i <= n
        BY <1>0, <3>1
      <4>2. h[i + 1] = IF s[i + 1] \in gone THEN h[i] ELSE Append(h[i], s[i + 1])
        BY <2>1, <4>1
      <4>3. s[i + 1] \in T /\ h[i] \in Seq(T)
        BY <1>0, <2>3, <4>1
      <4>4. Append(h[i], s[i + 1]) \in Seq(T)
        BY <4>3
      <4>5. h[i + 1] \in Seq(T)
        BY <4>2, <4>3, <4>4
      <4> QED
        BY <4>1, <4>5
    <3> QED
      BY <3>1
  <2> HIDE DEF S
  <2>4. Nat \subseteq S
    BY <2>2, <2>3, SetInduction
  <2>5. \A i \in 0..n : h[i] \in Seq(T)
    BY <1>0, <2>4 DEF S
  <2>6. h \in [0..n -> Seq(T)]
    <3>1. h = [i \in 0..n |-> h[i]]
      BY <2>1, Zenon
    <3> QED
      BY <2>5, <3>1
  <2> QED
    BY <1>5, <1>6, <2>6 DEF h, n

(* What stays is a sequence of the same kind and loses only what goes.     *)
LEMMA ToSetWithout ==
  ASSUME NEW T, NEW s \in Seq(T), NEW gone
  PROVE  /\ Without(s, gone) \in Seq(T)
         /\ ToSet(Without(s, gone)) = ToSet(s) \ gone
<1> DEFINE n == Len(s)
           UpTo_(i) == {s[j] : j \in 1..i}
<1>0. n \in Nat /\ \A i \in 1..n : s[i] \in T
  OBVIOUS
<1>1. PICK f \in [0..n -> Seq(T)] : Filters(f, s, gone) /\ Without(s, gone) = f[n]
  BY WithoutRec
<1> DEFINE S == {i \in Nat : i <= n => ToSet(f[i]) = UpTo_(i) \ gone}
<1>2. 0 \in S
  <2>1. f[0] = <<>>
    BY <1>0, <1>1 DEF Filters
  <2>2. ToSet(<<>>) = {} /\ UpTo_(0) = {}
    BY DEF ToSet
  <2> QED
    BY <2>1, <2>2
<1>3. ASSUME NEW i \in Nat, i \in S
      PROVE  i + 1 \in S
  <2> SUFFICES ASSUME i + 1 <= n
               PROVE  ToSet(f[i + 1]) = UpTo_(i + 1) \ gone
    OBVIOUS
  <2>1. i + 1 \in 0..n /\ i \in 0..n /\ i + 1 # 0 /\ (i + 1) - 1 = i /\ i + 1 \in 1..n
    BY <1>0
  <2>2. f[i + 1] = IF s[i + 1] \in gone THEN f[i] ELSE Append(f[i], s[i + 1])
    BY <1>1, <2>1 DEF Filters
  <2>3. UpTo_(i + 1) = UpTo_(i) \union {s[i + 1]}
    <3>1. \A j \in Nat : j \in 1..(i + 1) <=> j \in 1..i \/ j = i + 1
      OBVIOUS
    <3> QED
      BY <3>1
  <2>4. ToSet(f[i]) = UpTo_(i) \ gone
    BY <1>3, <2>1
  <2> HIDE DEF UpTo_
  <2>5. f[i] \in Seq(T) /\ s[i + 1] \in T
    BY <1>0, <1>1, <2>1
  <2>6. ToSet(Append(f[i], s[i + 1])) = ToSet(f[i]) \union {s[i + 1]}
    <3> DEFINE q == f[i]
               e == s[i + 1]
    <3>1. q \in Seq(T) /\ e \in T
      BY <2>5
    <3> HIDE DEF q, e
    <3>2. /\ DOMAIN Append(q, e) = 1..(Len(q) + 1) /\ DOMAIN q = 1..Len(q) /\ Len(q) \in Nat
          /\ \A j \in 1..Len(q) : Append(q, e)[j] = q[j]
          /\ Append(q, e)[Len(q) + 1] = e
      BY <3>1
    <3>3. \A j \in Nat : j \in 1..(Len(q) + 1) <=> j \in 1..Len(q) \/ j = Len(q) + 1
      BY <3>2
    <3>4. ToSet(Append(q, e)) = ToSet(q) \union {e}
      BY <3>2, <3>3 DEF ToSet
    <3> QED
      BY <3>4 DEF q, e
  <2> QED
    BY <2>2, <2>3, <2>4, <2>6
<1> HIDE DEF S
<1>4. n \in S
  BY <1>0, <1>2, <1>3, SetInduction
<1>5. ToSet(s) = UpTo_(n)
  <2>1. DOMAIN s = 1..n
    OBVIOUS
  <2> QED
    BY <2>1 DEF ToSet
<1>6. f[n] \in Seq(T)
  BY <1>0, <1>1
<1> QED
  BY <1>0, <1>1, <1>4, <1>5, <1>6 DEF S

LEMMA ToSetOf ==
  ASSUME NEW T, NEW s \in Seq(T), NEW e \in T
  PROVE  /\ ToSet(Append(s, e)) = ToSet(s) \union {e}
         /\ s # <<>> => ToSet(s) = {Head(s)} \union ToSet(Tail(s))
<1>1. /\ DOMAIN Append(s, e) = 1..(Len(s) + 1) /\ DOMAIN s = 1..Len(s) /\ Len(s) \in Nat
      /\ \A j \in 1..Len(s) : Append(s, e)[j] = s[j]
      /\ Append(s, e)[Len(s) + 1] = e
  OBVIOUS
<1>2. \A j \in Nat : j \in 1..(Len(s) + 1) <=> j \in 1..Len(s) \/ j = Len(s) + 1
  BY <1>1
<1>3. ToSet(Append(s, e)) = ToSet(s) \union {e}
  BY <1>1, <1>2 DEF ToSet
<1>4. ASSUME s # <<>>
      PROVE  ToSet(s) = {Head(s)} \union ToSet(Tail(s))
  <2>1. /\ Len(s) > 0 /\ DOMAIN Tail(s) = 1..(Len(s) - 1) /\ Head(s) = s[1]
        /\ \A j \in 1..(Len(s) - 1) : Tail(s)[j] = s[j + 1]
    BY <1>4
  <2>2. ASSUME NEW j \in 1..Len(s)
        PROVE  s[j] = Head(s) \/ \E i \in 1..(Len(s) - 1) : s[j] = Tail(s)[i]
    <3>1. CASE j = 1
      BY <2>1, <3>1
    <3>2. CASE j # 1
      <4>1. j - 1 \in 1..(Len(s) - 1) /\ (j - 1) + 1 = j
        BY <1>1, <3>2
      <4> QED
        BY <2>1, <4>1
    <3> QED
      BY <3>1, <3>2
  <2>3. \A i \in 1..(Len(s) - 1) : i + 1 \in 1..Len(s)
    BY <1>1
  <2>4. 1 \in 1..Len(s)
    BY <1>1, <2>1
  <2> DEFINE t == Tail(s)
             h == Head(s)
             n == Len(s)
  <2>5. /\ DOMAIN s = 1..n /\ DOMAIN t = 1..(n - 1) /\ 1 \in 1..n /\ h = s[1]
        /\ \A i \in 1..(n - 1) : t[i] = s[i + 1] /\ i + 1 \in 1..n
        /\ \A j \in 1..n : s[j] = h \/ \E i \in 1..(n - 1) : s[j] = t[i]
    BY <1>1, <2>1, <2>2, <2>3, <2>4
  <2> HIDE DEF t, h, n
  <2>6. ToSet(s) = {h} \union ToSet(t)
    <3>1. ASSUME NEW x \in ToSet(s)
          PROVE  x \in {h} \union ToSet(t)
      <4>1. PICK j \in 1..n : x = s[j]
        BY <2>5, <3>1 DEF ToSet
      <4> QED
        BY <2>5, <4>1 DEF ToSet
    <3>2. ASSUME NEW x \in ToSet(t)
          PROVE  x \in ToSet(s)
      <4>1. PICK i \in 1..(n - 1) : x = t[i]
        BY <2>5, <3>2 DEF ToSet
      <4>2. x = s[i + 1] /\ i + 1 \in DOMAIN s
        BY <2>5, <4>1
      <4> QED
        BY <4>2 DEF ToSet
    <3>3. h \in ToSet(s)
      BY <2>5 DEF ToSet
    <3> QED
      BY <3>1, <3>2, <3>3
  <2> QED
    BY <2>6 DEF t, h
<1> QED
  BY <1>3, <1>4

(* What a config wants is of the tree on the glass.  An entry of the       *)
(* fan-out is behind a listener, or one is about to be created for it, and *)
(* nothing is being replayed before the queue was taken.                   *)
Keys == Nat \X Secs

ThresholdTypes ==
  /\ pending \in Seq(Keys) /\ replaying \in Seq(Keys)
  /\ tree \in Nat /\ wanted \subseteq {tree} \X Secs
  /\ live \in BOOLEAN /\ drained \in BOOLEAN

TakenOnce == /\ drained => live
             /\ ~drained => replaying = <<>>

EntriesAreHeard == DOMAIN fanout \subseteq listeners \union creating

Heard(k) ==
  \/ k \in ToSet(pending) /\ ~drained
  \/ k \in ToSet(replaying)
  \/ k[2] \in DOMAIN fanout /\ k[1] \in fanout[k[2]]

ThresholdInv ==
  ThresholdTypes /\ TakenOnce /\ EntriesAreHeard /\ \A k \in wanted : Heard(k)

(* The invariant speaks of these only.                                     *)
heardVars == <<pending, replaying, drained, live, fanout, listeners, creating, wanted, tree>>

(* An entry is joined by its listener at once, or when a replay gets to it.*)
LEMMA EntryOf ==
  ASSUME NEW tr, NEW sec
  PROVE  /\ DOMAIN Entry(tr, sec) = DOMAIN fanout \union {sec}
         /\ tr \in Entry(tr, sec)[sec]
         /\ \A s \in DOMAIN fanout : fanout[s] \subseteq Entry(tr, sec)[s]
BY DEF Entry

(* A listener goes with the last entry of its threshold, and no other.     *)
LEMMA TakeUnusedKeeps ==
  ASSUME EntriesAreHeard, NEW dropped, TakeUnused(dropped), UNCHANGED creating
  PROVE  /\ EntriesAreHeard'
         /\ \A k \in Nat \X Secs : k \notin dropped /\ k[2] \in DOMAIN fanout /\ k[1] \in fanout[k[2]]
              => k[2] \in DOMAIN fanout' /\ k[1] \in fanout'[k[2]]
<1> DEFINE used == {s \in DOMAIN fanout : \E t \in fanout[s] : <<t, s>> \notin dropped}
<1>1. /\ fanout' = [s \in used |-> {t \in fanout[s] : <<t, s>> \notin dropped}]
      /\ listeners' = listeners \ (DOMAIN fanout \ used)
  BY DEF TakeUnused
<1>2. EntriesAreHeard'
  <2>1. DOMAIN fanout' = used
    BY <1>1
  <2> QED
    BY <1>1, <2>1 DEF EntriesAreHeard
<1>3. ASSUME NEW k \in Nat \X Secs, k \notin dropped, k[2] \in DOMAIN fanout, k[1] \in fanout[k[2]]
      PROVE  k[2] \in DOMAIN fanout' /\ k[1] \in fanout'[k[2]]
  <2>1. k = <<k[1], k[2]>>
    OBVIOUS
  <2>2. k[2] \in used
    BY <1>3, <2>1
  <2> QED
    BY <1>1, <1>3, <2>1, <2>2
<1> QED
  BY <1>2, <1>3

LEMMA RegisterKeeps ==
  ASSUME ThresholdInv, NEW sec \in Secs, RegisterThreshold(sec)
  PROVE  ThresholdInv'
<1> USE DEF setupVars, Request, ThresholdInv
<1>1. UNCHANGED <<replaying, drained, live, creating, tree>>
      /\ wanted' = wanted \union {<<tree, sec>>}
  BY DEF RegisterThreshold
<1>2. <<tree, sec>> \in Keys /\ pending \in Seq(Keys)
  BY DEF ThresholdTypes, Keys
<1>3. CASE live
  <2>1. /\ fanout' = Entry(tree, sec) /\ pending' = pending
        /\ listeners' = IF sec \in DOMAIN fanout THEN listeners ELSE listeners \union {sec}
    BY <1>3 DEF RegisterThreshold
  <2>2. /\ DOMAIN fanout' = DOMAIN fanout \union {sec}
        /\ tree \in fanout'[sec]
        /\ \A s \in DOMAIN fanout : fanout[s] \subseteq fanout'[s]
    BY <2>1, EntryOf
  <2>3. EntriesAreHeard'
    BY <1>1, <2>1, <2>2 DEF EntriesAreHeard
  <2>4. \A k \in wanted' : Heard(k)'
    BY <1>1, <2>1, <2>2 DEF Heard
  <2>5. ThresholdTypes' /\ TakenOnce'
    BY <1>1, <2>1 DEF ThresholdTypes, TakenOnce
  <2> QED
    BY <2>3, <2>4, <2>5
<1>4. CASE ~live
  <2>1. pending' = Append(pending, <<tree, sec>>) /\ UNCHANGED <<fanout, listeners>>
    BY <1>4 DEF RegisterThreshold
  <2>2. ToSet(pending') = ToSet(pending) \union {<<tree, sec>>} /\ pending' \in Seq(Keys)
    BY <1>2, <2>1, ToSetOf
  <2>3. ~drained'
    BY <1>1, <1>4 DEF TakenOnce
  <2>4. \A k \in wanted' : Heard(k)'
    BY <1>1, <2>1, <2>2, <2>3 DEF Heard
  <2> QED
    BY <1>1, <2>1, <2>2, <2>4 DEF ThresholdTypes, TakenOnce, EntriesAreHeard
<1> QED
  BY <1>3, <1>4

LEMMA CancelKeeps ==
  ASSUME ThresholdInv, NEW sec \in Secs, CancelThreshold(sec)
  PROVE  ThresholdInv'
<1> USE DEF setupVars, Request, ThresholdInv
<1>1. UNCHANGED <<replaying, drained, live, creating, tree>>
      /\ wanted' = wanted \ {<<tree, sec>>}
  BY DEF CancelThreshold
<1>2. pending' \in Seq(Keys) /\ ToSet(pending') = ToSet(pending) \ {<<tree, sec>>}
  BY ToSetWithout DEF CancelThreshold, Unqueue, ThresholdTypes
<1>3. ThresholdTypes' /\ TakenOnce'
  BY <1>1, <1>2 DEF ThresholdTypes, TakenOnce
<1>4. /\ EntriesAreHeard'
      /\ \A k \in wanted' : k[2] \in DOMAIN fanout /\ k[1] \in fanout[k[2]]
                              => k[2] \in DOMAIN fanout' /\ k[1] \in fanout'[k[2]]
  <2>1. CASE live
    <3>1. TakeUnused({<<tree, sec>>})
      BY <2>1 DEF CancelThreshold
    <3>2. wanted' \subseteq Nat \X Secs /\ \A k \in wanted' : k \notin {<<tree, sec>>}
      BY <1>1 DEF ThresholdTypes
    <3>3. EntriesAreHeard /\ UNCHANGED creating
      BY <1>1
    <3> HIDE DEF ThresholdInv
    <3> QED
      BY <3>1, <3>2, <3>3, TakeUnusedKeeps
  <2>2. CASE ~live
    BY <1>1, <2>2 DEF CancelThreshold, EntriesAreHeard
  <2> QED
    BY <2>1, <2>2
<1>5. \A k \in wanted' : Heard(k)'
  BY <1>1, <1>2, <1>4 DEF Heard
<1> QED
  BY <1>3, <1>4, <1>5

(* With the tree goes all it wanted.                                       *)
LEMMA ResetKeeps ==
  ASSUME ThresholdInv, ResetThresholds \/ RendererReplacedHere
  PROVE  ThresholdInv'
<1> USE DEF setupVars, Request, ThresholdInv
<1>1. UNCHANGED <<replaying, drained, live, creating>> /\ wanted' = {} /\ tree' \in Nat
  BY DEF ResetThresholds, RendererReplacedHere, ThresholdTypes
<1>2. pending' = Without(pending, {tree} \X Secs)
  BY DEF ResetThresholds, RendererReplacedHere, Unqueue
<1>3. pending' \in Seq(Keys)
  BY <1>2, ToSetWithout DEF ThresholdTypes
<1>4. ThresholdTypes' /\ TakenOnce' /\ \A k \in wanted' : Heard(k)'
  BY <1>1, <1>3 DEF ThresholdTypes, TakenOnce
<1>5. EntriesAreHeard'
  <2>1. CASE live /\ RendererReplacedHere
    <3>1. TakeUnused({tree} \X Secs) /\ EntriesAreHeard /\ UNCHANGED creating
      BY <1>1, <2>1 DEF RendererReplacedHere
    <3> HIDE DEF ThresholdInv
    <3> QED
      BY <3>1, TakeUnusedKeeps
  <2>2. CASE ~live /\ RendererReplacedHere
    BY <1>1, <2>2 DEF RendererReplacedHere, EntriesAreHeard
  <2>3. CASE ResetThresholds
    <3>1. DOMAIN fanout' = DOMAIN fanout /\ listeners' = listeners
      BY <2>3 DEF ResetThresholds
    <3> QED
      BY <1>1, <3>1 DEF EntriesAreHeard
  <2> QED
    BY <2>1, <2>2, <2>3
<1> QED
  BY <1>4, <1>5

LEMMA SetupKeeps ==
  ASSUME ThresholdInv, GoesLive \/ Drain \/ ReplayEntry \/ ReplayListener
  PROVE  ThresholdInv'
<1> USE DEF treeVars, ThresholdInv
<1>1. CASE GoesLive
  BY <1>1 DEF GoesLive, ThresholdTypes, TakenOnce, EntriesAreHeard, Heard
<1>2. CASE Drain
  <2>1. /\ UNCHANGED <<live, creating, fanout, listeners, wanted, tree>>
        /\ live /\ ~drained /\ drained' = TRUE
        /\ replaying' = pending /\ pending' = <<>>
    BY <1>2 DEF Drain, MayDrain
  <2>2. replaying = <<>> /\ ToSet(<<>>) = {}
    BY <2>1 DEF TakenOnce, ToSet
  <2>3. \A k \in wanted' : Heard(k)'
    BY <2>1, <2>2 DEF Heard
  <2> QED
    BY <2>1, <2>3 DEF ThresholdTypes, TakenOnce, EntriesAreHeard
<1>3. CASE ReplayEntry
  <2> DEFINE key == Head(replaying)
  <2>1. /\ UNCHANGED <<live, drained, pending, listeners, wanted, tree>>
        /\ live /\ replaying # <<>> /\ creating = {} /\ replaying' = Tail(replaying)
        /\ fanout' = Entry(key[1], key[2])
        /\ creating' = IF key[2] \in DOMAIN fanout THEN {} ELSE {key[2]}
    BY <1>3 DEF ReplayEntry
  <2>2. replaying \in Seq(Keys) /\ key \in Keys /\ replaying' \in Seq(Keys) /\ drained
    <3>1. replaying \in Seq(Keys) /\ drained
      BY <2>1 DEF ThresholdTypes, TakenOnce
    <3> QED
      BY <2>1, <3>1
  <2>3. ToSet(replaying) = {key} \union ToSet(replaying')
    <3> HIDE DEF ThresholdInv
    <3> QED
      BY <2>1, <2>2, ToSetOf
  <2>4. /\ DOMAIN fanout' = DOMAIN fanout \union {key[2]}
        /\ key[1] \in fanout'[key[2]]
        /\ \A s \in DOMAIN fanout : fanout[s] \subseteq fanout'[s]
    BY <2>1, EntryOf
  <2> HIDE DEF key
  <2>5. EntriesAreHeard'
    BY <2>1, <2>4 DEF EntriesAreHeard
  <2>6. \A k \in wanted' : Heard(k)'
    BY <2>1, <2>3, <2>4 DEF Heard
  <2>7. TakenOnce' /\ ThresholdTypes'
    BY <2>1, <2>2 DEF TakenOnce, ThresholdTypes
  <2> QED
    BY <2>5, <2>6, <2>7
<1>4. CASE ReplayListener
  BY <1>4 DEF ReplayListener, ThresholdTypes, TakenOnce, EntriesAreHeard, Heard
<1> QED
  BY <1>1, <1>2, <1>3, <1>4

(* The queue is drained once, by the notify thread, an entry of the fan-out *)
(* has its listener or gets one, and what the tree wants is queued, being  *)
(* replayed or sent to it (controller.rs: register_threshold,              *)
(* replay_pending_registrations, cancel_threshold).                        *)
LEMMA ThresholdsInvariant == ThresholdSpec => []ThresholdInv
<1>1. ASSUME ThresholdInit
      PROVE  ThresholdInv
  <2>1. DOMAIN fanout = {} /\ <<>> \in Seq(Keys)
    BY <1>1 DEF ThresholdInit
  <2>2. ThresholdTypes
    BY <1>1, <2>1 DEF ThresholdInit, ThresholdTypes
  <2>3. TakenOnce /\ EntriesAreHeard /\ wanted = {}
    BY <1>1, <2>1 DEF ThresholdInit, TakenOnce, EntriesAreHeard
  <2> QED
    BY <2>2, <2>3 DEF ThresholdInv
<1>2. ASSUME ThresholdInv, [ThresholdNext]_thresholdVars
      PROVE  ThresholdInv'
  <2>1. ASSUME UNCHANGED heardVars
        PROVE  ThresholdInv'
    BY <1>2, <2>1 DEF heardVars, ThresholdInv, ThresholdTypes, TakenOnce, EntriesAreHeard, Heard
  <2>2. CASE \E sec \in Secs : RegisterThreshold(sec) \/ CancelThreshold(sec)
    BY <1>2, <2>2, RegisterKeeps, CancelKeeps
  <2>3. CASE \E sec \in Secs : CompositorIdles(sec)
    BY <2>1, <2>3 DEF CompositorIdles, heardVars, setupVars, treeVars
  <2>4. CASE ResetThresholds \/ RendererReplacedHere
    BY <1>2, <2>4, ResetKeeps
  <2>5. CASE GoesLive \/ Drain \/ ReplayEntry \/ ReplayListener
    BY <1>2, <2>5, SetupKeeps
  <2>6. CASE CompositorResumes \/ ReadRaw \/ SendEvent \/ SetBlocked
    BY <2>1, <2>6 DEF CompositorResumes, ReadRaw, SendEvent, SetBlocked, heardVars, setupVars,
       treeVars
  <2>7. CASE \E tr \in Trees : PassGate(tr)
    BY <2>1, <2>7 DEF PassGate, heardVars, setupVars, treeVars
  <2>8. CASE UNCHANGED thresholdVars
    BY <2>1, <2>8 DEF thresholdVars, heardVars
  <2> QED
    BY <1>2, <2>2, <2>3, <2>4, <2>5, <2>6, <2>7, <2>8 DEF ThresholdNext
<1> QED
  BY <1>1, <1>2, PTL DEF ThresholdSpec

(* What the tree on the glass wants is queued, being replayed, or sent to  *)
(* it by a listener, whichever thread got to it first (controller.rs:      *)
(* register_threshold, replay_pending_registrations, cancel_threshold).    *)
THEOREM WantedIsListenedFor == ThresholdSpec => []WantedIsHeard
<1>1. ThresholdInv => WantedIsHeard
  BY DEF ThresholdInv, EntriesAreHeard, Heard, WantedIsHeard
<1> QED
  BY <1>1, ThresholdsInvariant, PTL

-----------------------------------------------------------------------------
(* What the tree on the glass was told, along the way of an event: from     *)
(* the seat through the queue, the forwarder's fan-out and its hand to the  *)
(* gate's record and to the tree.                                           *)
Events    == [sec : Secs, idle : BOOLEAN]
Forwarded == [sec : Secs \union {0}, idle : BOOLEAN, to : SUBSET Nat]

SeatTypes ==
  /\ seatIdle \subseteq Secs /\ IsFiniteSet(seatIdle)
  /\ raw \in Seq(Events)
  /\ fan \in Forwarded /\ hand \in Forwarded /\ blocked \in BOOLEAN
  /\ \A s \in DOMAIN fanout : fanout[s] \subseteq Nat

Sent(t, s)     == s \in DOMAIN fanout /\ t \in fanout[s]
OnItsWay(t, s) == fan.sec = s /\ t \in fan.to
InHand(t, s)   == hand.sec = s /\ t \in hand.to

(* The i-th is the last of the events of a queue that is about s.          *)
LastOf(q, s, i) ==
  /\ i \in 1..Len(q) /\ q[i].sec = s
  /\ \A j \in 1..Len(q) : j > i => q[j].sec # s

Mentions(q, s) == \E i \in 1..Len(q) : q[i].sec = s

Unread(s)    == Mentions(raw, s)
Announced(s) == \E i \in 1..Len(raw) : LastOf(raw, s, i) /\ (raw[i].idle <=> s \in seatIdle)

Follows(s) ==
  /\ Unread(s) => Announced(s)
  /\ ~Unread(s) /\ OnItsWay(tree, s) => (fan.idle <=> s \in seatIdle)
  /\ ~Unread(s) /\ ~OnItsWay(tree, s) => (<<tree, s>> \in idled <=> s \in seatIdle)
  /\ InHand(tree, s) => /\ hand.idle <=> <<tree, s>> \in idled
                        /\ hand.idle => ~blocked
  /\ ~InHand(tree, s) => (<<tree, s>> \in told <=> <<tree, s>> \in idled /\ ~blocked)

Silent(t, s) ==
  ~OnItsWay(t, s) /\ ~InHand(t, s) /\ <<t, s>> \notin told /\ <<t, s>> \notin idled

TellsTheSeat ==
  \A s \in Secs : <<tree, s>> \notin strayed =>
    IF Sent(tree, s) THEN Follows(s) ELSE Silent(tree, s)

(* Nothing moves at a threshold that waits for its first entry.            *)
Still(s) ==
  /\ s \notin seatIdle /\ ~Unread(s)
  /\ \A t \in Nat : ~OnItsWay(t, s) /\ ~InHand(t, s)

Waits(s) ==
  <<tree, s>> \in ToSet(pending) \union ToSet(replaying) /\ ~Sent(tree, s)

WaitingIsQuiet ==
  \A s \in Secs : <<tree, s>> \notin strayed /\ Waits(s) =>
    Still(s) /\ s \notin listeners \union creating \union DOMAIN fanout

(* The registrations that wait are of one tree; those of the queue, of the *)
(* one on the glass.                                                       *)
OfOneTree ==
  /\ \A k \in ToSet(pending) : k[1] = tree
  /\ \A k, l \in ToSet(replaying) : k[1] = l[1]
  /\ drained => ToSet(pending) = {}

(* A tree that is still to come has left no trace.                         *)
Unborn(t) ==
  /\ \A s \in Secs : ~Sent(t, s) /\ Silent(t, s)
  /\ \A k \in ToSet(replaying) : k[1] # t

NoneIsBorn == \A t \in Nat : t > tree => Unborn(t)

(* Without notify there is no listener and nothing it could have sent.     *)
DeadIsQuiet ==
  ~live => /\ fanout = <<>> /\ listeners = {} /\ creating = {}
           /\ raw = <<>> /\ fan.to = {} /\ hand.to = {} /\ seatIdle = {}

SeatInv == SeatTypes /\ TellsTheSeat /\ WaitingIsQuiet /\ OfOneTree /\ NoneIsBorn /\ DeadIsQuiet


(* What an event at the end, those at the end, and the one at the head are *)
(* to the others.                                                          *)
Added(t, q, e, s) ==
  /\ t \in Seq(Events)
  /\ Mentions(t, s) <=> Mentions(q, s) \/ e.sec = s
  /\ e.sec = s => \E i \in 1..Len(t) : LastOf(t, s, i) /\ t[i] = e
  /\ e.sec # s => \A i \in 1..Len(q) : LastOf(q, s, i) =>
       i \in 1..Len(t) /\ LastOf(t, s, i) /\ t[i] = q[i]

LEMMA OneMoreEvent ==
  ASSUME NEW q \in Seq(Events), NEW e \in Events, NEW s
  PROVE  Added(Append(q, e), q, e, s)
<1> DEFINE t == Append(q, e)
           n == Len(q)
<1>1. /\ t \in Seq(Events) /\ Len(t) = n + 1 /\ n \in Nat /\ t[n + 1] = e
      /\ \A i \in 1..n : t[i] = q[i]
  OBVIOUS
<1> HIDE DEF t
<1>2. \A i \in Nat : i \in 1..(n + 1) <=> i \in 1..n \/ i = n + 1
  BY <1>1
<1>3. Mentions(t, s) <=> Mentions(q, s) \/ e.sec = s
  BY <1>1, <1>2 DEF Mentions
<1>4. ASSUME e.sec = s PROVE LastOf(t, s, n + 1) /\ n + 1 \in 1..Len(t)
  BY <1>1, <1>4 DEF LastOf
<1>5. ASSUME e.sec # s, NEW i \in 1..n, LastOf(q, s, i)
      PROVE  LastOf(t, s, i) /\ i \in 1..Len(t)
  BY <1>1, <1>2, <1>5 DEF LastOf
<1> QED
  <2>1. Added(t, q, e, s)
    BY <1>1, <1>3, <1>4, <1>5 DEF Added
  <2> QED
    BY <2>1 DEF t

LEMMA OneEventLess ==
  ASSUME NEW q \in Seq(Events), q # <<>>, NEW s
  PROVE  /\ Head(q) \in Events /\ Tail(q) \in Seq(Events)
         /\ Mentions(q, s) <=> Head(q).sec = s \/ Mentions(Tail(q), s)
         /\ Mentions(Tail(q), s) => \A i \in 1..Len(q) : LastOf(q, s, i) =>
              i - 1 \in 1..Len(Tail(q)) /\ LastOf(Tail(q), s, i - 1) /\ Tail(q)[i - 1] = q[i]
         /\ ~Mentions(Tail(q), s) => \A i \in 1..Len(q) : LastOf(q, s, i) => q[i] = Head(q)
<1> DEFINE t == Tail(q)
           h == Head(q)
           n == Len(q)
<1>1. /\ t \in Seq(Events) /\ h \in Events /\ n \in Nat /\ n > 0 /\ Len(t) = n - 1 /\ h = q[1]
      /\ \A i \in 1..(n - 1) : t[i] = q[i + 1]
  OBVIOUS
<1> HIDE DEF t, h, n
<1>2. \A i \in 1..n : i = 1 \/ (i - 1 \in 1..(n - 1) /\ t[i - 1] = q[i])
  BY <1>1
<1>3. Len(q) = n /\ 1 \in 1..n /\ \A i \in 1..(n - 1) : i + 1 \in 1..n
  BY <1>1 DEF n
<1>4. Mentions(q, s) <=> h.sec = s \/ Mentions(t, s)
  <2>1. ASSUME NEW i \in 1..n, q[i].sec = s PROVE h.sec = s \/ Mentions(t, s)
    <3>1. CASE i = 1
      BY <1>1, <2>1, <3>1
    <3>2. CASE i # 1
      <4>1. i - 1 \in 1..Len(t) /\ t[i - 1].sec = s
        BY <1>1, <1>2, <2>1, <3>2
      <4> QED
        BY <4>1 DEF Mentions
    <3> QED
      BY <3>1, <3>2
  <2>2. ASSUME NEW i \in 1..Len(t), t[i].sec = s PROVE Mentions(q, s)
    <3>1. i + 1 \in 1..Len(q) /\ q[i + 1].sec = s
      BY <1>1, <1>3, <2>2
    <3> QED
      BY <3>1 DEF Mentions
  <2>3. h.sec = s => Mentions(q, s)
    BY <1>1, <1>3 DEF Mentions
  <2> QED
    BY <1>3, <2>1, <2>2, <2>3 DEF Mentions
<1>5. ASSUME Mentions(t, s), NEW i \in 1..n, LastOf(q, s, i)
      PROVE  i - 1 \in 1..Len(t) /\ LastOf(t, s, i - 1) /\ t[i - 1] = q[i]
  <2>1. PICK j \in 1..(n - 1) : t[j].sec = s
    BY <1>1, <1>5 DEF Mentions
  <2>2. j + 1 \in 1..n /\ q[j + 1].sec = s
    BY <1>1, <1>3, <2>1
  <2>3. i # 1
    BY <1>3, <1>5, <2>1, <2>2 DEF LastOf
  <2>4. i - 1 \in 1..(n - 1) /\ t[i - 1] = q[i] /\ q[i].sec = s
    BY <1>2, <1>3, <1>5, <2>3 DEF LastOf
  <2>5. \A k \in 1..(n - 1) : k > i - 1 => k + 1 \in 1..n /\ k + 1 > i /\ t[k] = q[k + 1]
    BY <1>1, <1>3
  <2> QED
    BY <1>1, <1>3, <1>5, <2>4, <2>5 DEF LastOf
<1>6. ASSUME ~Mentions(t, s), NEW i \in 1..n, LastOf(q, s, i)
      PROVE  q[i] = h
  <2>1. i = 1
    BY <1>1, <1>2, <1>3, <1>6 DEF Mentions, LastOf
  <2> QED
    BY <1>1, <2>1
<1> QED
  BY <1>1, <1>3, <1>4, <1>5, <1>6 DEF t, h, n

LEMMA MoreEvents ==
  ASSUME NEW q \in Seq(Events), NEW m \in Seq(Events), NEW s
  PROVE  /\ q \o m \in Seq(Events)
         /\ Mentions(q \o m, s) <=> Mentions(q, s) \/ Mentions(m, s)
         /\ \A i \in 1..Len(m) : LastOf(m, s, i) =>
              /\ Len(q) + i \in 1..Len(q \o m)
              /\ LastOf(q \o m, s, Len(q) + i) /\ (q \o m)[Len(q) + i] = m[i]
         /\ ~Mentions(m, s) => \A i \in 1..Len(q) : LastOf(q, s, i) =>
              /\ i \in 1..Len(q \o m)
              /\ LastOf(q \o m, s, i) /\ (q \o m)[i] = q[i]
<1> DEFINE t == q \o m
           n == Len(q)
           l == Len(m)
<1>1. /\ t \in Seq(Events) /\ n \in Nat /\ l \in Nat /\ Len(t) = n + l
      /\ \A i \in 1..n : t[i] = q[i]
      /\ \A i \in 1..l : t[n + i] = m[i]
  OBVIOUS
<1> HIDE DEF t, n, l
<1>2. Len(q) = n /\ Len(m) = l
  BY DEF n, l
<1>3. \A i \in 1..(n + l) : i \in 1..n \/ (i - n \in 1..l /\ t[i] = m[i - n])
  <2> SUFFICES ASSUME NEW i \in 1..(n + l), i \notin 1..n
               PROVE  i - n \in 1..l /\ t[i] = m[i - n]
    OBVIOUS
  <2>1. i - n \in 1..l /\ n + (i - n) = i
    BY <1>1
  <2> QED
    BY <1>1, <2>1
<1>4. \A i \in 1..l : n + i \in 1..(n + l)
  BY <1>1
<1>5. \A i \in 1..n : i \in 1..(n + l)
  BY <1>1
<1>6. Mentions(t, s) <=> Mentions(q, s) \/ Mentions(m, s)
  BY <1>1, <1>2, <1>3, <1>4, <1>5 DEF Mentions
<1>7. ASSUME NEW i \in 1..l, LastOf(m, s, i)
      PROVE  n + i \in 1..Len(t) /\ LastOf(t, s, n + i) /\ t[n + i] = m[i]
  <2>1. \A j \in 1..(n + l) : j > n + i => j - n \in 1..l /\ j - n > i /\ t[j] = m[j - n]
    BY <1>1, <1>3
  <2> QED
    BY <1>1, <1>2, <1>4, <1>7, <2>1 DEF LastOf
<1>8. ASSUME ~Mentions(m, s), NEW i \in 1..n, LastOf(q, s, i)
      PROVE  i \in 1..Len(t) /\ LastOf(t, s, i) /\ t[i] = q[i]
  <2>1. i \in 1..(n + l) /\ t[i] = q[i] /\ q[i].sec = s
    BY <1>1, <1>2, <1>5, <1>8 DEF LastOf
  <2>2. ASSUME NEW j \in 1..(n + l), j > i PROVE t[j].sec # s
    <3>1. CASE j \in 1..n
      BY <1>1, <1>2, <1>8, <2>2, <3>1 DEF LastOf
    <3>2. CASE j \notin 1..n
      BY <1>2, <1>3, <1>8, <3>2 DEF Mentions
    <3> QED
      BY <3>1, <3>2
  <2> QED
    BY <1>1, <2>1, <2>2 DEF LastOf
<1> QED
  BY <1>1, <1>2, <1>6, <1>7, <1>8 DEF t

(* A finite set in some order.                                             *)
LEMMA Ordered ==
  ASSUME NEW S, IsFiniteSet(S)
  PROVE  /\ SetToSeq(S) \in Seq(S)
         /\ \A i, j \in 1..Len(SetToSeq(S)) : SetToSeq(S)[i] = SetToSeq(S)[j] => i = j
         /\ \A x \in S : \E i \in 1..Len(SetToSeq(S)) : SetToSeq(S)[i] = x
<1> DEFINE n == Cardinality(S)
           q == SetToSeq(S)
<1>1. n \in Nat /\ ExistsBijection(1..n, S)
  BY FS_CardinalityType
<1>2. \E f \in [1..n -> S] : IsInjective(f)
  BY <1>1 DEF ExistsBijection, Bijection, Injection
<1>3. q \in [1..n -> S] /\ IsInjective(q)
  BY <1>2 DEF SetToSeq
<1> HIDE DEF q
<1>4. q \in Injection(1..n, S)
  BY <1>3 DEF Injection
<1>5. IsFiniteSet(1..n) /\ Cardinality(1..n) = n
  BY <1>1, FS_Interval
<1>6. q \in Surjection(1..n, S)
  BY <1>4, <1>5, FS_Injection
<1>7. q \in Seq(S) /\ Len(q) = n
  BY <1>1, <1>3, AsSequence
<1>8. \A x \in S : \E i \in 1..n : q[i] = x
  BY <1>6 DEF Surjection
<1>9. \A i, j \in 1..n : q[i] = q[j] => i = j
  BY <1>3 DEF IsInjective
<1> QED
  BY <1>7, <1>8, <1>9 DEF q

(* What the seat sends when it is no longer idle.                          *)
LEMMA Resumptions ==
  ASSUME SeatTypes
  PROVE  LET m == SetToSeq({[sec |-> s, idle |-> FALSE] : s \in seatIdle})
         IN /\ m \in Seq(Events)
            /\ \A s : Mentions(m, s) <=> s \in seatIdle
            /\ \A s \in seatIdle : \E i \in 1..Len(m) : LastOf(m, s, i) /\ ~m[i].idle
<1> DEFINE Resumed == {[sec |-> s, idle |-> FALSE] : s \in seatIdle}
           m == SetToSeq(Resumed)
           f == [s \in seatIdle |-> [sec |-> s, idle |-> FALSE]]
<1>1. f \in Surjection(seatIdle, Resumed)
  BY DEF Surjection
<1>2. IsFiniteSet(Resumed)
  BY <1>1, FS_Surjection DEF SeatTypes
<1>3. Resumed \subseteq Events
  <2>1. \A s \in seatIdle : [sec |-> s, idle |-> FALSE] \in Events
    BY DEF Events, SeatTypes
  <2> QED
    BY <2>1
<1>4. \A e \in Resumed : e.sec \in seatIdle /\ ~e.idle /\ e = [sec |-> e.sec, idle |-> FALSE]
  OBVIOUS
<1>5. \A s \in seatIdle : \E e \in Resumed : e.sec = s
  <2> SUFFICES ASSUME NEW s \in seatIdle PROVE \E e \in Resumed : e.sec = s
    OBVIOUS
  <2>1. [sec |-> s, idle |-> FALSE] \in Resumed /\ [sec |-> s, idle |-> FALSE].sec = s
    OBVIOUS
  <2> QED
    BY <2>1
<1> HIDE DEF f, Resumed
<1>6. /\ m \in Seq(Resumed)
      /\ \A i, j \in 1..Len(m) : m[i] = m[j] => i = j
      /\ \A e \in Resumed : \E i \in 1..Len(m) : m[i] = e
  BY <1>2, Ordered
<1> HIDE DEF m
<1>7. \A i \in 1..Len(m) : m[i] \in Resumed
  BY <1>6
<1>8. m \in Seq(Events)
  BY <1>3, <1>6, <1>7
<1>9. \A s : Mentions(m, s) <=> s \in seatIdle
  <2>1. ASSUME NEW i \in 1..Len(m) PROVE m[i].sec \in seatIdle
    BY <1>4, <1>7
  <2>2. ASSUME NEW s \in seatIdle PROVE \E i \in 1..Len(m) : m[i].sec = s
    <3>1. PICK e \in Resumed : e.sec = s
      BY <1>5
    <3> QED
      BY <1>6, <3>1
  <2> QED
    BY <2>1, <2>2 DEF Mentions
<1>10. ASSUME NEW s \in seatIdle
       PROVE  \E i \in 1..Len(m) : LastOf(m, s, i) /\ ~m[i].idle
  <2>1. PICK i \in 1..Len(m) : m[i].sec = s
    BY <1>9 DEF Mentions
  <2>2. ASSUME NEW j \in 1..Len(m), m[j].sec = s PROVE j = i
    <3>1. m[i] \in Resumed /\ m[j] \in Resumed
      BY <1>7
    <3>2. m[i] = [sec |-> s, idle |-> FALSE] /\ m[j] = [sec |-> s, idle |-> FALSE]
      BY <1>4, <2>1, <2>2, <3>1
    <3> QED
      BY <1>6, <3>2
  <2>3. LastOf(m, s, i)
    BY <2>1, <2>2 DEF LastOf
  <2> QED
    BY <1>4, <1>7, <2>3
<1> QED
  BY <1>8, <1>9, <1>10 DEF m, Resumed


-----------------------------------------------------------------------------
(* While the registrations stand, the invariant is about events: those on  *)
(* their way to a tree that is sent them, and none to the others.          *)
entryVars == <<live, drained, pending, replaying, creating, fanout, listeners, tree>>

LEMMA SeatFrame ==
  ASSUME ThresholdTypes, SeatInv, UNCHANGED entryVars, strayed \subseteq strayed',
         SeatTypes', DeadIsQuiet',
         \A s \in Secs : <<tree, s>> \notin strayed' /\ Sent(tree, s) /\ Follows(s) => Follows(s)',
         \A s \in Secs, t \in Nat : ~Sent(t, s) /\ Silent(t, s) => Silent(t, s)',
         \A s \in Secs : s \notin listeners /\ Still(s) => Still(s)'
  PROVE  SeatInv'
<1> USE DEF SeatInv, entryVars
<1>1. \A s \in Secs, t \in Nat : Sent(t, s)' <=> Sent(t, s)
  BY DEF Sent
<1>2. tree' = tree /\ tree \in Nat
  BY DEF ThresholdTypes
<1>3. TellsTheSeat'
  <2> SUFFICES ASSUME NEW s \in Secs, <<tree, s>> \notin strayed'
               PROVE  IF Sent(tree, s) THEN Follows(s)' ELSE Silent(tree, s)'
    BY <1>1, <1>2 DEF TellsTheSeat
  <2>1. IF Sent(tree, s) THEN Follows(s) ELSE Silent(tree, s)
    BY DEF TellsTheSeat
  <2> QED
    BY <1>2, <2>1
<1>4. WaitingIsQuiet'
  <2> SUFFICES ASSUME NEW s \in Secs, <<tree, s>> \notin strayed', Waits(s)'
               PROVE  Still(s)' /\ s \notin listeners' \union creating' \union DOMAIN fanout'
    BY <1>2 DEF WaitingIsQuiet
  <2>1. Waits(s)
    BY <1>1, <1>2 DEF Waits
  <2>2. Still(s) /\ s \notin listeners \union creating \union DOMAIN fanout
    BY <2>1 DEF WaitingIsQuiet
  <2> QED
    BY <2>2
<1>5. OfOneTree'
  BY DEF OfOneTree
<1>6. NoneIsBorn'
  <2> SUFFICES ASSUME NEW t \in Nat, t > tree PROVE Unborn(t)'
    BY <1>2 DEF NoneIsBorn
  <2>1. Unborn(t)
    BY DEF NoneIsBorn
  <2>2. \A s \in Secs : ~Sent(t, s)' /\ Silent(t, s)'
    BY <1>1, <2>1 DEF Unborn
  <2>3. \A k \in ToSet(replaying') : k[1] # t
    BY <2>1 DEF Unborn
  <2> QED
    BY <2>2, <2>3 DEF Unborn
<1> QED
  BY <1>3, <1>4, <1>5, <1>6

(* The seat goes idle at a threshold, and tells it.                        *)
LEMMA IdlesKeeps ==
  ASSUME ThresholdTypes, SeatInv, NEW sec \in Secs, CompositorIdles(sec)
  PROVE  SeatInv'
<1> USE DEF setupVars, forwardVars, gateVars, treeVars
<1> DEFINE e == [sec |-> sec, idle |-> TRUE]
<1>1. /\ UNCHANGED entryVars /\ UNCHANGED <<fan, hand, told, blocked, idled, strayed>>
      /\ sec \in listeners \ seatIdle /\ seatIdle' = seatIdle \union {sec} /\ raw' = Append(raw, e)
  BY DEF CompositorIdles, entryVars
<1>2. SeatTypes /\ DeadIsQuiet /\ raw \in Seq(Events) /\ e \in Events
  BY DEF SeatInv, SeatTypes, Events
<1>3. e.sec = sec /\ e.idle
  OBVIOUS
<1> HIDE DEF e
<1>4. \A s : /\ raw' \in Seq(Events)
             /\ Mentions(raw', s) <=> Mentions(raw, s) \/ sec = s
             /\ sec = s => \E i \in 1..Len(raw') : LastOf(raw', s, i) /\ raw'[i] = e
             /\ sec # s => \A i \in 1..Len(raw) : LastOf(raw, s, i) =>
                  i \in 1..Len(raw') /\ LastOf(raw', s, i) /\ raw'[i] = raw[i]
  <2> TAKE s
  <2>1. sec = s <=> e.sec = s
    BY <1>3
  <2>2. Added(raw', raw, e, s)
    BY <1>1, <1>2, OneMoreEvent
  <2> QED
    BY <2>1, <2>2 DEF Added
<1>5. SeatTypes'
  <2>1. IsFiniteSet(seatIdle')
    BY <1>1, <1>2, FS_AddElement DEF SeatTypes
  <2> QED
    BY <1>1, <1>2, <1>4, <2>1 DEF SeatTypes, entryVars
<1>6. DeadIsQuiet'
  BY <1>1, <1>2 DEF DeadIsQuiet, entryVars
<1>7. ASSUME NEW s \in Secs, Follows(s)
      PROVE  Follows(s)'
  <2>1. CASE s = sec
    <3>1. Unread(s)' /\ Announced(s)'
      BY <1>1, <1>3, <1>4, <2>1 DEF Unread, Announced
    <3> QED
      BY <1>1, <1>7, <3>1 DEF Follows, InHand, entryVars
  <2>2. CASE s # sec
    <3>1. (Unread(s)' <=> Unread(s)) /\ (s \in seatIdle' <=> s \in seatIdle)
      BY <1>1, <1>4, <2>2 DEF Unread
    <3>2. Announced(s) => Announced(s)'
      BY <1>4, <2>2, <3>1 DEF Announced
    <3> QED
      BY <1>1, <1>7, <3>1, <3>2 DEF Follows, InHand, OnItsWay, entryVars
  <2> QED
    BY <2>1, <2>2
<1>8. \A s \in Secs, t \in Nat : Silent(t, s) => Silent(t, s)'
  BY <1>1 DEF Silent, OnItsWay, InHand
<1>9. \A s \in Secs : s \notin listeners /\ Still(s) => Still(s)'
  BY <1>1, <1>4 DEF Still, Unread, OnItsWay, InHand
<1> QED
  BY <1>1, <1>5, <1>6, <1>7, <1>8, <1>9, SeatFrame

LEMMA ResumesKeeps ==
  ASSUME ThresholdTypes, SeatInv, CompositorResumes
  PROVE  SeatInv'
<1> USE DEF setupVars, forwardVars, gateVars, treeVars
<1> DEFINE m == SetToSeq({[sec |-> s, idle |-> FALSE] : s \in seatIdle})
<1>1. /\ UNCHANGED entryVars /\ UNCHANGED <<fan, hand, told, blocked, idled, strayed>>
      /\ seatIdle # {} /\ seatIdle' = {} /\ raw' = raw \o m
  BY DEF CompositorResumes, entryVars
<1>2. SeatTypes /\ DeadIsQuiet /\ raw \in Seq(Events)
  BY DEF SeatInv, SeatTypes
<1>3. /\ m \in Seq(Events)
      /\ \A s : Mentions(m, s) <=> s \in seatIdle
      /\ \A s \in seatIdle : \E i \in 1..Len(m) : LastOf(m, s, i) /\ ~m[i].idle
  BY <1>2, Resumptions
<1> HIDE DEF m
<1>4. \A s : /\ raw' \in Seq(Events)
             /\ Mentions(raw', s) <=> Mentions(raw, s) \/ Mentions(m, s)
             /\ \A i \in 1..Len(m) : LastOf(m, s, i) =>
                  /\ Len(raw) + i \in 1..Len(raw')
                  /\ LastOf(raw', s, Len(raw) + i) /\ raw'[Len(raw) + i] = m[i]
             /\ ~Mentions(m, s) => \A i \in 1..Len(raw) : LastOf(raw, s, i) =>
                  /\ i \in 1..Len(raw')
                  /\ LastOf(raw', s, i) /\ raw'[i] = raw[i]
  BY <1>1, <1>2, <1>3, MoreEvents
<1>5. SeatTypes'
  <2>1. IsFiniteSet({})
    BY FS_EmptySet
  <2> QED
    BY <1>1, <1>2, <1>4, <2>1 DEF SeatTypes, entryVars
<1>6. DeadIsQuiet'
  BY <1>1, <1>2 DEF DeadIsQuiet, entryVars
<1>7. ASSUME NEW s \in Secs, Follows(s)
      PROVE  Follows(s)'
  <2>1. CASE s \in seatIdle
    <3>1. Unread(s)' /\ Announced(s)'
      BY <1>1, <1>3, <1>4, <2>1 DEF Unread, Announced
    <3> QED
      BY <1>1, <1>7, <3>1 DEF Follows, InHand, entryVars
  <2>2. CASE s \notin seatIdle
    <3>1. (Unread(s)' <=> Unread(s)) /\ (s \in seatIdle' <=> s \in seatIdle)
      BY <1>1, <1>3, <1>4, <2>2 DEF Unread
    <3>2. Announced(s) => Announced(s)'
      BY <1>3, <1>4, <2>2, <3>1 DEF Announced
    <3> QED
      BY <1>1, <1>7, <3>1, <3>2 DEF Follows, InHand, OnItsWay, entryVars
  <2> QED
    BY <2>1, <2>2
<1>8. \A s \in Secs, t \in Nat : Silent(t, s) => Silent(t, s)'
  BY <1>1 DEF Silent, OnItsWay, InHand
<1>9. \A s \in Secs : Still(s) => Still(s)'
  BY <1>1, <1>3, <1>4 DEF Still, Unread, OnItsWay, InHand
<1> QED
  BY <1>1, <1>5, <1>6, <1>7, <1>8, <1>9, SeatFrame

(* The forwarder takes the next event, for the trees that are sent it.     *)
LEMMA ReadKeeps ==
  ASSUME ThresholdTypes, SeatInv, ReadRaw
  PROVE  SeatInv'
<1> USE DEF setupVars, gateVars, treeVars
<1> DEFINE e == Head(raw)
<1>1. /\ UNCHANGED entryVars /\ UNCHANGED <<hand, told, blocked, idled, strayed, seatIdle>>
      /\ fan.to = {} /\ hand = Nothing /\ raw # <<>> /\ raw' = Tail(raw)
      /\ fan' = [sec |-> e.sec, idle |-> e.idle,
                 to |-> IF e.sec \in DOMAIN fanout THEN fanout[e.sec] ELSE {}]
  BY DEF ReadRaw, entryVars
<1>2. SeatTypes /\ DeadIsQuiet /\ raw \in Seq(Events) /\ TellsTheSeat
  BY DEF SeatInv, SeatTypes
<1>3. \A s : /\ e \in Events /\ raw' \in Seq(Events)
             /\ Mentions(raw, s) <=> e.sec = s \/ Mentions(raw', s)
             /\ Mentions(raw', s) => \A i \in 1..Len(raw) : LastOf(raw, s, i) =>
                  i - 1 \in 1..Len(raw') /\ LastOf(raw', s, i - 1) /\ raw'[i - 1] = raw[i]
             /\ ~Mentions(raw', s) => \A i \in 1..Len(raw) : LastOf(raw, s, i) => raw[i] = e
  BY <1>1, <1>2, OneEventLess
<1> HIDE DEF e
<1>4. SeatTypes'
  <2>1. e \in Events
    BY <1>3
  <2>2. fan' \in Forwarded
    BY <1>1, <1>2, <2>1 DEF SeatTypes, Events, Forwarded
  <2> QED
    BY <1>1, <1>2, <1>3, <2>2 DEF SeatTypes, entryVars
<1>5. \A s, t : OnItsWay(t, s)' <=> e.sec = s /\ Sent(t, s)
  BY <1>1 DEF OnItsWay, Sent
<1>6. \A s, t : ~OnItsWay(t, s) /\ ~InHand(t, s) /\ ~InHand(t, s)'
  BY <1>1 DEF OnItsWay, InHand, Nothing
<1>7. DeadIsQuiet'
  BY <1>1, <1>2 DEF DeadIsQuiet, entryVars
<1>8. ASSUME NEW s \in Secs, Sent(tree, s), Follows(s)
      PROVE  Follows(s)'
  <2>1. CASE Mentions(raw', s)
    <3>1. Unread(s)' /\ Announced(s)
      BY <1>3, <1>8, <2>1 DEF Unread, Follows
    <3>2. Announced(s)'
      BY <1>1, <1>3, <2>1, <3>1 DEF Announced
    <3> QED
      BY <1>1, <1>6, <1>8, <3>1, <3>2 DEF Follows, entryVars
  <2>2. CASE ~Mentions(raw', s) /\ e.sec = s
    <3>1. Announced(s) /\ ~Unread(s)' /\ OnItsWay(tree, s)'
      BY <1>1, <1>3, <1>5, <1>8, <2>2 DEF Unread, Follows, entryVars
    <3>2. e.idle <=> s \in seatIdle
      BY <1>3, <2>2, <3>1 DEF Announced
    <3>3. fan'.idle = e.idle /\ tree' = tree
      BY <1>1 DEF entryVars
    <3> QED
      BY <1>1, <1>6, <1>8, <3>1, <3>2, <3>3 DEF Follows, entryVars
  <2>3. CASE ~Mentions(raw', s) /\ e.sec # s
    <3>1. ~Unread(s) /\ ~Unread(s)' /\ ~OnItsWay(tree, s)'
      BY <1>3, <1>5, <2>3 DEF Unread
    <3> QED
      BY <1>1, <1>6, <1>8, <3>1 DEF Follows, entryVars
  <2> QED
    BY <2>1, <2>2, <2>3
<1>9. \A s \in Secs, t \in Nat : ~Sent(t, s) /\ Silent(t, s) => Silent(t, s)'
  BY <1>1, <1>5, <1>6 DEF Silent
<1>10. \A s \in Secs : Still(s) => Still(s)'
  BY <1>1, <1>3, <1>5, <1>6 DEF Still, Unread
<1> QED
  BY <1>1, <1>4, <1>7, <1>8, <1>9, <1>10, SeatFrame

(* The gate records it for a tree, and lets it through if it is open.      *)
LEMMA PassKeeps ==
  ASSUME ThresholdTypes, SeatInv, NEW tr \in Trees, PassGate(tr)
  PROVE  SeatInv'
<1> USE DEF setupVars, seatVars, treeVars
<1>1. /\ UNCHANGED entryVars /\ UNCHANGED <<raw, told, blocked, strayed, seatIdle>>
      /\ hand = Nothing /\ tr \in fan.to
      /\ fan' = [fan EXCEPT !.to = @ \ {tr}]
      /\ idled' = IF fan.idle THEN idled \union {<<tr, fan.sec>>} ELSE idled \ {<<tr, fan.sec>>}
      /\ hand' = IF blocked THEN Nothing ELSE [sec |-> fan.sec, idle |-> fan.idle, to |-> {tr}]
  BY DEF PassGate, Observe, entryVars
<1>2. SeatTypes /\ DeadIsQuiet /\ fan \in Forwarded /\ tr \in Nat
  BY DEF SeatInv, SeatTypes, Trees
<1>3. fan'.sec = fan.sec /\ fan'.idle = fan.idle /\ fan'.to = fan.to \ {tr} /\ fan' \in Forwarded
  BY <1>1, <1>2 DEF Forwarded
<1>4. hand' \in Forwarded
  BY <1>1, <1>2 DEF Forwarded, Nothing
<1>5. SeatTypes'
  BY <1>1, <1>2, <1>3, <1>4 DEF SeatTypes, entryVars
<1>6. DeadIsQuiet'
  BY <1>1, <1>2 DEF DeadIsQuiet, entryVars
<1>7. \A s, t : /\ OnItsWay(t, s)' <=> OnItsWay(t, s) /\ t # tr
                /\ ~InHand(t, s)
                /\ InHand(t, s)' <=> OnItsWay(t, s) /\ t = tr /\ ~blocked
                /\ ~(OnItsWay(t, s) /\ t = tr) => (<<t, s>> \in idled' <=> <<t, s>> \in idled)
                /\ OnItsWay(t, s) /\ t = tr => (<<t, s>> \in idled' <=> fan.idle)
                /\ Unread(s)' <=> Unread(s)
                /\ Announced(s)' <=> Announced(s)
  BY <1>1, <1>2, <1>3 DEF OnItsWay, InHand, Nothing, Unread, Announced
<1>8. ~blocked => hand'.idle = fan.idle
  BY <1>1
<1>9. ASSUME NEW s \in Secs, Follows(s)
      PROVE  Follows(s)'
  BY <1>1, <1>2, <1>3, <1>7, <1>8, <1>9 DEF Follows, entryVars, SeatTypes
<1>10. \A s \in Secs, t \in Nat : Silent(t, s) => Silent(t, s)'
  BY <1>1, <1>7 DEF Silent
<1>11. \A s \in Secs : Still(s) => Still(s)'
  BY <1>1, <1>2, <1>7 DEF Still
<1> QED
  BY <1>1, <1>5, <1>6, <1>9, <1>10, <1>11, SeatFrame

LEMMA SendKeeps ==
  ASSUME ThresholdTypes, SeatInv, SendEvent
  PROVE  SeatInv'
<1> USE DEF setupVars, seatVars, gateVars, treeVars
<1>1. /\ UNCHANGED entryVars /\ UNCHANGED <<raw, fan, blocked, idled, strayed, seatIdle>>
      /\ hand' = Nothing
      /\ told' = IF hand.idle THEN told \union (hand.to \X {hand.sec}) ELSE told \ (hand.to \X {hand.sec})
  BY DEF SendEvent, entryVars
<1>2. SeatTypes /\ DeadIsQuiet /\ hand \in Forwarded
  BY DEF SeatInv, SeatTypes
<1>3. SeatTypes'
  BY <1>1, <1>2 DEF SeatTypes, Forwarded, Nothing, entryVars
<1>4. DeadIsQuiet'
  BY <1>1, <1>2 DEF DeadIsQuiet, entryVars, Nothing
<1>5. \A s, t : /\ OnItsWay(t, s)' <=> OnItsWay(t, s)
                /\ ~InHand(t, s)'
                /\ ~InHand(t, s) => (<<t, s>> \in told' <=> <<t, s>> \in told)
                /\ InHand(t, s) => (<<t, s>> \in told' <=> hand.idle)
                /\ Unread(s)' <=> Unread(s)
                /\ Announced(s)' <=> Announced(s)
  BY <1>1, <1>2 DEF OnItsWay, InHand, Nothing, Unread, Announced
<1>6. ASSUME NEW s \in Secs, Follows(s)
      PROVE  Follows(s)'
  BY <1>1, <1>2, <1>5, <1>6 DEF Follows, entryVars, SeatTypes
<1>7. \A s \in Secs, t \in Nat : Silent(t, s) => Silent(t, s)'
  BY <1>1, <1>5 DEF Silent
<1>8. \A s \in Secs : Still(s) => Still(s)'
  BY <1>1, <1>5 DEF Still
<1> QED
  BY <1>1, <1>3, <1>4, <1>6, <1>7, <1>8, SeatFrame

(* A block takes back what stands, a release announces it, and an Idled in *)
(* hand when the gate closes is the one event that goes astray.            *)
LEMMA BlockKeeps ==
  ASSUME ThresholdTypes, SeatInv, SetBlocked
  PROVE  SeatInv'
<1> USE DEF setupVars, seatVars
<1>1. /\ UNCHANGED entryVars /\ UNCHANGED <<raw, fan, hand, idled, seatIdle>>
      /\ blocked' = ~blocked
      /\ told' = IF blocked' THEN told \ idled ELSE told \union idled
      /\ strayed' = IF blocked' /\ hand.idle THEN strayed \union (hand.to \X {hand.sec}) ELSE strayed
  BY DEF SetBlocked, entryVars
<1>2. SeatTypes /\ DeadIsQuiet /\ blocked \in BOOLEAN
  BY DEF SeatInv, SeatTypes
<1>3. SeatTypes'
  BY <1>1, <1>2 DEF SeatTypes, entryVars
<1>4. DeadIsQuiet'
  BY <1>1, <1>2 DEF DeadIsQuiet, entryVars
<1>5. \A s, t : /\ OnItsWay(t, s)' <=> OnItsWay(t, s)
                /\ InHand(t, s)' <=> InHand(t, s)
                /\ InHand(t, s) /\ hand.idle /\ ~blocked => <<t, s>> \in strayed'
                /\ Unread(s)' <=> Unread(s)
                /\ Announced(s)' <=> Announced(s)
  BY <1>1, <1>2 DEF OnItsWay, InHand, Unread, Announced
<1>6. ASSUME NEW s \in Secs, <<tree, s>> \notin strayed', Follows(s)
      PROVE  Follows(s)'
  BY <1>1, <1>2, <1>5, <1>6 DEF Follows, entryVars
<1>7. \A s \in Secs, t \in Nat : Silent(t, s) => Silent(t, s)'
  BY <1>1, <1>5 DEF Silent
<1>8. \A s \in Secs : Still(s) => Still(s)'
  BY <1>1, <1>5 DEF Still
<1>9. strayed \subseteq strayed'
  BY <1>1
<1> QED
  BY <1>1, <1>3, <1>4, <1>6, <1>7, <1>8, <1>9, SeatFrame


-----------------------------------------------------------------------------
(* At a quiet threshold nothing was told and nothing is to tell.           *)
LEMMA RestIsQuiet ==
  ASSUME SeatTypes, NEW s \in Secs, AtRest(s)
  PROVE  Still(s)
<1>1. /\ s \notin seatIdle /\ s # hand.sec
      /\ \A e \in ToSet(raw) : s # e.sec
      /\ fan.to = {} \/ s # fan.sec
  BY DEF AtRest
<1>2. DOMAIN raw = 1..Len(raw)
  BY DEF SeatTypes
<1>3. \A i \in 1..Len(raw) : raw[i] \in ToSet(raw)
  BY <1>2 DEF ToSet
<1> QED
  BY <1>1, <1>3 DEF Still, Unread, Mentions, OnItsWay, InHand

LEMMA QuietTells ==
  ASSUME tree \in Nat, NEW s \in Secs, Still(s)
  PROVE  Follows(s) <=> Silent(tree, s)
  BY DEF Still, Follows, Silent

LEMMA DeadRests ==
  ASSUME DeadIsQuiet, ~live
  PROVE  \A s \in Secs : Still(s) /\ s \notin listeners \union creating \union DOMAIN fanout
<1>1. /\ DOMAIN fanout = {} /\ listeners = {} /\ creating = {} /\ seatIdle = {}
      /\ Len(raw) = 0 /\ fan.to = {} /\ hand.to = {}
  BY DEF DeadIsQuiet
<1> QED
  BY <1>1 DEF Still, Unread, Mentions, OnItsWay, InHand

(* What an entry of the fan-out adds, and what the loss of some leaves.    *)
LEMMA EntryIsSent ==
  ASSUME NEW tr \in Nat, NEW sec, fanout' = Entry(tr, sec),
         \A s \in DOMAIN fanout : fanout[s] \subseteq Nat
  PROVE  /\ \A t, s : Sent(t, s)' <=> Sent(t, s) \/ (t = tr /\ s = sec)
         /\ DOMAIN fanout' = DOMAIN fanout \union {sec}
         /\ \A s \in DOMAIN fanout' : fanout'[s] \subseteq Nat
<1>1. DOMAIN fanout' = DOMAIN fanout \union {sec}
  BY DEF Entry
<1>2. \A s \in DOMAIN fanout' :
        fanout'[s] = (IF s \in DOMAIN fanout THEN fanout[s] ELSE {}) \union (IF s = sec THEN {tr} ELSE {})
  BY DEF Entry
<1> QED
  BY <1>1, <1>2 DEF Sent

LEMMA UnusedAreTaken ==
  ASSUME SeatTypes, NEW dropped, TakeUnused(dropped)
  PROVE  /\ \A t, s : Sent(t, s)' <=> Sent(t, s) /\ <<t, s>> \notin dropped
         /\ DOMAIN fanout' \subseteq DOMAIN fanout /\ listeners' \subseteq listeners
         /\ \A s \in DOMAIN fanout' : fanout'[s] \subseteq Nat
         /\ seatIdle' \subseteq seatIdle /\ IsFiniteSet(seatIdle')
         /\ \A t, s : Sent(t, s)' => (s \in seatIdle' <=> s \in seatIdle)
<1> DEFINE used == {s \in DOMAIN fanout : \E t \in fanout[s] : <<t, s>> \notin dropped}
<1>1. /\ fanout' = [s \in used |-> {t \in fanout[s] : <<t, s>> \notin dropped}]
      /\ listeners' = listeners \ (DOMAIN fanout \ used)
      /\ seatIdle' = seatIdle \ (DOMAIN fanout \ used)
  BY DEF TakeUnused
<1>2. /\ DOMAIN fanout' = used /\ used \subseteq DOMAIN fanout
      /\ \A s \in used : fanout'[s] = {t \in fanout[s] : <<t, s>> \notin dropped}
  BY <1>1
<1>3. \A t, s : Sent(t, s) /\ <<t, s>> \notin dropped => s \in used
  BY DEF Sent
<1> HIDE DEF used
<1>4. \A t, s : Sent(t, s)' <=> Sent(t, s) /\ <<t, s>> \notin dropped
  BY <1>2, <1>3 DEF Sent
<1>5. \A s \in DOMAIN fanout' : fanout'[s] \subseteq Nat
  BY <1>2 DEF SeatTypes
<1>6. IsFiniteSet(seatIdle')
  BY <1>1, FS_Subset DEF SeatTypes
<1>7. \A t, s : Sent(t, s)' => (s \in seatIdle' <=> s \in seatIdle)
  BY <1>1, <1>2 DEF Sent
<1> QED
  BY <1>1, <1>2, <1>4, <1>5, <1>6, <1>7

(* While the events stand, the invariant is about registrations: a tree    *)
(* gets or loses its entry at a quiet threshold, or it goes astray.        *)
eventVars == <<raw, fan, hand, told, blocked, idled, tree>>

LEMMA EntryFrame ==
  ASSUME ThresholdTypes, TellsTheSeat, UNCHANGED eventVars, strayed \subseteq strayed',
         \A s \in Secs : Sent(tree, s)' => (s \in seatIdle' <=> s \in seatIdle),
         \A s \in Secs : <<tree, s>> \notin strayed' =>
           Still(s) \/ (Sent(tree, s)' <=> Sent(tree, s))
  PROVE  TellsTheSeat'
<1> USE DEF eventVars
<1> SUFFICES ASSUME NEW s \in Secs, <<tree, s>> \notin strayed'
             PROVE  IF Sent(tree, s)' THEN Follows(s)' ELSE Silent(tree, s)'
  BY DEF TellsTheSeat, Sent, Silent, OnItsWay, InHand
<1>1. tree \in Nat /\ IF Sent(tree, s) THEN Follows(s) ELSE Silent(tree, s)
  BY DEF TellsTheSeat, ThresholdTypes
<1>2. Silent(tree, s) => Silent(tree, s)'
  BY DEF Silent, OnItsWay, InHand
<1>3. Sent(tree, s)' /\ Follows(s) => Follows(s)'
  BY DEF Follows, OnItsWay, InHand, Unread, Announced
<1>4. Still(s) => (Follows(s) <=> Silent(tree, s))
  BY <1>1, QuietTells
<1>5. Still(s) \/ (Sent(tree, s)' <=> Sent(tree, s))
  OBVIOUS
<1> QED
  BY <1>1, <1>2, <1>3, <1>4, <1>5

LEMMA QuietStays ==
  ASSUME UNCHANGED <<raw, fan, hand>>, seatIdle' \subseteq seatIdle
  PROVE  \A s : Still(s) => Still(s)'
  BY DEF Still, Unread, OnItsWay, InHand

LEMMA UnbornStays ==
  ASSUME ThresholdTypes, NoneIsBorn, UNCHANGED eventVars,
         \A t \in Nat, s \in Secs : t > tree /\ Sent(t, s)' => Sent(t, s),
         \A t \in Nat : \A k \in ToSet(replaying') : t > tree /\ k[1] = t =>
           \E l \in ToSet(replaying) : l[1] = t
  PROVE  NoneIsBorn'
<1> USE DEF eventVars
<1> SUFFICES ASSUME NEW t \in Nat, t > tree PROVE Unborn(t)'
  BY DEF NoneIsBorn
<1>1. Unborn(t)
  BY DEF NoneIsBorn
<1>2. \A s \in Secs : Silent(t, s) => Silent(t, s)'
  BY DEF Silent, OnItsWay, InHand
<1>3. \A s \in Secs : ~Sent(t, s)' /\ Silent(t, s)'
  BY <1>1, <1>2 DEF Unborn
<1>4. \A k \in ToSet(replaying') : k[1] # t
  BY <1>1 DEF Unborn
<1> QED
  BY <1>3, <1>4 DEF Unborn

LEMMA RegisterKeepsSeat ==
  ASSUME ThresholdInv, SeatInv, NEW sec \in Secs, RegisterThreshold(sec)
  PROVE  SeatInv'
<1> USE DEF setupVars, forwardVars, gateVars, Request, SeatInv
<1>1. /\ UNCHANGED eventVars
      /\ UNCHANGED <<replaying, drained, live, creating, tree, seatIdle, raw, fan, hand, blocked>>
      /\ Strays({<<tree, sec>>} \ wanted)
  BY DEF RegisterThreshold, eventVars
<1>2. ThresholdTypes /\ TakenOnce /\ \A k \in wanted : Heard(k)
  BY DEF ThresholdInv
<1>3. strayed \subseteq strayed'
  BY <1>1 DEF Strays
<1>4. <<tree, sec>> \in Keys /\ pending \in Seq(Keys) /\ tree \in Nat
  BY <1>2 DEF ThresholdTypes, Keys
<1>5. CASE live
  <2>1. /\ fanout' = Entry(tree, sec) /\ pending' = pending
        /\ listeners' \subseteq listeners \union {sec}
    BY <1>5 DEF RegisterThreshold
  <2>2. /\ \A t, s : Sent(t, s)' <=> Sent(t, s) \/ (t = tree /\ s = sec)
        /\ DOMAIN fanout' = DOMAIN fanout \union {sec}
        /\ \A s \in DOMAIN fanout' : fanout'[s] \subseteq Nat
    <3>1. \A s \in DOMAIN fanout : fanout[s] \subseteq Nat
      BY DEF SeatTypes
    <3> HIDE DEF SeatInv
    <3> QED
      BY <1>4, <2>1, <3>1, EntryIsSent
  <2>3. SeatTypes'
    BY <1>1, <2>2 DEF SeatTypes
  <2>4. ASSUME <<tree, sec>> \notin strayed', ~Sent(tree, sec) PROVE Still(sec)
    <3>1. CASE <<tree, sec>> \in wanted
      <4>1. Heard(<<tree, sec>>)
        BY <1>2, <3>1
      <4>2. Waits(sec)
        BY <2>4, <4>1 DEF Heard, Waits, Sent
      <4> QED
        BY <1>3, <2>4, <4>2 DEF WaitingIsQuiet
    <3>2. CASE <<tree, sec>> \notin wanted
      <4>1. AtRest(sec)
        BY <1>1, <2>4, <3>2 DEF Strays
      <4> QED
        BY <4>1, RestIsQuiet
    <3> QED
      BY <3>1, <3>2
  <2>5. TellsTheSeat'
    <3>1. \A s \in Secs : s # sec => (Sent(tree, s)' <=> Sent(tree, s))
      BY <1>1, <2>2 DEF Sent
    <3>2. Sent(tree, sec)'
      BY <1>1, <2>2 DEF Sent
    <3>3. \A s \in Secs : <<tree, s>> \notin strayed' =>
            Still(s) \/ (Sent(tree, s)' <=> Sent(tree, s))
      BY <2>4, <3>1, <3>2
    <3>4. \A s \in Secs : s \in seatIdle' <=> s \in seatIdle
      BY <1>1
    <3>5. TellsTheSeat
      OBVIOUS
    <3> HIDE DEF SeatInv
    <3> QED
      BY <1>1, <1>2, <1>3, <3>3, <3>4, <3>5, EntryFrame
  <2>6. WaitingIsQuiet'
    <3> SUFFICES ASSUME NEW s \in Secs, <<tree, s>> \notin strayed', Waits(s)'
                 PROVE  Still(s)' /\ s \notin listeners' \union creating' \union DOMAIN fanout'
      BY <1>1 DEF WaitingIsQuiet
    <3>1. s # sec /\ Waits(s)
      BY <1>1, <2>1, <2>2 DEF Waits, Sent
    <3>2. Still(s) /\ s \notin listeners \union creating \union DOMAIN fanout
      BY <1>3, <3>1 DEF WaitingIsQuiet
    <3> QED
      BY <1>1, <2>1, <2>2, <3>1, <3>2, QuietStays
  <2>7. NoneIsBorn'
    <3>1. \A t \in Nat, s \in Secs : t > tree /\ Sent(t, s)' => Sent(t, s)
      BY <1>4, <2>2
    <3>2. NoneIsBorn
      OBVIOUS
    <3> HIDE DEF SeatInv
    <3> QED
      BY <1>1, <1>2, <3>1, <3>2, UnbornStays
  <2> QED
    BY <1>1, <1>5, <2>1, <2>3, <2>5, <2>6, <2>7 DEF OfOneTree, DeadIsQuiet
<1>6. CASE ~live
  <2>1. pending' = Append(pending, <<tree, sec>>) /\ UNCHANGED <<fanout, listeners>>
    BY <1>6 DEF RegisterThreshold
  <2>2. ToSet(pending') = ToSet(pending) \union {<<tree, sec>>}
    BY <1>4, <2>1, ToSetOf
  <2>3. \A t, s : Sent(t, s)' <=> Sent(t, s)
    BY <2>1 DEF Sent
  <2>4. SeatTypes' /\ DeadIsQuiet'
    BY <1>1, <2>1 DEF SeatTypes, DeadIsQuiet
  <2>5. TellsTheSeat'
    <3>1. TellsTheSeat /\ \A s \in Secs : Sent(tree, s)' <=> Sent(tree, s)
      BY <1>1, <2>1 DEF Sent
    <3> HIDE DEF SeatInv
    <3> QED
      BY <1>1, <1>2, <1>3, <3>1, EntryFrame
  <2>6. WaitingIsQuiet'
    <3>1. ~live'
      BY <1>1, <1>6
    <3>2. \A s \in Secs : Still(s) /\ s \notin listeners \union creating \union DOMAIN fanout
      BY <1>6, DeadRests
    <3> QED
      BY <1>1, <2>1, <3>2, QuietStays DEF WaitingIsQuiet
  <2>7. NoneIsBorn'
    <3>1. NoneIsBorn
      OBVIOUS
    <3> HIDE DEF SeatInv
    <3> QED
      BY <1>1, <1>2, <2>3, <3>1, UnbornStays
  <2>8. OfOneTree'
    BY <1>1, <1>2, <1>6, <2>2 DEF OfOneTree, TakenOnce
  <2> QED
    BY <2>4, <2>5, <2>6, <2>7, <2>8
<1> QED
  BY <1>5, <1>6

LEMMA CancelKeepsSeat ==
  ASSUME ThresholdInv, SeatInv, NEW sec \in Secs, CancelThreshold(sec)
  PROVE  SeatInv'
<1> USE DEF setupVars, forwardVars, gateVars, Request, SeatInv
<1> DEFINE key == <<tree, sec>>
<1>1. /\ UNCHANGED eventVars
      /\ UNCHANGED <<replaying, drained, live, creating, tree, raw, fan, hand, blocked>>
      /\ Strays({key})
  BY DEF CancelThreshold, eventVars
<1>2. ThresholdTypes /\ TakenOnce
  BY DEF ThresholdInv
<1>3. /\ strayed \subseteq strayed'
      /\ key \notin strayed' => AtRest(sec) /\ key \notin ToSet(replaying)
  BY <1>1 DEF Strays
<1>4. ToSet(pending') = ToSet(pending) \ {key}
  BY <1>2, ToSetWithout DEF CancelThreshold, Unqueue, ThresholdTypes
<1>5. /\ \A t, s : Sent(t, s)' => Sent(t, s)
      /\ \A t, s : Sent(t, s) => Sent(t, s)' \/ <<t, s>> = key
      /\ DOMAIN fanout' \subseteq DOMAIN fanout /\ listeners' \subseteq listeners
      /\ seatIdle' \subseteq seatIdle
      /\ \A t, s : Sent(t, s)' => (s \in seatIdle' <=> s \in seatIdle)
      /\ SeatTypes' /\ DeadIsQuiet'
  <2>1. CASE live
    <3>1. TakeUnused({key}) /\ SeatTypes
      BY <2>1 DEF CancelThreshold
    <3>2. /\ \A t, s : Sent(t, s)' <=> Sent(t, s) /\ <<t, s>> \notin {key}
          /\ DOMAIN fanout' \subseteq DOMAIN fanout /\ listeners' \subseteq listeners
          /\ \A s \in DOMAIN fanout' : fanout'[s] \subseteq Nat
          /\ seatIdle' \subseteq seatIdle /\ IsFiniteSet(seatIdle')
          /\ \A t, s : Sent(t, s)' => (s \in seatIdle' <=> s \in seatIdle)
      <4> HIDE DEF SeatInv, key
      <4> QED
        BY <3>1, UnusedAreTaken
    <3>3. SeatTypes'
      BY <1>1, <3>1, <3>2 DEF SeatTypes
    <3>4. DeadIsQuiet'
      BY <1>1, <2>1 DEF DeadIsQuiet
    <3> HIDE DEF SeatInv, key
    <3> QED
      BY <3>2, <3>3, <3>4
  <2>2. CASE ~live
    <3>1. UNCHANGED <<fanout, listeners, seatIdle>>
      BY <2>2 DEF CancelThreshold
    <3>2. SeatTypes' /\ DeadIsQuiet'
      BY <1>1, <3>1 DEF SeatTypes, DeadIsQuiet
    <3> QED
      BY <3>1, <3>2 DEF Sent
  <2> QED
    BY <2>1, <2>2
<1>6. \A s \in Secs : <<tree, s>> = key => s = sec
  OBVIOUS
<1> HIDE DEF key
<1>7. TellsTheSeat'
  <2>1. \A s \in Secs : Sent(tree, s)' => (s \in seatIdle' <=> s \in seatIdle)
    BY <1>1, <1>5 DEF Sent
  <2>2. ASSUME NEW s \in Secs, <<tree, s>> \notin strayed'
        PROVE  Still(s) \/ (Sent(tree, s)' <=> Sent(tree, s))
    <3>1. CASE <<tree, s>> = key
      BY <1>3, <1>6, <2>2, <3>1, RestIsQuiet
    <3>2. CASE <<tree, s>> # key
      BY <1>1, <1>5, <3>2 DEF Sent
    <3> QED
      BY <3>1, <3>2
  <2>3. TellsTheSeat
    OBVIOUS
  <2> HIDE DEF SeatInv
  <2> QED
    BY <1>1, <1>2, <1>3, <2>1, <2>2, <2>3, EntryFrame
<1>8. WaitingIsQuiet'
  <2> SUFFICES ASSUME NEW s \in Secs, <<tree, s>> \notin strayed', Waits(s)'
               PROVE  Still(s)' /\ s \notin listeners' \union creating' \union DOMAIN fanout'
    BY <1>1 DEF WaitingIsQuiet
  <2>1. <<tree, s>> # key
    BY <1>1, <1>3, <1>4 DEF Waits
  <2>2. Waits(s)
    BY <1>1, <1>4, <1>5, <2>1 DEF Waits, Sent
  <2>3. Still(s) /\ s \notin listeners \union creating \union DOMAIN fanout
    BY <1>3, <2>2 DEF WaitingIsQuiet
  <2> QED
    BY <1>1, <1>5, <2>3, QuietStays
<1>9. NoneIsBorn'
  <2>1. NoneIsBorn
    OBVIOUS
  <2> HIDE DEF SeatInv
  <2> QED
    BY <1>1, <1>2, <1>5, <2>1, UnbornStays
<1>10. OfOneTree'
  BY <1>1, <1>4 DEF OfOneTree
<1> QED
  BY <1>5, <1>7, <1>8, <1>9, <1>10

(* With the tree goes all it wanted: what was not at rest goes astray.     *)
LEMMA ResetKeepsSeat ==
  ASSUME ThresholdInv, SeatInv, ResetThresholds
  PROVE  SeatInv'
<1> USE DEF setupVars, forwardVars, gateVars, Request, SeatInv
<1>1. /\ UNCHANGED eventVars
      /\ UNCHANGED <<replaying, drained, live, creating, tree, raw, fan, hand, blocked,
                     listeners, seatIdle>>
      /\ Strays({tree} \X Secs)
      /\ fanout' = IF live THEN [s \in DOMAIN fanout |-> fanout[s] \ {tree}] ELSE fanout
  BY DEF ResetThresholds, eventVars
<1>2. ThresholdTypes /\ TakenOnce
  BY DEF ThresholdInv
<1>3. /\ strayed \subseteq strayed'
      /\ \A s \in Secs : <<tree, s>> \notin strayed' =>
           AtRest(s) /\ <<tree, s>> \notin ToSet(replaying)
  BY <1>1 DEF Strays
<1>4. ToSet(pending') = ToSet(pending) \ ({tree} \X Secs)
  BY <1>2, ToSetWithout DEF ResetThresholds, Unqueue, ThresholdTypes
<1>5. /\ \A t, s : Sent(t, s)' => Sent(t, s)
      /\ DOMAIN fanout' = DOMAIN fanout
      /\ \A s \in DOMAIN fanout' : fanout'[s] \subseteq fanout[s]
  BY <1>1 DEF Sent
<1>6. SeatTypes' /\ DeadIsQuiet'
  BY <1>1, <1>5 DEF SeatTypes, DeadIsQuiet
<1>7. TellsTheSeat'
  <2>1. ASSUME NEW s \in Secs, <<tree, s>> \notin strayed' PROVE Still(s)
    BY <1>3, <2>1, RestIsQuiet
  <2>2. TellsTheSeat /\ \A s \in Secs : s \in seatIdle' <=> s \in seatIdle
    BY <1>1
  <2> HIDE DEF SeatInv
  <2> QED
    BY <1>1, <1>2, <1>3, <2>1, <2>2, EntryFrame
<1>8. WaitingIsQuiet'
  <2> SUFFICES ASSUME NEW s \in Secs, <<tree, s>> \notin strayed', Waits(s)'
               PROVE  FALSE
    BY <1>1 DEF WaitingIsQuiet
  <2> QED
    BY <1>1, <1>3, <1>4 DEF Waits
<1>9. NoneIsBorn'
  <2>1. NoneIsBorn
    OBVIOUS
  <2> HIDE DEF SeatInv
  <2> QED
    BY <1>1, <1>2, <1>5, <2>1, UnbornStays
<1>10. OfOneTree'
  BY <1>1, <1>4 DEF OfOneTree
<1> QED
  BY <1>6, <1>7, <1>8, <1>9, <1>10

(* The tree that comes has left no trace, in the queue, with the forwarder *)
(* or at the gate.                                                         *)
LEMMA ReplacedKeepsSeat ==
  ASSUME ThresholdInv, SeatInv, RendererReplacedHere
  PROVE  SeatInv'
<1> USE DEF setupVars, forwardVars, SeatInv
<1>1. /\ UNCHANGED <<replaying, drained, live, creating, raw, fan, hand, told, blocked>>
      /\ tree' = tree + 1 /\ Strays({tree} \X Secs)
      /\ idled' \subseteq idled
  BY DEF RendererReplacedHere
<1>2. ThresholdTypes /\ TakenOnce /\ tree \in Nat /\ pending \in Seq(Keys)
  BY DEF ThresholdInv, ThresholdTypes
<1>3. pending' \in Seq(Keys) /\ ToSet(pending') = ToSet(pending) \ ({tree} \X Secs)
  BY <1>2, ToSetWithout DEF RendererReplacedHere, Unqueue
<1>4. ToSet(pending') = {}
  <2>1. ASSUME NEW k \in ToSet(pending) PROVE k \in {tree} \X Secs
    <3>1. k \in Keys
      BY <1>2 DEF ToSet
    <3>2. k[1] = tree
      BY DEF OfOneTree
    <3> QED
      BY <3>1, <3>2 DEF Keys
  <2> QED
    BY <1>3, <2>1
<1>5. /\ \A t, s : Sent(t, s)' => Sent(t, s)
      /\ SeatTypes' /\ DeadIsQuiet'
  <2>1. CASE live
    <3>1. TakeUnused({tree} \X Secs) /\ SeatTypes
      BY <2>1 DEF RendererReplacedHere
    <3>2. /\ \A t, s : Sent(t, s)' <=> Sent(t, s) /\ <<t, s>> \notin {tree} \X Secs
          /\ \A s \in DOMAIN fanout' : fanout'[s] \subseteq Nat
          /\ seatIdle' \subseteq seatIdle /\ IsFiniteSet(seatIdle')
      <4> HIDE DEF SeatInv
      <4> QED
        BY <3>1, UnusedAreTaken
    <3>3. SeatTypes'
      BY <1>1, <3>1, <3>2 DEF SeatTypes
    <3>4. DeadIsQuiet'
      BY <1>1, <2>1 DEF DeadIsQuiet
    <3> QED
      BY <3>2, <3>3, <3>4
  <2>2. CASE ~live
    <3>1. UNCHANGED <<fanout, listeners, seatIdle>>
      BY <2>2 DEF RendererReplacedHere
    <3>2. SeatTypes' /\ DeadIsQuiet'
      BY <1>1, <3>1 DEF SeatTypes, DeadIsQuiet
    <3> QED
      BY <3>1, <3>2 DEF Sent
  <2> QED
    BY <2>1, <2>2
<1>6. \A t \in Nat : t > tree => Unborn(t)'
  <2> SUFFICES ASSUME NEW t \in Nat, t > tree PROVE Unborn(t)'
    OBVIOUS
  <2>1. Unborn(t)
    BY DEF NoneIsBorn
  <2>2. \A s \in Secs : Silent(t, s) => Silent(t, s)'
    BY <1>1 DEF Silent, OnItsWay, InHand
  <2> QED
    BY <1>1, <1>5, <2>1, <2>2 DEF Unborn
<1>7. tree' \in Nat /\ tree' > tree /\ \A t \in Nat : t > tree' => t > tree
  BY <1>1, <1>2
<1>8. NoneIsBorn'
  BY <1>6, <1>7 DEF NoneIsBorn
<1>9. TellsTheSeat'
  <2>1. PICK n \in Nat : n = tree' /\ n > tree
    BY <1>7
  <2>2. \A s \in Secs : ~Sent(n, s)' /\ Silent(n, s)'
    BY <1>6, <2>1 DEF Unborn
  <2>3. \A s \in Secs : ~Sent(tree, s)' /\ Silent(tree, s)'
    BY <2>1, <2>2 DEF Sent, Silent, OnItsWay, InHand
  <2> QED
    BY <2>3 DEF TellsTheSeat
<1>10. WaitingIsQuiet'
  <2>1. \A k \in ToSet(replaying') : k[1] # tree'
    <3>1. PICK n \in Nat : n = tree' /\ n > tree
      BY <1>7
    <3> QED
      BY <1>6, <3>1 DEF Unborn
  <2>2. \A s : <<tree', s>>[1] = tree'
    OBVIOUS
  <2>3. \A s \in Secs : ~Waits(s)'
    BY <1>4, <2>1, <2>2 DEF Waits
  <2> QED
    BY <2>3 DEF WaitingIsQuiet
<1>11. OfOneTree'
  BY <1>1, <1>4 DEF OfOneTree
<1> QED
  BY <1>5, <1>8, <1>9, <1>10, <1>11

(* The replay gives the entries that waited, each at a quiet threshold.    *)
LEMMA ReplayKeepsSeat ==
  ASSUME ThresholdInv, SeatInv, ReplayEntry
  PROVE  SeatInv'
<1> USE DEF seatVars, forwardVars, gateVars, SeatInv
<1> DEFINE key == Head(replaying)
<1>1. /\ UNCHANGED eventVars
      /\ UNCHANGED <<drained, live, pending, tree, seatIdle, raw, fan, hand, blocked, listeners>>
      /\ live /\ replaying # <<>> /\ replaying' = Tail(replaying)
      /\ strayed' = strayed \union {k \in {key} : ~AtRest(k[2])}
      /\ fanout' = Entry(key[1], key[2])
      /\ creating' \subseteq {key[2]}
  BY DEF ReplayEntry, eventVars
<1>2. ThresholdTypes /\ TakenOnce /\ drained /\ replaying \in Seq(Keys)
  BY <1>1 DEF ThresholdInv, ThresholdTypes, TakenOnce
<1>3. key \in Keys /\ key[1] \in Nat /\ key[2] \in Secs /\ key = <<key[1], key[2]>>
  <2>1. key \in Keys
    BY <1>1, <1>2
  <2> HIDE DEF key
  <2> QED
    BY <2>1 DEF Keys
<1>4. ToSet(replaying) = {key} \union ToSet(replaying')
  <2> HIDE DEF SeatInv
  <2> QED
    BY <1>1, <1>2, ToSetOf
<1> HIDE DEF key
<1>5. strayed \subseteq strayed' /\ (key \notin strayed' => AtRest(key[2]))
  BY <1>1
<1>6. /\ \A t, s : Sent(t, s)' <=> Sent(t, s) \/ (t = key[1] /\ s = key[2])
      /\ DOMAIN fanout' = DOMAIN fanout \union {key[2]}
      /\ \A s \in DOMAIN fanout' : fanout'[s] \subseteq Nat
  <2>1. \A s \in DOMAIN fanout : fanout[s] \subseteq Nat
    BY DEF SeatTypes
  <2> HIDE DEF SeatInv
  <2> QED
    BY <1>1, <1>3, <2>1, EntryIsSent
<1>7. SeatTypes' /\ DeadIsQuiet'
  BY <1>1, <1>6 DEF SeatTypes, DeadIsQuiet
<1>8. TellsTheSeat'
  <2>1. ASSUME NEW s \in Secs, <<tree, s>> \notin strayed'
        PROVE  Still(s) \/ (Sent(tree, s)' <=> Sent(tree, s))
    <3>1. CASE tree = key[1] /\ s = key[2]
      <4>1. AtRest(s)
        BY <1>3, <1>5, <2>1, <3>1
      <4> QED
        BY <4>1, RestIsQuiet
    <3>2. CASE ~(tree = key[1] /\ s = key[2])
      BY <1>1, <1>6, <3>2 DEF Sent
    <3> QED
      BY <3>1, <3>2
  <2>2. TellsTheSeat /\ \A s \in Secs : s \in seatIdle' <=> s \in seatIdle
    BY <1>1
  <2> HIDE DEF SeatInv
  <2> QED
    BY <1>1, <1>2, <1>5, <2>1, <2>2, EntryFrame
<1>9. WaitingIsQuiet'
  <2> SUFFICES ASSUME NEW s \in Secs, <<tree, s>> \notin strayed', Waits(s)'
               PROVE  Still(s)' /\ s \notin listeners' \union creating' \union DOMAIN fanout'
    BY <1>1 DEF WaitingIsQuiet
  <2>1. <<tree, s>> \in ToSet(replaying')
    BY <1>1, <1>2 DEF Waits, OfOneTree
  <2>2. key[1] = tree
    <3>1. <<tree, s>>[1] = key[1]
      BY <1>4, <2>1 DEF OfOneTree
    <3> QED
      BY <3>1
  <2>3. ~Sent(tree, s)'
    BY <1>1 DEF Waits, Sent
  <2>4. s # key[2] /\ ~Sent(tree, s)
    <3>1. Sent(tree, s)' <=> Sent(tree, s) \/ (tree = key[1] /\ s = key[2])
      BY <1>1, <1>6 DEF Sent
    <3> QED
      BY <2>2, <2>3, <3>1
  <2>5. Waits(s)
    BY <1>4, <2>1, <2>4 DEF Waits
  <2>6. Still(s) /\ s \notin listeners \union creating \union DOMAIN fanout
    BY <1>5, <2>5 DEF WaitingIsQuiet
  <2> QED
    BY <1>1, <1>6, <2>4, <2>6, QuietStays
<1>10. NoneIsBorn'
  <2>1. NoneIsBorn
    OBVIOUS
  <2>2. \A t \in Nat : t > tree => t # key[1]
    BY <1>4 DEF NoneIsBorn, Unborn
  <2>3. \A t \in Nat, s \in Secs : t > tree /\ Sent(t, s)' => Sent(t, s)
    BY <1>6, <2>2
  <2>4. \A k \in ToSet(replaying') : k \in ToSet(replaying)
    BY <1>4
  <2> HIDE DEF SeatInv
  <2> QED
    BY <1>1, <1>2, <2>1, <2>3, <2>4, UnbornStays
<1>11. OfOneTree'
  BY <1>1, <1>4 DEF OfOneTree
<1> QED
  BY <1>7, <1>8, <1>9, <1>10, <1>11

LEMMA SetupKeepsSeat ==
  ASSUME ThresholdInv, SeatInv, GoesLive \/ Drain \/ ReplayListener
  PROVE  SeatInv'
<1> USE DEF seatVars, forwardVars, gateVars, treeVars, SeatInv
<1>1. /\ UNCHANGED eventVars
      /\ UNCHANGED <<raw, fan, hand, told, blocked, idled, tree, fanout, seatIdle, strayed>>
  BY DEF GoesLive, Drain, ReplayListener, eventVars
<1>2. ThresholdTypes /\ TakenOnce
  BY DEF ThresholdInv
<1>3. \A t, s : Sent(t, s)' <=> Sent(t, s)
  BY <1>1 DEF Sent
<1>4. SeatTypes'
  BY <1>1 DEF SeatTypes
<1>5. TellsTheSeat'
  <2>1. TellsTheSeat /\ \A s \in Secs : Sent(tree, s)' <=> Sent(tree, s)
    BY <1>1 DEF Sent
  <2>2. \A s \in Secs : s \in seatIdle' <=> s \in seatIdle
    BY <1>1
  <2>3. strayed \subseteq strayed'
    BY <1>1
  <2> HIDE DEF SeatInv
  <2> QED
    BY <1>1, <1>2, <2>1, <2>2, <2>3, EntryFrame
<1>6. /\ ToSet(pending') \union ToSet(replaying') = ToSet(pending) \union ToSet(replaying)
      /\ listeners' \union creating' = listeners \union creating
      /\ OfOneTree' /\ DeadIsQuiet'
      /\ \A k \in ToSet(replaying') : k[1] = tree \/ k \in ToSet(replaying)
  <2>1. CASE GoesLive
    BY <2>1 DEF GoesLive, OfOneTree, DeadIsQuiet
  <2>2. CASE Drain
    <3>1. /\ live /\ ~drained /\ UNCHANGED <<live, creating, listeners, tree>>
          /\ replaying' = pending /\ pending' = <<>>
      BY <2>2 DEF Drain, MayDrain
    <3>2. replaying = <<>> /\ ToSet(<<>>) = {}
      BY <1>2, <3>1 DEF TakenOnce, ToSet
    <3> QED
      BY <3>1, <3>2 DEF OfOneTree, DeadIsQuiet
  <2>3. CASE ReplayListener
    BY <2>3 DEF ReplayListener, OfOneTree, DeadIsQuiet
  <2> QED
    BY <2>1, <2>2, <2>3
<1>7. WaitingIsQuiet'
  <2> SUFFICES ASSUME NEW s \in Secs, <<tree, s>> \notin strayed', Waits(s)'
               PROVE  Still(s)' /\ s \notin listeners' \union creating' \union DOMAIN fanout'
    BY <1>1 DEF WaitingIsQuiet
  <2>1. Waits(s)
    BY <1>1, <1>6 DEF Waits, Sent
  <2>2. Still(s) /\ s \notin listeners \union creating \union DOMAIN fanout
    BY <1>1, <2>1 DEF WaitingIsQuiet
  <2> QED
    BY <1>1, <1>6, <2>2, QuietStays
<1>8. NoneIsBorn'
  <2>1. NoneIsBorn /\ tree \in Nat
    BY <1>2 DEF ThresholdTypes
  <2>2. \A t \in Nat : \A k \in ToSet(replaying') : t > tree /\ k[1] = t => k \in ToSet(replaying)
    BY <1>6, <2>1
  <2> HIDE DEF SeatInv
  <2> QED
    BY <1>1, <1>2, <1>3, <2>1, <2>2, UnbornStays
<1> QED
  BY <1>4, <1>5, <1>6, <1>7, <1>8

(* A threshold the tree registered was told idle exactly when the seat is  *)
(* idle at it and the gate is open, once the events are out (gate.rs:      *)
(* observe, set_blocked; notify.rs: spawn_idle_event_forwarder).           *)
THEOREM TreeKnowsTheSeat == ThresholdSpec => []ToldWhatTheSeatIs
<1>1. ASSUME ThresholdInit
      PROVE  SeatInv
  <2>1. DOMAIN fanout = {} /\ Len(raw) = 0 /\ ToSet(pending) = {} /\ ToSet(replaying) = {}
    BY <1>1 DEF ThresholdInit, ToSet
  <2>2. fan \in Forwarded /\ hand \in Forwarded /\ fan.to = {} /\ hand.to = {}
    BY <1>1 DEF ThresholdInit, Nothing, Forwarded
  <2>3. SeatTypes
    <3>1. IsFiniteSet({}) /\ raw \in Seq(Events)
      BY <1>1, FS_EmptySet DEF ThresholdInit
    <3> QED
      BY <1>1, <2>1, <2>2, <3>1 DEF ThresholdInit, SeatTypes
  <2>4. \A t, s : ~Sent(t, s) /\ Silent(t, s)
    BY <1>1, <2>1, <2>2 DEF ThresholdInit, Sent, Silent, OnItsWay, InHand
  <2>5. TellsTheSeat /\ NoneIsBorn
    BY <2>1, <2>4 DEF TellsTheSeat, NoneIsBorn, Unborn
  <2>6. WaitingIsQuiet /\ OfOneTree
    BY <2>1 DEF WaitingIsQuiet, Waits, OfOneTree
  <2>7. DeadIsQuiet
    BY <1>1, <2>2 DEF ThresholdInit, DeadIsQuiet
  <2> QED
    BY <2>3, <2>5, <2>6, <2>7 DEF SeatInv
<1>2. ASSUME ThresholdInv, SeatInv, [ThresholdNext]_thresholdVars
      PROVE  SeatInv'
  <2>1. ThresholdTypes
    BY <1>2 DEF ThresholdInv
  <2>2. CASE \E sec \in Secs : RegisterThreshold(sec) \/ CancelThreshold(sec) \/ CompositorIdles(sec)
    BY <1>2, <2>1, <2>2, RegisterKeepsSeat, CancelKeepsSeat, IdlesKeeps
  <2>3. CASE ResetThresholds \/ RendererReplacedHere
    BY <1>2, <2>3, ResetKeepsSeat, ReplacedKeepsSeat
  <2>4. CASE GoesLive \/ Drain \/ ReplayEntry \/ ReplayListener
    BY <1>2, <2>4, SetupKeepsSeat, ReplayKeepsSeat
  <2>5. CASE CompositorResumes \/ ReadRaw \/ SendEvent \/ SetBlocked
    BY <1>2, <2>1, <2>5, ResumesKeeps, ReadKeeps, SendKeeps, BlockKeeps
  <2>6. CASE \E tr \in Trees : PassGate(tr)
    BY <1>2, <2>1, <2>6, PassKeeps
  <2>7. CASE UNCHANGED thresholdVars
    <3>1. /\ UNCHANGED entryVars
          /\ UNCHANGED <<seatIdle, raw, fan, hand, blocked, idled, told, strayed, fanout>>
      BY <2>7 DEF thresholdVars, entryVars
    <3>2. SeatTypes' /\ DeadIsQuiet'
      BY <1>2, <3>1 DEF SeatInv, SeatTypes, DeadIsQuiet, entryVars
    <3>3. /\ \A s \in Secs : Follows(s) => Follows(s)'
          /\ \A s \in Secs, t \in Nat : Silent(t, s) => Silent(t, s)'
          /\ \A s \in Secs : Still(s) => Still(s)'
      BY <3>1 DEF Follows, Silent, Still, Unread, Announced, OnItsWay, InHand, entryVars
    <3> QED
      BY <1>2, <2>1, <3>1, <3>2, <3>3, SeatFrame
  <2> QED
    BY <1>2, <2>2, <2>3, <2>4, <2>5, <2>6, <2>7 DEF ThresholdNext
<1>3. ASSUME ThresholdInv, SeatInv
      PROVE  ToldWhatTheSeatIs
  <2> SUFFICES ASSUME raw = <<>>, fan.to = {}, hand = Nothing, NEW k \in wanted \ strayed
               PROVE  k \in told <=> k[2] \in seatIdle /\ ~blocked
    BY DEF ToldWhatTheSeatIs
  <2>1. PICK s \in Secs : k = <<tree, s>>
    BY <1>3 DEF ThresholdInv, ThresholdTypes
  <2>2. ~Unread(s) /\ ~OnItsWay(tree, s) /\ ~InHand(tree, s)
    <3>1. Len(raw) = 0 /\ hand.to = {}
      BY DEF Nothing
    <3> QED
      BY <3>1 DEF Unread, Mentions, OnItsWay, InHand
  <2>3. CASE Sent(tree, s)
    <3>1. Follows(s)
      BY <1>3, <2>1, <2>3 DEF SeatInv, TellsTheSeat
    <3> QED
      BY <2>1, <2>2, <3>1 DEF Follows
  <2>4. CASE ~Sent(tree, s)
    <3>1. Waits(s)
      <4>1. Heard(<<tree, s>>)
        BY <1>3, <2>1 DEF ThresholdInv
      <4> QED
        BY <2>4, <4>1 DEF Heard, Waits, Sent
    <3>2. Still(s) /\ Silent(tree, s)
      BY <1>3, <2>1, <2>4, <3>1 DEF SeatInv, WaitingIsQuiet, TellsTheSeat
    <3> QED
      BY <2>1, <3>2 DEF Still, Silent
  <2> QED
    BY <2>3, <2>4
<1> QED
  BY <1>1, <1>2, <1>3, ThresholdsInvariant, PTL DEF ThresholdSpec
=============================================================================
