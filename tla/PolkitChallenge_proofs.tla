----------------------- MODULE PolkitChallenge_proofs -----------------------
(***************************************************************************)
(* What PolkitChallenge promises polkitd and the dialog, for every set of  *)
(* calls, every queue bound and any number of generations, over a channel  *)
(* whose own lemmas come first.                                            *)
(***************************************************************************)
EXTENDS PolkitChallenge, SequenceTheorems, FiniteSetTheorems, TLAPS

-----------------------------------------------------------------------------
(* SnapshotChannel, for any component that publishes over it: its steps and  *)
(* the component's pushes keep ChannelInv, and ChannelInv gives the two      *)
(* properties of the channel.                                                *)

Absent(c, seq) == \A i \in 1..Len(seq) : seq[i].capability # c

(* The last frame of capability c in seq is frame.                         *)
Final(c, seq, frame) ==
  \E i \in 1..Len(seq) :
    /\ seq[i] = frame /\ frame.capability = c
    /\ \A j \in 1..Len(seq) : j > i => seq[j].capability # c

Functions ==
  /\ authoritative \in Nat
  /\ revisions \in [Capabilities -> Nat]
  /\ last = [c \in Capabilities |-> last[c]]
  /\ shown = [c \in Capabilities |-> shown[c]]
  /\ \E S : pipe \in Seq(S)

(* What is kept for replay is what was sent last, and nothing is sent of a *)
(* capability that was never pushed.                                       *)
Kept ==
  \A c \in Capabilities :
    /\ last[c].revision = revisions[c]
    /\ last[c] # Unset => last[c].capability = c
    /\ last[c] = Unset => shown[c] = Unset /\ Absent(c, pipe)

(* Every frame on the way is no older than the one before it.              *)
Ordered ==
  /\ \A i \in 1..Len(pipe) :
       /\ pipe[i].capability \in Capabilities
       /\ pipe[i].revision \in Nat
       /\ pipe[i].revision <= revisions[pipe[i].capability]
       /\ shown[pipe[i].capability].revision <= pipe[i].revision
       /\ \A j \in 1..Len(pipe) :
            i <= j /\ pipe[i].capability = pipe[j].capability
              => pipe[i].revision <= pipe[j].revision
  /\ \A c \in Capabilities :
       shown[c].revision \in Nat /\ shown[c].revision <= revisions[c]

(* A hydrated Renderer reads the last push or has it on the way.           *)
Arriving ==
  link = "hydrated" =>
    \A c \in Capabilities :
      \/ Absent(c, pipe) /\ shown[c] = last[c]
      \/ Final(c, pipe, last[c])

ChannelInv == Functions /\ Kept /\ Ordered /\ Arriving

-----------------------------------------------------------------------------
(* What appending does to the queue.                                       *)
LEMMA Appended ==
  ASSUME NEW S, pipe \in Seq(S), NEW T, NEW batch \in Seq(T)
  PROVE  /\ \E U : pipe \o batch \in Seq(U)
         /\ Len(pipe \o batch) = Len(pipe) + Len(batch)
         /\ \A i \in 1..Len(pipe) : (pipe \o batch)[i] = pipe[i]
         /\ \A i \in 1..Len(batch) : (pipe \o batch)[Len(pipe) + i] = batch[i]
         /\ Len(pipe) \in Nat /\ Len(batch) \in Nat
<1>1. pipe \in Seq(S \union T) /\ batch \in Seq(S \union T)
  OBVIOUS
<1>2. Len(pipe) \in Nat /\ Len(batch) \in Nat
  BY LenProperties
<1> QED
  BY <1>1, <1>2, ConcatProperties

(* The first k frames are appended to the queue.                           *)
Gains(batch, k) ==
  /\ \E U : pipe' \in Seq(U)
  /\ Len(pipe') = Len(pipe) + k
  /\ \A i \in 1..Len(pipe) : pipe'[i] = pipe[i]
  /\ \A i \in 1..k : pipe'[Len(pipe) + i] = batch[i]

(* A send appends every frame, or hangs up, or has nobody to send to.      *)
LEMMA Sent ==
  ASSUME NEW S, pipe \in Seq(S), NEW T, NEW batch \in Seq(T), NEW connected,
         Sends(batch, connected)
  PROVE  \/ ~InRegistry /\ link' = link /\ pipe' = pipe
         \/ Gains(batch, Len(batch)) /\ link' = connected
         \/ /\ link' = "wedged"
            /\ \E k \in 0..Len(batch) : Gains(batch, k)
<1>1. CASE ~InRegistry /\ UNCHANGED <<link, pipe>>
  BY <1>1
<1>2. CASE link' = connected /\ pipe' = pipe \o batch
  BY <1>2, Appended DEF Gains
<1>3. CASE /\ link' = "wedged" /\ Len(pipe) + Len(batch) > MaxOutbound
           /\ pipe' = pipe \o SubSeq(batch, 1, MaxOutbound - Len(pipe))
  <2> DEFINE room == MaxOutbound - Len(pipe)
             head == SubSeq(batch, 1, room)
             k == IF room < 1 THEN 0 ELSE room
  <2>1. /\ Len(pipe) \in Nat /\ Len(batch) \in Nat /\ MaxOutbound \in Nat
        /\ batch \in Seq(T)
    BY LenProperties, ChannelAssumption
  <2>2. k \in 0..Len(batch) /\ room \in Int
    BY <1>3, <2>1
  <2>3. /\ head \in Seq(T) /\ Len(head) = k
        /\ \A i \in 1..k : head[i] = batch[i]
    BY <2>1, <2>2, SubSeqProperties
  <2> HIDE DEF head, k
  <2>4. pipe' = pipe \o head
    BY <1>3 DEF head
  <2>5. Gains(batch, k)
    BY <2>3, <2>4, Appended DEF Gains
  <2> QED
    BY <1>3, <2>2, <2>5
<1> QED
  BY <1>1, <1>2, <1>3, Zenon DEF Sends

(* Before the first push.                                                  *)
LEMMA ChannelInitInv == ChannelInit => ChannelInv
<1> SUFFICES ASSUME ChannelInit PROVE ChannelInv
  OBVIOUS
<1> USE DEF ChannelInit
<1>1. pipe \in Seq({}) /\ Len(pipe) = 0
  OBVIOUS
<1>2. Functions
  BY <1>1 DEF Functions
<1>3. Kept
  BY <1>1 DEF Kept, Absent, Unset
<1>4. Ordered
  BY <1>1 DEF Ordered, Unset
<1>5. Arriving
  BY DEF Arriving
<1> QED
  BY <1>2, <1>3, <1>4, <1>5 DEF ChannelInv

(* push_snapshot keeps the invariant.                                      *)
LEMMA PushInv ==
  ASSUME ChannelInv, NEW capability \in Capabilities, NEW payload,
         Push(capability, payload)
  PROVE  ChannelInv'
<1> DEFINE snapshot == [capability |-> capability, payload |-> payload,
                        revision |-> revisions[capability] + 1]
<1>1. /\ revisions' = [revisions EXCEPT ![capability] = @ + 1]
      /\ last' = [last EXCEPT ![capability] = snapshot]
      /\ shown' = shown /\ authoritative' = authoritative
      /\ Sends(<<snapshot>>, link)
  BY DEF Push
<1>2. PICK S : pipe \in Seq(S)
  BY DEF ChannelInv, Functions
<1>3. /\ <<snapshot>> \in Seq({snapshot})
      /\ Len(<<snapshot>>) = 1 /\ <<snapshot>>[1] = snapshot
  OBVIOUS
<1>4. /\ snapshot.capability = capability
      /\ snapshot.revision = revisions[capability] + 1
      /\ snapshot # Unset
  <2>1. revisions[capability] \in Nat
    BY DEF ChannelInv, Functions
  <2> QED
    BY <2>1 DEF Unset
<1> HIDE DEF snapshot
<1>5. /\ Functions /\ Kept /\ Ordered /\ Arriving
      /\ Len(pipe) \in Nat
  BY <1>2, LenProperties DEF ChannelInv
<1>6. /\ \A c \in Capabilities :
            /\ revisions'[c] = IF c = capability THEN revisions[c] + 1
                               ELSE revisions[c]
            /\ last'[c] = IF c = capability THEN snapshot ELSE last[c]
      /\ revisions' \in [Capabilities -> Nat]
      /\ last' = [c \in Capabilities |-> last'[c]]
      /\ \A c \in Capabilities : revisions[c] \in Nat
  <2>1. revisions \in [Capabilities -> Nat]
    BY <1>5 DEF Functions
  <2>2. last = [c \in Capabilities |-> last[c]]
    BY <1>5 DEF Functions
  <2>3. \A c \in Capabilities :
          revisions'[c] = IF c = capability THEN revisions[c] + 1
                          ELSE revisions[c]
    BY <1>1, <2>1
  <2>4. revisions' \in [Capabilities -> Nat]
    BY <1>1, <2>1
  <2>5. /\ last' = [c \in Capabilities |-> last'[c]]
        /\ \A c \in Capabilities :
             last'[c] = IF c = capability THEN snapshot ELSE last[c]
    BY <1>1, <2>2
  <2> QED
    BY <2>1, <2>3, <2>4, <2>5
<1>7. CASE ~InRegistry /\ link' = link /\ pipe' = pipe
  <2>1. Functions'
    BY <1>1, <1>2, <1>6, <1>7, <1>5 DEF Functions
  <2>2. Kept'
    BY <1>1, <1>4, <1>5, <1>6, <1>7 DEF Kept, Absent
  <2>3. Ordered'
    BY <1>1, <1>5, <1>6, <1>7 DEF Ordered
  <2>4. Arriving'
    BY <1>7 DEF Arriving, InRegistry
  <2> QED
    BY <2>1, <2>2, <2>3, <2>4 DEF ChannelInv
<1>8. ASSUME NEW k \in 0..1, Gains(<<snapshot>>, k),
             link' = "wedged" \/ (k = 1 /\ link' = link)
      PROVE  ChannelInv'
  <2>0. /\ \E U : pipe' \in Seq(U)
        /\ Len(pipe') = Len(pipe) + k
        /\ \A i \in 1..Len(pipe) : pipe'[i] = pipe[i]
        /\ k = 1 => pipe'[Len(pipe) + 1] = snapshot
    BY <1>3, <1>8 DEF Gains
  <2>1. Functions'
    BY <1>1, <1>6, <2>0, <1>5 DEF Functions
  <2>2. Kept'
    <3> SUFFICES ASSUME NEW c \in Capabilities
                 PROVE  /\ last'[c].revision = revisions'[c]
                        /\ last'[c] # Unset => last'[c].capability = c
                        /\ last'[c] = Unset => shown'[c] = Unset /\ Absent(c, pipe')
      BY DEF Kept, Absent
    <3>1. CASE c = capability
      BY <1>4, <1>6, <3>1
    <3>2. CASE c # capability
      <4>1. /\ last'[c] = last[c] /\ revisions'[c] = revisions[c]
            /\ last[c].revision = revisions[c]
            /\ last[c] # Unset => last[c].capability = c
            /\ last[c] = Unset => shown[c] = Unset /\ Absent(c, pipe)
        BY <1>5, <1>6, <3>2 DEF Kept
      <4>2. Absent(c, pipe) => Absent(c, pipe')
        BY <1>4, <1>5, <2>0, <3>2 DEF Absent
      <4> QED
        BY <1>1, <4>1, <4>2
    <3> QED
      BY <3>1, <3>2
  <2>3. Ordered'
    <3>1. ASSUME NEW i \in 1..Len(pipe')
          PROVE  /\ pipe'[i].capability \in Capabilities
                 /\ pipe'[i].revision \in Nat
                 /\ pipe'[i].revision <= revisions'[pipe'[i].capability]
                 /\ shown'[pipe'[i].capability].revision <= pipe'[i].revision
      BY <1>1, <1>4, <1>5, <1>6, <1>8, <2>0 DEF Ordered
    <3>2. ASSUME NEW i \in 1..Len(pipe'), NEW j \in 1..Len(pipe'),
                 i <= j, pipe'[i].capability = pipe'[j].capability
          PROVE  pipe'[i].revision <= pipe'[j].revision
      <4>1. CASE j \in 1..Len(pipe)
        BY <1>5, <2>0, <3>2, <4>1 DEF Ordered
      <4>2. CASE j = Len(pipe) + 1 /\ i \in 1..Len(pipe)
        BY <1>4, <1>5, <1>6, <2>0, <3>2, <4>2 DEF Ordered
      <4>3. CASE j = Len(pipe) + 1 /\ i = Len(pipe) + 1
        BY <1>4, <1>6, <2>0, <4>3
      <4> QED
        BY <1>5, <2>0, <4>1, <4>2, <4>3
    <3>3. \A c \in Capabilities :
            shown'[c].revision \in Nat /\ shown'[c].revision <= revisions'[c]
      BY <1>1, <1>5, <1>6 DEF Ordered
    <3> QED
      BY <3>1, <3>2, <3>3 DEF Ordered
  <2>4. Arriving'
    <3> SUFFICES ASSUME link' = "hydrated", NEW c \in Capabilities
                 PROVE  \/ Absent(c, pipe') /\ shown'[c] = last'[c]
                        \/ Final(c, pipe', last'[c])
      BY DEF Arriving, Absent, Final
    <3>1. CASE c = capability
      <4>0. k = 1 /\ last'[c] = snapshot
        BY <1>6, <1>8, <3>1
      <4>1. Len(pipe) + 1 \in 1..Len(pipe')
        BY <1>5, <2>0, <4>0
      <4>2. \A j \in 1..Len(pipe') : ~(j > Len(pipe) + 1)
        BY <1>5, <2>0, <4>0
      <4>3. Final(c, pipe', snapshot)
        BY <1>4, <2>0, <3>1, <4>0, <4>1, <4>2 DEF Final
      <4> QED
        BY <4>0, <4>3
    <3>2. CASE c # capability /\ Absent(c, pipe) /\ shown[c] = last[c]
      BY <1>1, <1>4, <1>5, <1>6, <2>0, <3>2 DEF Absent
    <3>3. CASE c # capability /\ Final(c, pipe, last[c])
      <4>0. last'[c] = last[c]
        BY <1>6, <3>3
      <4>1. PICK i \in 1..Len(pipe) :
              /\ pipe[i] = last[c] /\ last[c].capability = c
              /\ \A j \in 1..Len(pipe) : j > i => pipe[j].capability # c
        BY <3>3 DEF Final
      <4>2. i \in 1..Len(pipe') /\ pipe'[i] = last[c]
        BY <1>5, <2>0, <4>1
      <4>3. \A j \in 1..Len(pipe') : j > i => pipe'[j].capability # c
        <5> SUFFICES ASSUME NEW j \in 1..Len(pipe'), j > i
                     PROVE  pipe'[j].capability # c
          OBVIOUS
        <5>1. CASE j \in 1..Len(pipe)
          BY <2>0, <4>1, <5>1
        <5>2. CASE j = Len(pipe) + 1
          <6>1. pipe'[j] = snapshot /\ snapshot.capability = capability
            BY <1>4, <2>0, <5>2
          <6> QED
            BY <3>3, <6>1
        <5> QED
          BY <1>5, <2>0, <5>1, <5>2
      <4>4. Final(c, pipe', last[c])
        BY <4>1, <4>2, <4>3 DEF Final
      <4> QED
        BY <4>0, <4>4
    <3> QED
      BY <1>5, <1>8, <3>1, <3>2, <3>3 DEF Arriving
  <2> QED
    BY <2>1, <2>2, <2>3, <2>4 DEF ChannelInv
<1>9. \/ ~InRegistry /\ link' = link /\ pipe' = pipe
      \/ Gains(<<snapshot>>, 1) /\ link' = link
      \/ link' = "wedged" /\ \E k \in 0..1 : Gains(<<snapshot>>, k)
  BY <1>1, <1>2, <1>3, Sent
<1> QED
  BY <1>7, <1>8, <1>9

(* The replay keeps the invariant, and brings a newcomer up to date.       *)
LEMMA HydrateInv ==
  ASSUME ChannelInv, Hydrate
  PROVE  ChannelInv'
<1> DEFINE N == Cardinality(Known)
<1>1. /\ Functions /\ Kept /\ Ordered
      /\ UNCHANGED <<authoritative, revisions, last, shown>>
      /\ link = "registered"
  BY DEF ChannelInv, Hydrate
<1>2. PICK S : pipe \in Seq(S) /\ Len(pipe) \in Nat
  BY <1>1, LenProperties DEF Functions
<1>3. N \in Nat
  BY ChannelAssumption, FS_Subset, FS_CardinalityType DEF Known
<1>4. PICK f \in Orders : Sends([i \in 1..N |-> last[f[i]]], "hydrated")
  BY DEF Hydrate, Replays
<1> DEFINE batch == [i \in 1..N |-> last[f[i]]]
<1> HIDE DEF N
<1>5. /\ \A i \in 1..N : f[i] \in Known
      /\ \A c \in Known : \E i \in 1..N : \A j \in 1..N : f[j] = c <=> j = i
  BY DEF Orders, N
<1>6. /\ batch \in Seq({last[c] : c \in Capabilities})
      /\ Len(batch) = N
      /\ \A i \in 1..N : batch[i] = last[f[i]]
  BY <1>3, <1>5 DEF Known
<1> HIDE DEF batch
<1>7. \A i \in 1..N : /\ f[i] \in Capabilities
                      /\ batch[i].capability = f[i]
                      /\ batch[i].revision = revisions[f[i]]
                      /\ last[f[i]] # Unset
  BY <1>1, <1>5, <1>6 DEF Kept, Known
<1>8. \A c \in Capabilities : revisions[c] \in Nat
  BY <1>1 DEF Functions
<1>9. ASSUME NEW k \in 0..N, Gains(batch, k),
             link' = "wedged" \/ (k = N /\ link' = "hydrated")
      PROVE  ChannelInv'
  <2>1. /\ \E U : pipe' \in Seq(U)
        /\ Len(pipe') = Len(pipe) + k
        /\ \A i \in 1..Len(pipe) : pipe'[i] = pipe[i]
        /\ \A i \in 1..k : pipe'[Len(pipe) + i] = batch[i]
        /\ k \in 0..N
    BY <1>9 DEF Gains
  <2>2. \A i \in 1..Len(pipe') :
          \/ i \in 1..Len(pipe) /\ pipe'[i] = pipe[i]
          \/ \E n \in 1..k : i = Len(pipe) + n /\ pipe'[i] = batch[n]
    <3> SUFFICES ASSUME NEW i \in 1..Len(pipe'), i \notin 1..Len(pipe)
                 PROVE  i - Len(pipe) \in 1..k /\ i = Len(pipe) + (i - Len(pipe))
      BY <2>1
    <3> QED
      BY <1>2, <1>3, <2>1
  <2>3. ASSUME NEW i \in 1..Len(pipe'), i \notin 1..Len(pipe)
        PROVE  /\ pipe'[i].capability \in Capabilities
               /\ pipe'[i].revision = revisions[pipe'[i].capability]
               /\ last[pipe'[i].capability] # Unset
    <3>1. PICK n \in 1..k : i = Len(pipe) + n /\ pipe'[i] = batch[n]
      BY <2>2, <2>3
    <3>2. n \in 1..N
      BY <1>3, <2>1
    <3> QED
      BY <1>7, <3>1, <3>2, Zenon, SMTT(30)
  <2>4. Functions'
    BY <1>1, <2>1 DEF Functions
  <2>5. Kept'
    <3> SUFFICES ASSUME NEW c \in Capabilities, last[c] = Unset
                 PROVE  Absent(c, pipe')
      BY <1>1 DEF Kept
    <3>1. ASSUME NEW i \in 1..Len(pipe')
          PROVE  pipe'[i].capability # c
      <4>1. CASE i \in 1..Len(pipe)
        BY <1>1, <2>1, <4>1 DEF Kept, Absent
      <4>2. CASE i \notin 1..Len(pipe)
        BY <2>3, <4>2
      <4> QED
        BY <4>1, <4>2
    <3> QED
      BY <3>1 DEF Absent
  <2>6. Ordered'
    <3>1. ASSUME NEW i \in 1..Len(pipe')
          PROVE  /\ pipe'[i].capability \in Capabilities
                 /\ pipe'[i].revision \in Nat
                 /\ pipe'[i].revision <= revisions[pipe'[i].capability]
                 /\ shown[pipe'[i].capability].revision <= pipe'[i].revision
      <4>1. CASE i \in 1..Len(pipe)
        BY <1>1, <2>1, <4>1 DEF Ordered
      <4>2. CASE i \notin 1..Len(pipe)
        BY <1>1, <1>8, <2>3, <4>2 DEF Ordered
      <4> QED
        BY <4>1, <4>2
    <3>2. ASSUME NEW i \in 1..Len(pipe'), NEW j \in 1..Len(pipe'),
                 i <= j, pipe'[i].capability = pipe'[j].capability
          PROVE  pipe'[i].revision <= pipe'[j].revision
      <4>1. CASE j \in 1..Len(pipe)
        BY <1>1, <1>2, <2>1, <3>2, <4>1, SMTT(30) DEF Ordered
      <4>2. CASE j \notin 1..Len(pipe)
        <5>1. pipe'[j].revision = revisions[pipe'[j].capability]
          BY <2>3, <4>2
        <5> QED
          BY <3>1, <3>2, <5>1
      <4> QED
        BY <4>1, <4>2
    <3> QED
      BY <1>1, <3>1, <3>2 DEF Ordered
  <2>7. Arriving'
    <3> SUFFICES ASSUME k = N, NEW c \in Capabilities
                 PROVE  \/ Absent(c, pipe') /\ shown[c] = last[c]
                        \/ Final(c, pipe', last[c])
      BY <1>1, <1>9 DEF Arriving, Absent, Final
    <3>1. CASE last[c] = Unset
      BY <1>1, <2>5, <3>1 DEF Kept, Absent
    <3>2. CASE last[c] # Unset
      <4>1. PICK n \in 1..N : \A j \in 1..N : f[j] = c <=> j = n
        BY <1>5, <3>2 DEF Known
      <4>2. /\ Len(pipe) + n \in 1..Len(pipe')
            /\ pipe'[Len(pipe) + n] = last[c]
            /\ last[c].capability = c
        <5>1. f[n] = c /\ batch[n] = last[c] /\ n \in 1..k
          BY <1>6, <4>1
        <5>2. pipe'[Len(pipe) + n] = batch[n]
          BY <2>1, <5>1
        <5>3. Len(pipe) + n \in 1..Len(pipe')
          BY <1>2, <1>3, <2>1, <5>1
        <5> QED
          BY <1>7, <5>1, <5>2, <5>3
      <4>3. ASSUME NEW j \in 1..Len(pipe'), j > Len(pipe) + n
            PROVE  pipe'[j].capability # c
        <5>1. PICK m \in 1..N : j = Len(pipe) + m /\ pipe'[j] = batch[m]
          BY <1>2, <1>3, <2>2, <4>3
        <5>2. m # n
          BY <1>2, <4>3, <5>1
        <5> QED
          BY <1>7, <4>1, <5>1, <5>2
      <4> QED
        BY <4>2, <4>3 DEF Final
    <3> QED
      BY <3>1, <3>2
  <2> QED
    BY <2>4, <2>5, <2>6, <2>7 DEF ChannelInv
<1>10. \/ ~InRegistry
       \/ Gains(batch, N) /\ link' = "hydrated"
       \/ link' = "wedged" /\ \E k \in 0..N : Gains(batch, k)
  BY <1>2, <1>4, <1>6, Sent DEF batch
<1> QED
  BY <1>1, <1>3, <1>9, <1>10 DEF InRegistry
(* What the Renderer reads moves with the head of the queue.               *)
LEMMA ApplyInv ==
  ASSUME ChannelInv, Apply
  PROVE  ChannelInv'
<1> DEFINE h == Head(pipe)
<1>1. /\ Functions /\ Kept /\ Ordered /\ Arriving
      /\ UNCHANGED <<authoritative, link, revisions, last>>
      /\ shown' = [shown EXCEPT ![h.capability] = h]
  BY DEF ChannelInv, Apply
<1>2. PICK S : pipe \in Seq(S) /\ Len(pipe) \in Nat
  BY <1>1, LenProperties DEF Functions
<1>3. /\ pipe' \in Seq(S) /\ Len(pipe') = Len(pipe) - 1
      /\ \A i \in 1..Len(pipe') : pipe'[i] = pipe[i + 1]
      /\ h = pipe[1] /\ 1 \in 1..Len(pipe)
  BY <1>2, HeadTailProperties, EmptySeq DEF Apply
<1> HIDE DEF h
<1>4. /\ \A i \in 1..Len(pipe') : i + 1 \in 1..Len(pipe)
      /\ \A i \in 1..Len(pipe) : i = 1 \/ i - 1 \in 1..Len(pipe')
  BY <1>2, <1>3
<1>5. /\ h.capability \in Capabilities
      /\ h.revision \in Nat /\ h.revision <= revisions[h.capability]
      /\ \A i \in 1..Len(pipe') :
           pipe'[i].capability = h.capability => h.revision <= pipe'[i].revision
  BY <1>1, <1>2, <1>3, <1>4 DEF Ordered
<1>6. /\ \A c \in Capabilities : shown'[c] = IF c = h.capability THEN h ELSE shown[c]
      /\ shown' = [c \in Capabilities |-> shown'[c]]
  <2>1. shown = [c \in Capabilities |-> shown[c]]
    BY <1>1 DEF Functions
  <2> QED
    BY <1>1, <1>5, <2>1
<1>7. Functions'
  BY <1>1, <1>3, <1>6 DEF Functions
<1>8. Kept'
  BY <1>1, <1>3, <1>4, <1>6 DEF Kept, Absent
<1>9. Ordered'
  <2>1. ASSUME NEW i \in 1..Len(pipe')
        PROVE  /\ pipe'[i].capability \in Capabilities
               /\ pipe'[i].revision \in Nat
               /\ pipe'[i].revision <= revisions'[pipe'[i].capability]
               /\ shown'[pipe'[i].capability].revision <= pipe'[i].revision
    BY <1>1, <1>3, <1>4, <1>5, <1>6 DEF Ordered
  <2>2. ASSUME NEW i \in 1..Len(pipe'), NEW j \in 1..Len(pipe'),
               i <= j, pipe'[i].capability = pipe'[j].capability
        PROVE  pipe'[i].revision <= pipe'[j].revision
    BY <1>1, <1>2, <1>3, <1>4, <2>2 DEF Ordered
  <2>3. \A c \in Capabilities :
          shown'[c].revision \in Nat /\ shown'[c].revision <= revisions'[c]
    BY <1>1, <1>5, <1>6 DEF Ordered
  <2> QED
    BY <2>1, <2>2, <2>3 DEF Ordered
<1>10. Arriving'
  <2> SUFFICES ASSUME link = "hydrated", NEW c \in Capabilities
               PROVE  \/ Absent(c, pipe') /\ shown'[c] = last[c]
                      \/ Final(c, pipe', last[c])
    BY <1>1 DEF Arriving, Absent, Final
  <2>1. CASE Absent(c, pipe) /\ shown[c] = last[c]
    BY <1>3, <1>4, <1>6, <2>1 DEF Absent
  <2>2. CASE Final(c, pipe, last[c])
    <3>1. PICK i \in 1..Len(pipe) :
            /\ pipe[i] = last[c] /\ last[c].capability = c
            /\ \A j \in 1..Len(pipe) : j > i => pipe[j].capability # c
      BY <2>2 DEF Final
    <3>2. \A j \in 1..Len(pipe') : j > i - 1 => pipe'[j].capability # c
      BY <1>2, <1>3, <1>4, <3>1
    <3>3. CASE i = 1
      <4>1. Absent(c, pipe')
        BY <3>2, <3>3 DEF Absent
      <4> QED
        BY <1>3, <1>6, <3>1, <3>3, <4>1
    <3>4. CASE i # 1
      <4>1. i - 1 \in 1..Len(pipe') /\ pipe'[i - 1] = last[c]
        BY <1>3, <1>4, <3>1, <3>4
      <4> QED
        BY <3>1, <3>2, <4>1 DEF Final
    <3> QED
      BY <3>3, <3>4
  <2> QED
    BY <1>1, <2>1, <2>2 DEF Arriving
<1> QED
  BY <1>7, <1>8, <1>9, <1>10 DEF ChannelInv

(* A replacement starts with an empty queue and reads nothing.             *)
LEMMA RespawnInv ==
  ASSUME ChannelInv, Respawn
  PROVE  ChannelInv'
<1>1. /\ Functions /\ Kept /\ Ordered
      /\ UNCHANGED <<revisions, last>> /\ link' = "starting"
      /\ authoritative' = authoritative + 1
      /\ pipe' \in Seq({}) /\ Len(pipe') = 0
      /\ shown' = [c \in Capabilities |-> Unset]
  BY DEF ChannelInv, Respawn
<1>2. Functions'
  BY <1>1 DEF Functions
<1>3. Kept'
  BY <1>1 DEF Kept, Absent
<1>4. Ordered'
  BY <1>1 DEF Ordered, Functions, Unset
<1>5. Arriving'
  BY <1>1 DEF Arriving
<1> QED
  BY <1>2, <1>3, <1>4, <1>5 DEF ChannelInv

(* Steps that leave the queue alone or empty it, and hydrate nobody.       *)
LEMMA QuietInv ==
  ASSUME ChannelInv, UNCHANGED <<authoritative, revisions, last, shown>>,
         pipe' = pipe \/ pipe' = <<>>, link' # "hydrated"
  PROVE  ChannelInv'
<1>1. Functions /\ Kept /\ Ordered
  BY DEF ChannelInv
<1>2. pipe' = pipe \/ (pipe' \in Seq({}) /\ Len(pipe') = 0)
  <2>1. <<>> \in Seq({}) /\ Len(<<>>) = 0
    OBVIOUS
  <2> QED
    BY <2>1
<1>3. Functions'
  BY <1>1, <1>2 DEF Functions
<1>4. Kept'
  BY <1>1, <1>2 DEF Kept, Absent
<1>5. Ordered'
  BY <1>1, <1>2 DEF Ordered
<1>6. Arriving'
  BY DEF Arriving
<1> QED
  BY <1>3, <1>4, <1>5, <1>6 DEF ChannelInv

(* Every step of the channel keeps the invariant.                          *)
LEMMA StepInv ==
  ASSUME ChannelInv, ChannelStep
  PROVE  ChannelInv'
<1>1. CASE Register
  BY <1>1, QuietInv DEF Register
<1>2. CASE Hydrate
  BY <1>2, HydrateInv
<1>3. CASE Apply
  BY <1>3, ApplyInv
<1>4. CASE RendererDies
  BY <1>4, QuietInv DEF RendererDies, Depart
<1>5. CASE LoseSupervisor
  BY <1>5, QuietInv DEF LoseSupervisor, Depart
<1>6. CASE ReplaceDepartedRenderer
  BY <1>6, QuietInv, RespawnInv DEF ReplaceDepartedRenderer
<1>7. CASE CooldownExpires
  BY <1>7, RespawnInv DEF CooldownExpires
<1> QED
  BY <1>1, <1>2, <1>3, <1>4, <1>5, <1>6, <1>7 DEF ChannelStep

-----------------------------------------------------------------------------
(* With nothing left to apply, a hydrated Renderer reads the last push.    *)
LEMMA DrainedIsCurrent == ChannelInv => DrainedViewIsCurrent
<1> SUFFICES ASSUME ChannelInv, link = "hydrated", pipe = <<>>,
                    NEW c \in Capabilities
             PROVE  shown[c] = last[c] /\ shown[c].revision = revisions[c]
  BY DEF DrainedViewIsCurrent
<1>1. Len(pipe) = 0
  OBVIOUS
<1>2. shown[c] = last[c]
  BY <1>1 DEF ChannelInv, Arriving, Absent, Final
<1> QED
  BY <1>2 DEF ChannelInv, Kept

(* What one generation reads gets no older, step by step.                  *)
LEMMA NoStepGoesBack ==
  ASSUME ChannelInv,
         \/ ChannelStep
         \/ \E capability, payload : Push(capability, payload)
         \/ UNCHANGED channelVars,
         authoritative' = authoritative, NEW c \in Capabilities
  PROVE  shown[c].revision <= shown'[c].revision
<1>1. shown[c].revision \in Nat
  BY DEF ChannelInv, Ordered
<1>2. CASE shown' = shown
  BY <1>1, <1>2
<1>3. CASE Apply
  <2>1. PICK S : pipe \in Seq(S) /\ Len(pipe) \in Nat
    BY LenProperties DEF ChannelInv, Functions
  <2>2. 1 \in 1..Len(pipe) /\ Head(pipe) = pipe[1]
    BY <1>3, <2>1, EmptySeq DEF Apply
  <2>3. shown[pipe[1].capability].revision <= pipe[1].revision
    BY <2>2 DEF ChannelInv, Ordered
  <2>4. shown' = [shown EXCEPT ![pipe[1].capability] = pipe[1]]
    BY <1>3, <2>2 DEF Apply
  <2>5. shown = [d \in Capabilities |-> shown[d]]
    BY DEF ChannelInv, Functions
  <2>6. shown'[c] = IF c = pipe[1].capability THEN pipe[1] ELSE shown[c]
    BY <2>4, <2>5
  <2> QED
    BY <1>1, <2>3, <2>6
<1>4. CASE Respawn
  <2>1. authoritative' = authoritative + 1 /\ authoritative \in Nat
    BY <1>4 DEF Respawn, ChannelInv, Functions
  <2> QED
    BY <2>1
<1> QED
  BY <1>2, <1>3, <1>4 DEF ChannelStep, Push, Register, Hydrate, RendererDies,
     LoseSupervisor, Depart, ReplaceDepartedRenderer, CooldownExpires, channelVars

-----------------------------------------------------------------------------
(* The agent.                                                                *)

Asking(c) == [kind |-> "begin", cookie |-> c] \in requests

(* The parts of TypeOK the arguments use, and that no cookie is NoCookie.  *)
Types ==
  /\ call \in [Cookies -> {"fresh", "asked", "ok", "cancelled"}]
  /\ requests \subseteq Requests
  /\ pending \in Cookies \union {NoCookie}
  /\ authenticating \in BOOLEAN /\ failed \in BOOLEAN
  /\ \A h \in helpers : h.cookie \in Cookies
  /\ \A answer \in outcomes : answer.cookie \in Cookies

(* A call is fresh, on its way in, on screen or answered: one at a time.   *)
Calls ==
  /\ \A c \in Cookies : call[c] = "asked" => pending = c \/ Asking(c)
  /\ \A c \in Cookies : Asking(c) => call[c] = "asked" /\ pending # c
  /\ pending # NoCookie => call[pending] = "asked"

(* A success on its way in is one the helper has told polkitd of.          *)
Vouches ==
  /\ \A answer \in outcomes : answer.success => answer.cookie \in vouched
  /\ \A c \in Cookies : call[c] = "ok" => c \in vouched

(* Conversations are only about calls that reached the controller.         *)
Asked ==
  /\ \A h \in helpers : call[h.cookie] # "fresh" /\ ~Asking(h.cookie)
  /\ \A answer \in outcomes :
       call[answer.cookie] # "fresh" /\ ~Asking(answer.cookie)

HelpersOwing == {h \in helpers : h.cookie = pending}
AnswersOwing == {answer \in outcomes : answer.cookie = pending}

(* The latch stands for one conversation, running or answered.             *)
Debt ==
  \/ ~authenticating /\ HelpersOwing = {} /\ AnswersOwing = {}
  \/ authenticating /\ AnswersOwing = {} /\ \E h : HelpersOwing = {h}
  \/ authenticating /\ HelpersOwing = {} /\ \E answer : AnswersOwing = {answer}

(* What was published last is what the controller holds.                   *)
Published ==
  \/ last[Polkit] = Unset /\ pending = NoCookie
  \/ /\ last[Polkit] # Unset
     /\ last[Polkit].payload = State(pending, authenticating, failed)

AgentInv == Types /\ Calls /\ Vouches /\ Asked /\ Debt /\ Published

-----------------------------------------------------------------------------
(* Before anyone has called.                                               *)
LEMMA AgentInitInv == Init => AgentInv
  BY PolkitAssumption DEF Init, ChannelInit, AgentInv, Types, Calls, Asking,
     Vouches, Asked, Debt, HelpersOwing, AnswersOwing, Published, Unset

(* The types are kept.                                                     *)
LEMMA TypesKept ==
  ASSUME Types, [Next]_vars
  PROVE  Types'
<1> USE DEF Types
<1>1. ASSUME NEW c \in Cookies, PolkitdBegins(c) PROVE Types'
  BY <1>1 DEF PolkitdBegins, controllerVars, helperVars, Requests
<1>2. ASSUME NEW c \in Cookies, PolkitdCancels(c) PROVE Types'
  BY <1>2 DEF PolkitdCancels, controllerVars, helperVars, Requests
<1>3. ASSUME NEW c \in Cookies, Begin(c) PROVE Types'
  BY <1>3 DEF Begin, Receives, Becomes, Unchanged, controllerVars, helperVars
<1>4. ASSUME NEW c \in Cookies, Cancel(c) PROVE Types'
  BY <1>4 DEF Cancel, ReceivesCancel, Receives, EndsCancelled, Becomes,
     Unchanged, controllerVars, helperVars
<1>5. CASE DispatchCancel
  BY <1>5 DEF DispatchCancel, Reads, EndsCancelled, Becomes, Unchanged,
     controllerVars
<1>6. CASE BeginAuthentication
  <2>1. CASE MayAuthenticate /\ Becomes(pending, TRUE, failed)
    <3>1. pending \in Cookies
      BY <2>1 DEF MayAuthenticate
    <3> QED
      BY <1>6, <2>1, <3>1 DEF BeginAuthentication, Reads, Becomes
  <2>2. CASE Unchanged /\ UNCHANGED helpers
    BY <1>6, <2>2 DEF BeginAuthentication, Reads, Unchanged, controllerVars
  <2> QED
    BY <1>6, <2>1, <2>2 DEF BeginAuthentication
<1>7. CASE DropStaleFrame
  BY <1>7 DEF DropStaleFrame, agentVars, controllerVars, helperVars
<1>8. ASSUME NEW answer \in outcomes, RecordOutcome(answer) PROVE Types'
  BY <1>8 DEF RecordOutcome, IsCurrent, Becomes, Unchanged, controllerVars
<1>9. ASSUME NEW h \in helpers, NEW success \in BOOLEAN,
             HelperAnswers(h, success)
      PROVE  Types'
  BY <1>9 DEF HelperAnswers, agentVars, controllerVars
<1>10. ASSUME NEW kind \in {"submit", "cancel"}, DialogSends(kind) PROVE Types'
  BY <1>10 DEF DialogSends, agentVars, controllerVars, helperVars
<1>11. CASE Channel \/ UNCHANGED vars
  BY <1>11 DEF Channel, vars, agentVars, controllerVars, helperVars
<1> QED
  BY <1>1, <1>2, <1>3, <1>4, <1>5, <1>6, <1>7, <1>8, <1>9, <1>10, <1>11
     DEF Next, HandleRequest, ReadFrame

(* A call is asked, shown and answered in that order, once.               *)
LEMMA CallsKept ==
  ASSUME Types, Calls, NoCookie \notin Cookies, [Next]_vars
  PROVE  Calls'
<1> USE DEF Types, Calls, Asking, Requests
<1>1. ASSUME NEW c \in Cookies, PolkitdBegins(c) PROVE Calls'
  BY <1>1 DEF PolkitdBegins, agentVars, controllerVars, helperVars
<1>2. ASSUME NEW c \in Cookies, PolkitdCancels(c) PROVE Calls'
  BY <1>2 DEF PolkitdCancels, controllerVars, helperVars
<1>3. ASSUME NEW c \in Cookies, Begin(c) PROVE Calls'
  <2>1. /\ Asking(c)
        /\ \A d \in Cookies : Asking(d)' <=> Asking(d) /\ d # c
    BY <1>3 DEF Begin, Receives
  <2>2. CASE pending = NoCookie /\ Becomes(c, FALSE, FALSE) /\ UNCHANGED call
    BY <2>1, <2>2 DEF Becomes
  <2>3. CASE call' = [call EXCEPT ![c] = "cancelled"] /\ Unchanged
    BY <2>1, <2>3 DEF Unchanged, controllerVars
  <2> QED
    BY <1>3, <2>2, <2>3 DEF Begin
<1>4. ASSUME NEW c \in Cookies, Cancel(c) PROVE Calls'
  BY <1>4, ZenonT(40) DEF Cancel, ReceivesCancel, Receives, EndsCancelled, Becomes,
     Unchanged, controllerVars, helperVars
<1>5. CASE DispatchCancel
  BY <1>5 DEF DispatchCancel, Reads, EndsCancelled, Becomes, Unchanged,
     controllerVars
<1>6. CASE BeginAuthentication
  BY <1>6 DEF BeginAuthentication, Reads, MayAuthenticate, Becomes, Unchanged,
     controllerVars
<1>7. CASE DropStaleFrame
  BY <1>7 DEF DropStaleFrame, agentVars, controllerVars, helperVars
<1>8. ASSUME NEW answer \in outcomes, RecordOutcome(answer) PROVE Calls'
  <2>1. /\ answer.cookie \in Cookies /\ requests' = requests
        /\ \A c \in Cookies : Asking(c)' <=> Asking(c)
    BY <1>8 DEF RecordOutcome
  <2>2. CASE Unchanged /\ UNCHANGED call
    BY <2>1, <2>2 DEF Unchanged, controllerVars
  <2>3. CASE Becomes(pending, FALSE, TRUE) /\ UNCHANGED call
    BY <2>1, <2>3 DEF Becomes
  <2>4. CASE /\ IsCurrent(answer)
             /\ call' = [call EXCEPT ![pending] = "ok"]
             /\ Becomes(NoCookie, FALSE, FALSE)
    BY <2>1, <2>4 DEF IsCurrent, Becomes
  <2> QED
    BY <1>8, <2>2, <2>3, <2>4 DEF RecordOutcome
<1>9. ASSUME NEW h \in helpers, NEW success \in BOOLEAN,
             HelperAnswers(h, success)
      PROVE  Calls'
  BY <1>9 DEF HelperAnswers, agentVars, controllerVars
<1>10. ASSUME NEW kind \in {"submit", "cancel"}, DialogSends(kind) PROVE Calls'
  BY <1>10 DEF DialogSends, agentVars, controllerVars, helperVars
<1>11. CASE Channel \/ UNCHANGED vars
  BY <1>11 DEF Channel, vars, agentVars, controllerVars, helperVars
<1> QED
  BY <1>1, <1>2, <1>3, <1>4, <1>5, <1>6, <1>7, <1>8, <1>9, <1>10, <1>11
     DEF Next, HandleRequest, ReadFrame

(* Success is only ever what the helper told polkitd.                     *)
LEMMA VouchesKept ==
  ASSUME Types, Vouches, [Next]_vars
  PROVE  Vouches'
<1> USE DEF Types, Vouches
<1>1. ASSUME NEW c \in Cookies, PolkitdBegins(c) PROVE Vouches'
  BY <1>1 DEF PolkitdBegins, agentVars, controllerVars, helperVars
<1>2. ASSUME NEW c \in Cookies, PolkitdCancels(c) PROVE Vouches'
  BY <1>2 DEF PolkitdCancels, controllerVars, helperVars
<1>3. ASSUME NEW c \in Cookies, Begin(c) PROVE Vouches'
  BY <1>3 DEF Begin, Receives, Becomes, Unchanged, controllerVars, helperVars
<1>4. ASSUME NEW c \in Cookies, Cancel(c) PROVE Vouches'
  BY <1>4 DEF Cancel, ReceivesCancel, Receives, EndsCancelled, Becomes,
     Unchanged, controllerVars, helperVars
<1>5. CASE DispatchCancel
  BY <1>5 DEF DispatchCancel, Reads, EndsCancelled, Becomes, Unchanged,
     controllerVars
<1>6. CASE BeginAuthentication
  BY <1>6 DEF BeginAuthentication, Reads, MayAuthenticate, Becomes, Unchanged,
     controllerVars
<1>7. CASE DropStaleFrame
  BY <1>7 DEF DropStaleFrame, agentVars, controllerVars, helperVars
<1>8. ASSUME NEW answer \in outcomes, RecordOutcome(answer) PROVE Vouches'
  <2>1. /\ answer.cookie \in Cookies /\ vouched' = vouched
        /\ outcomes' \subseteq outcomes
    BY <1>8 DEF RecordOutcome
  <2>2. CASE call' = call
    BY <2>1, <2>2
  <2>3. CASE /\ pending = answer.cookie /\ answer.success
             /\ call' = [call EXCEPT ![pending] = "ok"]
    BY <2>1, <2>3
  <2> QED
    BY <1>8, <2>2, <2>3 DEF RecordOutcome, IsCurrent
<1>9. ASSUME NEW h \in helpers, NEW success \in BOOLEAN,
             HelperAnswers(h, success)
      PROVE  Vouches'
  BY <1>9 DEF HelperAnswers, agentVars, controllerVars
<1>10. ASSUME NEW kind \in {"submit", "cancel"}, DialogSends(kind) PROVE Vouches'
  BY <1>10 DEF DialogSends, agentVars, controllerVars, helperVars
<1>11. CASE Channel \/ UNCHANGED vars
  BY <1>11 DEF Channel, vars, agentVars, controllerVars, helperVars
<1> QED
  BY <1>1, <1>2, <1>3, <1>4, <1>5, <1>6, <1>7, <1>8, <1>9, <1>10, <1>11
     DEF Next, HandleRequest, ReadFrame

(* A conversation about a call that never arrived cannot start.           *)
LEMMA AskedKept ==
  ASSUME Types, Calls, Asked, [Next]_vars
  PROVE  Asked'
<1> USE DEF Types, Calls, Asked, Asking, Requests
<1>1. ASSUME NEW c \in Cookies, PolkitdBegins(c) PROVE Asked'
  BY <1>1 DEF PolkitdBegins, agentVars, controllerVars, helperVars
<1>2. ASSUME NEW c \in Cookies, PolkitdCancels(c) PROVE Asked'
  BY <1>2 DEF PolkitdCancels, controllerVars, helperVars
<1>3. ASSUME NEW c \in Cookies, Begin(c) PROVE Asked'
  BY <1>3 DEF Begin, Receives, Becomes, Unchanged, controllerVars, helperVars
<1>4. ASSUME NEW c \in Cookies, Cancel(c) PROVE Asked'
  BY <1>4 DEF Cancel, ReceivesCancel, Receives, EndsCancelled, Becomes,
     Unchanged, controllerVars, helperVars
<1>5. CASE DispatchCancel
  BY <1>5, ZenonT(40) DEF DispatchCancel, Reads, EndsCancelled, Becomes, Unchanged,
     controllerVars
<1>6. CASE BeginAuthentication
  <2>1. UNCHANGED <<call, requests, outcomes>>
    BY <1>6 DEF BeginAuthentication, Reads
  <2>2. CASE /\ pending # NoCookie
             /\ helpers' = helpers \union
                             {[cookie |-> pending, id |-> Head(frames).id]}
    BY <2>1, <2>2
  <2>3. CASE UNCHANGED helpers
    BY <2>1, <2>3
  <2> QED
    BY <1>6, <2>2, <2>3 DEF BeginAuthentication, MayAuthenticate
<1>7. CASE DropStaleFrame
  BY <1>7 DEF DropStaleFrame, agentVars, controllerVars, helperVars
<1>8. ASSUME NEW answer \in outcomes, RecordOutcome(answer) PROVE Asked'
  BY <1>8, ZenonT(40) DEF RecordOutcome, IsCurrent, Becomes, Unchanged, controllerVars
<1>9. ASSUME NEW h \in helpers, NEW success \in BOOLEAN,
             HelperAnswers(h, success)
      PROVE  Asked'
  BY <1>9 DEF HelperAnswers, agentVars, controllerVars
<1>10. ASSUME NEW kind \in {"submit", "cancel"}, DialogSends(kind) PROVE Asked'
  BY <1>10 DEF DialogSends, agentVars, controllerVars, helperVars
<1>11. CASE Channel \/ UNCHANGED vars
  BY <1>11 DEF Channel, vars, agentVars, controllerVars, helperVars
<1> QED
  BY <1>1, <1>2, <1>3, <1>4, <1>5, <1>6, <1>7, <1>8, <1>9, <1>10, <1>11
     DEF Next, HandleRequest, ReadFrame

(* The latch is set with a conversation and cleared with its answer.      *)
LEMMA DebtKept ==
  ASSUME NoCookie \notin Cookies, Types, Calls, Asked, Debt, [Next]_vars
  PROVE  Debt'
<1> USE DEF Types, Debt, HelpersOwing, AnswersOwing
<1>1. ASSUME NEW c \in Cookies, PolkitdBegins(c) PROVE Debt'
  BY <1>1 DEF PolkitdBegins, agentVars, controllerVars, helperVars
<1>2. ASSUME NEW c \in Cookies, PolkitdCancels(c) PROVE Debt'
  BY <1>2 DEF PolkitdCancels, controllerVars, helperVars
<1>3. ASSUME NEW c \in Cookies, Begin(c) PROVE Debt'
  <2>1. Asking(c) /\ UNCHANGED <<helpers, outcomes>>
    BY <1>3 DEF Begin, Receives, helperVars, Asking
  <2>2. CASE pending = NoCookie /\ Becomes(c, FALSE, FALSE)
    <3>1. /\ \A h \in helpers : h.cookie # c
          /\ \A answer \in outcomes : answer.cookie # c
      BY <2>1 DEF Asked
    <3> QED
      BY <2>1, <2>2, <3>1 DEF Becomes
  <2>3. CASE Unchanged
    BY <2>1, <2>3 DEF Unchanged, controllerVars
  <2> QED
    BY <1>3, <2>2, <2>3 DEF Begin
<1>4. ASSUME NEW c \in Cookies, Cancel(c) PROVE Debt'
  <2>1. UNCHANGED <<helpers, outcomes>>
    BY <1>4 DEF Cancel, ReceivesCancel, Receives, helperVars
  <2>2. CASE Becomes(NoCookie, FALSE, FALSE)
    BY <2>1, <2>2 DEF Becomes
  <2>3. CASE Unchanged
    BY <2>1, <2>3 DEF Unchanged, controllerVars
  <2> QED
    BY <1>4, <2>2, <2>3 DEF Cancel, EndsCancelled
<1>5. CASE DispatchCancel
  <2>1. UNCHANGED <<helpers, outcomes>>
    BY <1>5 DEF DispatchCancel, Reads
  <2>2. CASE Becomes(NoCookie, FALSE, FALSE)
    BY <2>1, <2>2 DEF Becomes
  <2>3. CASE Unchanged
    BY <2>1, <2>3 DEF Unchanged, controllerVars
  <2> QED
    BY <1>5, <2>2, <2>3 DEF DispatchCancel, EndsCancelled
<1>6. CASE BeginAuthentication
  <2>1. UNCHANGED outcomes
    BY <1>6 DEF BeginAuthentication, Reads
  <2>2. CASE MayAuthenticate /\ BeginAuthentication
    <3> DEFINE h == [cookie |-> pending, id |-> Head(frames).id]
    <3>1. h.cookie = pending
      OBVIOUS
    <3>2. helpers' = helpers \union {h} /\ Becomes(pending, TRUE, failed)
      BY <2>2 DEF BeginAuthentication
    <3>3. ~authenticating
      BY <2>2 DEF MayAuthenticate
    <3> HIDE DEF h
    <3>4. HelpersOwing' = {h} /\ AnswersOwing' = {}
      BY <2>1, <3>1, <3>2, <3>3 DEF Becomes
    <3> QED
      BY <3>2, <3>4 DEF Becomes
  <2>3. CASE Unchanged /\ UNCHANGED helpers
    BY <2>1, <2>3 DEF Unchanged, controllerVars
  <2> QED
    BY <1>6, <2>2, <2>3 DEF BeginAuthentication
<1>7. CASE DropStaleFrame
  BY <1>7 DEF DropStaleFrame, agentVars, controllerVars, helperVars
<1>8. ASSUME NEW answer \in outcomes, RecordOutcome(answer) PROVE Debt'
  <2>1. helpers' = helpers /\ outcomes' = outcomes \ {answer}
    BY <1>8 DEF RecordOutcome
  <2>2. CASE ~IsCurrent(answer) /\ Unchanged
    <3>1. HelpersOwing' = HelpersOwing /\ AnswersOwing' = AnswersOwing
      BY <2>1, <2>2 DEF IsCurrent, Unchanged, controllerVars
    <3> QED
      BY <2>2, <3>1 DEF Unchanged, controllerVars
  <2>3. CASE IsCurrent(answer) /\ Becomes(pending, FALSE, TRUE)
    <3>1. AnswersOwing = {answer} /\ HelpersOwing = {}
      BY <2>3 DEF IsCurrent
    <3>2. HelpersOwing' = {} /\ AnswersOwing' = {}
      BY <2>1, <2>3, <3>1 DEF Becomes
    <3> QED
      BY <2>3, <3>2 DEF Becomes
  <2>4. CASE Becomes(NoCookie, FALSE, FALSE)
    BY <2>1, <2>4 DEF Becomes
  <2> QED
    BY <1>8, <2>2, <2>3, <2>4 DEF RecordOutcome
<1>9. ASSUME NEW h \in helpers, NEW success \in BOOLEAN,
             HelperAnswers(h, success)
      PROVE  Debt'
  <2> DEFINE answer == [cookie |-> h.cookie, id |-> h.id, success |-> success]
  <2>1. answer.cookie = h.cookie
    OBVIOUS
  <2>2. /\ helpers' = helpers \ {h} /\ outcomes' = outcomes \union {answer}
        /\ UNCHANGED controllerVars
    BY <1>9 DEF HelperAnswers
  <2> HIDE DEF answer
  <2>3. CASE h.cookie = pending
    <3>1. HelpersOwing = {h} /\ AnswersOwing = {} /\ authenticating
      BY <2>3
    <3>2. HelpersOwing' = {} /\ AnswersOwing' = {answer}
      BY <2>1, <2>2, <2>3, <3>1 DEF controllerVars
    <3> QED
      BY <2>2, <3>1, <3>2 DEF controllerVars
  <2>4. CASE h.cookie # pending
    <3>1. HelpersOwing' = HelpersOwing /\ AnswersOwing' = AnswersOwing
      BY <2>1, <2>2, <2>4 DEF controllerVars
    <3> QED
      BY <2>2, <3>1 DEF controllerVars
  <2> QED
    BY <2>3, <2>4
<1>10. ASSUME NEW kind \in {"submit", "cancel"}, DialogSends(kind) PROVE Debt'
  BY <1>10 DEF DialogSends, agentVars, controllerVars, helperVars
<1>11. CASE Channel \/ UNCHANGED vars
  BY <1>11 DEF Channel, vars, agentVars, controllerVars, helperVars
<1> QED
  BY <1>1, <1>2, <1>3, <1>4, <1>5, <1>6, <1>7, <1>8, <1>9, <1>10, <1>11
     DEF Next, HandleRequest, ReadFrame

-----------------------------------------------------------------------------
(* Publishing.  Every change to the controller is one push of the result.  *)
LEMMA ChangesArePushed ==
  ASSUME [Next]_vars
  PROVE  \/ UNCHANGED <<channelVars, controllerVars>>
         \/ ChannelStep /\ UNCHANGED controllerVars
         \/ Push(Polkit, State(pending', authenticating', failed'))
<1> DEFINE Goal == \/ UNCHANGED <<channelVars, controllerVars>>
                   \/ ChannelStep /\ UNCHANGED controllerVars
                   \/ Push(Polkit, State(pending', authenticating', failed'))
<1>1. ASSUME NEW cookie, NEW checking, NEW error,
             Becomes(cookie, checking, error)
      PROVE  Goal
  BY <1>1 DEF Becomes
<1>2. Unchanged => Goal
  BY DEF Unchanged
<1> HIDE DEF Goal
<1>3. ASSUME NEW c \in Cookies,
             PolkitdBegins(c) \/ PolkitdCancels(c)
      PROVE  Goal
  BY <1>3, <1>2 DEF PolkitdBegins, PolkitdCancels, Unchanged
<1>4. ASSUME NEW c \in Cookies, Begin(c) \/ Cancel(c) PROVE Goal
  BY <1>4, <1>1, <1>2 DEF Begin, Cancel, EndsCancelled
<1>5. ASSUME ReadFrame PROVE Goal
  <2>1. ASSUME DispatchCancel PROVE Goal
    BY <2>1, <1>1, <1>2 DEF DispatchCancel, EndsCancelled
  <2>2. ASSUME BeginAuthentication PROVE Goal
    BY <2>2, <1>1, <1>2 DEF BeginAuthentication
  <2>3. ASSUME DropStaleFrame PROVE Goal
    BY <2>3, <1>2 DEF DropStaleFrame, Unchanged
  <2> QED
    BY <1>5, <2>1, <2>2, <2>3 DEF ReadFrame
<1>6. ASSUME NEW answer \in outcomes, RecordOutcome(answer) PROVE Goal
  BY <1>6, <1>1, <1>2 DEF RecordOutcome
<1>7. ASSUME NEW h \in helpers, NEW success \in BOOLEAN,
             HelperAnswers(h, success)
      PROVE  Goal
  BY <1>7, <1>2 DEF HelperAnswers, Unchanged
<1>8. ASSUME NEW kind \in {"submit", "cancel"}, DialogSends(kind) PROVE Goal
  BY <1>8, <1>2 DEF DialogSends, Unchanged
<1>9. ASSUME Channel PROVE Goal
  BY <1>9 DEF Channel, Goal
<1>10. ASSUME UNCHANGED vars PROVE Goal
  BY <1>10, <1>2 DEF vars, Unchanged
<1>11. Goal
  BY <1>3, <1>4, <1>5, <1>6, <1>7, <1>8, <1>9, <1>10 DEF Next, HandleRequest
<1> QED
  BY <1>11 DEF Goal

(* The channel's invariant holds of this component.                        *)
LEMMA ChannelKept ==
  ASSUME ChannelInv, [Next]_vars
  PROVE  ChannelInv'
<1>1. CASE UNCHANGED channelVars
  BY <1>1 DEF channelVars, ChannelInv, Functions, Kept, Ordered, Arriving,
     Absent, Final
<1>2. CASE ChannelStep
  BY <1>2, StepInv
<1>3. CASE Push(Polkit, State(pending', authenticating', failed'))
  BY <1>3, PushInv, PolkitAssumption
<1> QED
  BY <1>1, <1>2, <1>3, ChangesArePushed

(* What is kept for replay is the controller's state.                      *)
LEMMA PublishedKept ==
  ASSUME ChannelInv, Published, [Next]_vars
  PROVE  Published'
<1>1. CASE UNCHANGED <<channelVars, controllerVars>>
  BY <1>1 DEF Published, channelVars, controllerVars, State
<1>2. CASE ChannelStep /\ UNCHANGED controllerVars
  <2>1. last' = last
    BY <1>2 DEF ChannelStep, Register, Hydrate, Apply, RendererDies, Depart,
       LoseSupervisor, ReplaceDepartedRenderer, Respawn, CooldownExpires
  <2> QED
    BY <1>2, <2>1 DEF Published, controllerVars, State
<1>3. CASE Push(Polkit, State(pending', authenticating', failed'))
  <2> DEFINE snapshot == [capability |-> Polkit,
                          payload |-> State(pending', authenticating', failed'),
                          revision |-> revisions[Polkit] + 1]
  <2>1. last' = [last EXCEPT ![Polkit] = snapshot]
    BY <1>3 DEF Push
  <2>2. last = [c \in Capabilities |-> last[c]] /\ revisions[Polkit] \in Nat
    BY PolkitAssumption DEF ChannelInv, Functions
  <2>3. snapshot # Unset
    BY <2>2 DEF Unset
  <2>4. snapshot.payload = State(pending', authenticating', failed')
    OBVIOUS
  <2> HIDE DEF snapshot
  <2>5. last'[Polkit] = snapshot
    BY <2>1, <2>2, PolkitAssumption
  <2> QED
    BY <2>3, <2>4, <2>5 DEF Published, State, Unset
<1> QED
  BY <1>1, <1>2, <1>3, ChangesArePushed

-----------------------------------------------------------------------------
(* The inductive invariant holds of every behaviour.                       *)
LEMMA AlwaysInv == Spec => [](AgentInv /\ ChannelInv)
<1>1. Init => AgentInv /\ ChannelInv
  BY AgentInitInv, ChannelInitInv DEF Init
<1>2. AgentInv /\ ChannelInv /\ [Next]_vars => (AgentInv /\ ChannelInv)'
  BY TypesKept, CallsKept, VouchesKept, AskedKept, DebtKept, PublishedKept,
     ChannelKept, PolkitAssumption DEF AgentInv
<1> QED
  BY <1>1, <1>2, PTL DEF Spec

(* No caller is forgotten, however many call, cancel and type at once: a   *)
(* call polkitd waits on is on its way in or on screen, and the challenge  *)
(* on screen is one polkitd waits on (PolkitController::begin, cancel and  *)
(* record_outcome).                                                        *)
THEOREM CallersAreKept == Spec => []NoCallerIsForgotten
<1>1. AgentInv => NoCallerIsForgotten
  BY DEF AgentInv, Calls, Asking, NoCallerIsForgotten
<1> QED
  BY <1>1, AlwaysInv, PTL

(* polkitd is told yes only where the helper vouched for that call: the    *)
(* cookie check of record_outcome is enough whatever overtakes what.       *)
THEOREM YesIsVouched == Spec => []OkMeansVouched
<1>1. AgentInv => OkMeansVouched
  BY DEF AgentInv, Vouches, OkMeansVouched
<1> QED
  BY <1>1, AlwaysInv, PTL

(* The latch that refuses a second password (may_authenticate) is set      *)
(* exactly while one conversation is owed an answer.                       *)
THEOREM LatchIsExact == Spec => []LatchIsOwed
<1>1. ASSUME AgentInv PROVE LatchIsOwed
  <2>1. Owed = {h.id : h \in HelpersOwing} \union
               {answer.id : answer \in AnswersOwing}
    BY DEF Owed, HelpersOwing, AnswersOwing
  <2>2. CASE ~authenticating /\ HelpersOwing = {} /\ AnswersOwing = {}
    <3>1. Owed = {}
      BY <2>1, <2>2
    <3> QED
      BY <2>2, <3>1, FS_EmptySet DEF LatchIsOwed
  <2>3. ASSUME authenticating, NEW x, Owed = {x.id} PROVE LatchIsOwed
    BY <2>3, FS_Singleton DEF LatchIsOwed
  <2>4. ASSUME authenticating, AnswersOwing = {}, NEW h, HelpersOwing = {h}
        PROVE  LatchIsOwed
    <3>1. Owed = {h.id}
      BY <2>1, <2>4
    <3> QED
      BY <2>3, <2>4, <3>1
  <2>5. ASSUME authenticating, HelpersOwing = {}, NEW answer,
               AnswersOwing = {answer}
        PROVE  LatchIsOwed
    <3>1. Owed = {answer.id}
      BY <2>1, <2>5
    <3> QED
      BY <2>3, <2>5, <3>1
  <2>6. Debt
    BY <1>1 DEF AgentInv
  <2> QED
    BY <2>2, <2>4, <2>5, <2>6, Zenon DEF Debt
<1> QED
  BY <1>1, AlwaysInv, PTL

(* No push is lost to a respawn, a registration or a full queue: hydrate's *)
(* replay and the hang-up of send_to together.                             *)
THEOREM ViewIsCurrent == Spec => []DrainedViewIsCurrent
  BY AlwaysInv, DrainedIsCurrent, PTL

(* The dialog a drained Renderer shows is the controller's state: every    *)
(* change ends in one push_polkit_state.                                   *)
THEOREM DialogFollows == Spec => []DialogIsCurrent
<1>1. ASSUME AgentInv, ChannelInv PROVE DialogIsCurrent
  <2>1. DrainedViewIsCurrent
    BY <1>1, DrainedIsCurrent
  <2> QED
    BY <1>1, <2>1, PolkitAssumption
       DEF AgentInv, Published, DialogIsCurrent, DrainedViewIsCurrent
<1> QED
  BY <1>1, AlwaysInv, PTL

(* A Renderer never goes back to an older snapshot of a capability         *)
(* (push_snapshot, hydrate).                                               *)
THEOREM RevisionsOnlyRise == Spec => RevisionsNeverGoBack
<1> DEFINE Forward ==
      authoritative' = authoritative =>
        \A c \in Capabilities : shown[c].revision <= shown'[c].revision
<1>1. ASSUME ChannelInv, [Next]_vars PROVE [Forward]_channelVars
  BY <1>1, ChangesArePushed, NoStepGoesBack
<1>2. [](AgentInv /\ ChannelInv) /\ [][Next]_vars => [][Forward]_channelVars
  BY <1>1, PTL
<1> QED
  BY <1>2, AlwaysInv, PTL DEF Spec, RevisionsNeverGoBack
=============================================================================
