--------------------------- MODULE LockChain_proofs ---------------------------
(***************************************************************************)
(* What the Supervisor believes about the lock, against what a Renderer    *)
(* and the compositor know: theorems about SessionLock and LockRefinement  *)
(* for every value of the constants.                                       *)
(*                                                                         *)
(* The frames still under way are the difference between the two: read in  *)
(* order they lead from the record of the Supervisor to the lock object of *)
(* the authoritative generation (Path).  Until lock requests overlap, at   *)
(* most one request is anywhere between the two (TokenInv), which is why   *)
(* a release finds the lock it was meant for, although no command says     *)
(* which lock that is.                                                     *)
(***************************************************************************)
EXTENDS LockRefinement, SessionLock_proofs

-----------------------------------------------------------------------------
(* Paths of frames.  A glass is the grant whose lock screen is up, 0 for   *)
(* none.                                                                   *)

Ended == {"finished", "unlocked"}

(* The frame f tells of the move of the glass from b to d.                 *)
Moves(b, f, d) ==
  /\ f.kind = "locked"  => b = 0 /\ d = f.grant /\ d # 0
  /\ f.kind = "refused" => b = 0 /\ d = 0
  /\ f.kind \in Ended   => b # 0 /\ d = 0
  /\ f.kind = "submit"  => b = f.grant /\ d = b /\ b # 0
  /\ f.kind = "lock"    => d = b

(* The glass does not change from i to j unless a report between says so.  *)
Quiet(s, i, j) == \A k \in (i + 1)..j : s[k].kind \notin LockOutcomes

IsPath(s, st) ==
  /\ \A i \in 1..Len(s) : Moves(st[i - 1], s[i], st[i])
  /\ \A i, j \in 0..Len(s) : (i <= j /\ Quiet(s, i, j)) => st[i] = st[j]

(* The frames of s lead from the glass b to the glass c.                   *)
Path(s, b, c) ==
  \E st \in [0..Len(s) -> Nat] : st[0] = b /\ st[Len(s)] = c /\ IsPath(s, st)

NoReport(s)  == \A i \in 1..Len(s) : s[i].kind \notin LockOutcomes
OneReport(s) ==
  \A i, j \in 1..Len(s) :
    s[i].kind \in LockOutcomes /\ s[j].kind \in LockOutcomes => i = j

LEMMA PathEmpty ==
  ASSUME NEW b \in Nat
  PROVE  Path(<<>>, b, b)
<1> DEFINE st == [i \in 0..0 |-> b]
<1>1. Len(<<>>) = 0 /\ st \in [0..0 -> Nat] /\ st[0] = b
  OBVIOUS
<1>2. IsPath(<<>>, st)
  BY DEF IsPath
<1> QED
  BY <1>1, <1>2 DEF Path

LEMMA PathPush ==
  ASSUME NEW s \in Seq(Frames), NEW f \in Frames,
         NEW b \in Nat, NEW c \in Nat, NEW d \in Nat,
         Path(s, b, c), Moves(c, f, d)
  PROVE  Path(Append(s, f), b, d)
<1> DEFINE n == Len(s)
           u == Append(s, f)
<1>1. PICK st \in [0..n -> Nat] : st[0] = b /\ st[n] = c /\ IsPath(s, st)
  BY DEF Path
<1> DEFINE st2 == [i \in 0..(n + 1) |-> IF i <= n THEN st[i] ELSE d]
<1>2. /\ n \in Nat /\ Len(u) = n + 1 /\ u[n + 1] = f
      /\ \A i \in 1..n : u[i] = s[i]
  OBVIOUS
<1>3. /\ st2 \in [0..(n + 1) -> Nat]
      /\ \A i \in 0..n : st2[i] = st[i]
      /\ st2[n + 1] = d
  BY <1>1, <1>2
<1> HIDE DEF n, u, st2
<1>4. ASSUME NEW i \in 1..(n + 1)
      PROVE  Moves(st2[i - 1], u[i], st2[i])
  <2>1. CASE i = n + 1
    BY <1>1, <1>2, <1>3, <2>1
  <2>2. CASE i \in 1..n
    <3>1. Moves(st[i - 1], s[i], st[i])
      BY <1>1, <2>2 DEF IsPath, n
    <3> QED
      BY <1>2, <1>3, <2>2, <3>1
  <2> QED
    BY <1>2, <2>1, <2>2
<1>5. ASSUME NEW i \in 0..(n + 1), NEW j \in 0..(n + 1),
             i <= j, Quiet(u, i, j)
      PROVE  st2[i] = st2[j]
  <2>1. CASE j \in 0..n
    <3>1. \A k \in (i + 1)..j : k \in 1..n /\ u[k] = s[k]
      BY <1>2, <2>1
    <3>2. Quiet(s, i, j)
      BY <1>5, <3>1 DEF Quiet
    <3>3. st[i] = st[j]
      BY <1>1, <1>5, <2>1, <3>2 DEF IsPath, n
    <3> QED
      BY <1>2, <1>3, <1>5, <2>1, <3>3
  <2>2. CASE j = n + 1 /\ i # j
    <3>1. Quiet(s, i, n) /\ f.kind \notin LockOutcomes
      BY <1>2, <1>5, <2>2 DEF Quiet
    <3>2. st[i] = c
      BY <1>1, <1>2, <1>5, <2>2, <3>1 DEF IsPath, n
    <3>3. d = c
      BY <3>1 DEF Moves, Frames, FrameKinds
    <3> QED
      BY <1>2, <1>3, <1>5, <2>2, <3>2, <3>3
  <2> QED
    BY <1>2, <1>5, <2>1, <2>2
<1>6. IsPath(u, st2)
  BY <1>2, <1>4, <1>5 DEF IsPath
<1> QED
  BY <1>1, <1>2, <1>3, <1>6 DEF Path, u

LEMMA PathPop ==
  ASSUME NEW s \in Seq(Frames), s # <<>>, NEW b \in Nat, NEW c \in Nat,
         Path(s, b, c)
  PROVE  \E d \in Nat : Moves(b, Head(s), d) /\ Path(Tail(s), d, c)
<1> DEFINE n == Len(s)
           u == Tail(s)
<1>1. PICK st \in [0..n -> Nat] : st[0] = b /\ st[n] = c /\ IsPath(s, st)
  BY DEF Path
<1> DEFINE st2 == [i \in 0..(n - 1) |-> st[i + 1]]
<1>2. /\ n \in Nat \ {0} /\ Len(u) = n - 1 /\ Head(s) = s[1]
      /\ \A i \in 1..(n - 1) : u[i] = s[i + 1]
  OBVIOUS
<1>3. /\ st2 \in [0..(n - 1) -> Nat]
      /\ \A i \in 0..(n - 1) : st2[i] = st[i + 1]
  BY <1>1, <1>2
<1>4. Moves(b, Head(s), st[1]) /\ st[1] \in Nat
  BY <1>1, <1>2 DEF IsPath
<1> HIDE DEF n, u, st2
<1>5. ASSUME NEW i \in 1..(n - 1)
      PROVE  Moves(st2[i - 1], u[i], st2[i])
  <2>1. i + 1 \in 1..n /\ (i + 1) - 1 = i
    BY <1>2
  <2>2. Moves(st[i], s[i + 1], st[i + 1])
    BY <1>1, <2>1 DEF IsPath, n
  <2>3. st2[i - 1] = st[i] /\ st2[i] = st[i + 1]
    BY <1>2, <1>3
  <2> QED
    BY <1>2, <2>2, <2>3
<1>6. ASSUME NEW i \in 0..(n - 1), NEW j \in 0..(n - 1),
             i <= j, Quiet(u, i, j)
      PROVE  st2[i] = st2[j]
  <2>1. ASSUME NEW k \in (i + 2)..(j + 1)
        PROVE  s[k].kind \notin LockOutcomes
    <3>1. k - 1 \in (i + 1)..j /\ k - 1 \in 1..(n - 1)
      BY <1>2, <1>6
    <3>2. u[k - 1] = s[k]
      BY <1>2, <3>1
    <3> QED
      BY <1>6, <3>1, <3>2 DEF Quiet
  <2>2. Quiet(s, i + 1, j + 1)
    BY <1>2, <1>6, <2>1 DEF Quiet
  <2>3. i + 1 \in 0..n /\ j + 1 \in 0..n /\ i + 1 <= j + 1
    BY <1>2, <1>6
  <2>4. st[i + 1] = st[j + 1]
    BY <1>1, <2>2, <2>3 DEF IsPath, n
  <2> QED
    BY <1>3, <1>6, <2>4
<1>7. IsPath(u, st2)
  BY <1>2, <1>5, <1>6 DEF IsPath
<1>8. st2[0] = st[1] /\ st2[n - 1] = c
  BY <1>1, <1>2, <1>3
<1>9. Path(u, st[1], c)
  BY <1>2, <1>3, <1>7, <1>8 DEF Path
<1> QED
  BY <1>4, <1>9 DEF u

LEMMA PathPrefix ==
  ASSUME NEW s \in Seq(Frames), NEW b \in Nat, NEW c \in Nat,
         Path(s, b, c), NEW m \in 0..Len(s)
  PROVE  \E d \in Nat : Path(SubSeq(s, 1, m), b, d)
<1> DEFINE u == SubSeq(s, 1, m)
<1>1. PICK st \in [0..Len(s) -> Nat] : st[0] = b /\ IsPath(s, st)
  BY DEF Path
<1> DEFINE st2 == [i \in 0..m |-> st[i]]
<1>2. Len(u) = m /\ \A i \in 1..m : u[i] = s[i]
  OBVIOUS
<1>3. st2 \in [0..m -> Nat] /\ \A i \in 0..m : st2[i] = st[i]
  BY <1>1
<1> HIDE DEF u, st2
<1>4. ASSUME NEW i \in 1..m
      PROVE  Moves(st2[i - 1], u[i], st2[i])
  <2>1. i \in 1..Len(s) /\ i - 1 \in 0..m /\ i \in 0..m
    OBVIOUS
  <2>2. Moves(st[i - 1], s[i], st[i])
    BY <1>1, <2>1 DEF IsPath
  <2> QED
    BY <1>2, <1>3, <2>1, <2>2
<1>5. ASSUME NEW i \in 0..m, NEW j \in 0..m, i <= j, Quiet(u, i, j)
      PROVE  st2[i] = st2[j]
  <2>1. Quiet(s, i, j)
    BY <1>2, <1>5 DEF Quiet
  <2>2. i \in 0..Len(s) /\ j \in 0..Len(s)
    OBVIOUS
  <2>3. st[i] = st[j]
    BY <1>1, <1>5, <2>1, <2>2 DEF IsPath
  <2> QED
    BY <1>3, <2>3
<1>6. IsPath(u, st2)
  BY <1>2, <1>4, <1>5 DEF IsPath
<1>7. st2[0] = b /\ st2[m] \in Nat /\ m \in Nat
  BY <1>1, <1>3
<1>8. st2 \in [0..Len(u) -> Nat] /\ st2[Len(u)] = st2[m]
  BY <1>2, <1>3
<1>9. Path(u, b, st2[m])
  BY <1>6, <1>7, <1>8, Zenon DEF Path
<1> QED
  BY <1>7, <1>9 DEF u

(* With no report under way both ends of the path are the same.            *)
LEMMA PathQuiet ==
  ASSUME NEW s \in Seq(Frames), NEW b \in Nat, NEW c \in Nat,
         Path(s, b, c), NoReport(s)
  PROVE  b = c
<1>1. PICK st \in [0..Len(s) -> Nat] :
        st[0] = b /\ st[Len(s)] = c /\ IsPath(s, st)
  BY DEF Path
<1>2. Quiet(s, 0, Len(s))
  BY DEF Quiet, NoReport
<1>3. 0 \in 0..Len(s) /\ Len(s) \in 0..Len(s) /\ 0 <= Len(s)
  OBVIOUS
<1> QED
  BY <1>1, <1>2, <1>3 DEF IsPath

-----------------------------------------------------------------------------
(* Lives: what a generation has before it is spawned and connected, and    *)
(* what is left of the Supervisor while it does not run.                   *)

Newborn(g) ==
  /\ proc[g] = "unborn" => frames[g] = <<>> /\ down[g] = <<>>
  /\ proc[g] = "starting" => held[g] = "none"

LifeInv ==
  /\ authoritative = spawned
  /\ cooldown => proc[authoritative] = "dead"
  /\ ~up => ~cooldown /\ ~lock.active /\ commands = <<>>
  /\ \A g \in Generations : Newborn(g)

LEMMA LifeFrame ==
  ASSUME LifeInv,
         UNCHANGED <<up, cooldown, authoritative, spawned, proc>>,
         ~up => UNCHANGED <<lock, commands>>,
         \A g \in Generations :
           /\ proc[g] = "unborn" => UNCHANGED <<frames[g], down[g]>>
           /\ proc[g] = "starting" => UNCHANGED held[g]
  PROVE  LifeInv'
<1>1. /\ (authoritative = spawned)'
      /\ (~up => ~cooldown /\ ~lock.active /\ commands = <<>>)'
  BY DEF LifeInv
<1>2. (cooldown => proc[authoritative] = "dead")'
  BY DEF LifeInv
<1>3. \A g \in Generations : Newborn(g)'
  BY DEF LifeInv, Newborn
<1> QED
  BY <1>1, <1>2, <1>3 DEF LifeInv

LEMMA LifeBirth ==
  ASSUME TypeOK, LockObjects, LifeInv, spawned < MaxGenerations,
         spawned' = spawned + 1, authoritative' = spawned + 1, ~cooldown', up',
         proc' = [proc EXCEPT ![spawned + 1] = "starting"],
         UNCHANGED <<frames, down, held>>
  PROVE  LifeInv'
<1>1. ASSUME NEW g \in Generations
      PROVE  Newborn(g)'
  <2>1. proc'[g] = IF g = spawned + 1 THEN "starting" ELSE proc[g]
    BY DEF TypeOK, RenderersOK
  <2>2. g = spawned + 1 => proc[g] = "unborn" /\ held[g] = "none"
    BY BoundsAssumption
    DEF LockObjects, LockObject, Alive, TypeOK, SupervisorOK, Generations
  <2> QED
    BY <2>1, <2>2 DEF LifeInv, Newborn
<1> QED
  BY <1>1 DEF LifeInv

LEMMA LifeEnds ==
  ASSUME TypeOK, LifeInv, NEW h \in Generations, Alive(h), ProcessEnds(h)
  PROVE  LifeInv'
<1>1. /\ UNCHANGED <<up, cooldown, authoritative, spawned, lock, commands>>
      /\ proc' = [proc EXCEPT ![h] = "dead"]
      /\ \A g \in Generations \ {h} : UNCHANGED <<frames[g], down[g], held[g]>>
  BY DEF ProcessEnds, supervisorVars, lockVars, counterVars, TypeOK,
         RenderersOK
<1>2. \A g \in Generations : Newborn(g)'
  BY <1>1 DEF LifeInv, Newborn, TypeOK, RenderersOK
<1>3. (cooldown => proc[authoritative] = "dead")'
  BY <1>1 DEF LifeInv, TypeOK, RenderersOK, SupervisorOK
<1> QED
  BY <1>1, <1>2, <1>3 DEF LifeInv

LEMMA LifeStep == TypeOK /\ LockObjects /\ LifeInv /\ [Next]_vars => LifeInv'
<1> SUFFICES ASSUME TypeOK, LockObjects, LifeInv, [Next]_vars PROVE LifeInv'
  OBVIOUS
<1> USE DEF supervisorVars, lockVars, rendererVars, channelVars, counterVars
<1>1. CASE LockRequestedByLogind
  BY <1>1, LifeFrame DEF LockRequestedByLogind
<1>2. CASE SendLockCommand
  <2>1. \A g \in Generations : proc[g] = "unborn" => UNCHANGED down[g]
    BY <1>2 DEF SendLockCommand, TypeOK, RenderersOK
  <2> QED
    BY <1>2, <2>1, LifeFrame DEF SendLockCommand
<1>3. CASE ReplaceDepartedRenderer
  <2>1. CASE Respawn
    BY <1>3, <2>1, LifeBirth DEF Respawn, ReplaceDepartedRenderer
  <2>2. CASE ~Respawn
    BY <1>3, <2>2 DEF ReplaceDepartedRenderer, LifeInv, Newborn
  <2> QED
    BY <2>1, <2>2
<1>4. CASE CooldownExpires
  BY <1>4, LifeBirth DEF CooldownExpires, Respawn
<1>5. CASE SupervisorStop
  BY <1>5 DEF SupervisorStop, LifeInv, Newborn, DefaultLock
<1>6. CASE SupervisorStart
  <2>1. ~cooldown'
    BY <1>6 DEF SupervisorStart, LifeInv
  <2>2. /\ up' /\ spawned < MaxGenerations
        /\ spawned' = spawned + 1 /\ authoritative' = spawned + 1
        /\ proc' = [proc EXCEPT ![spawned + 1] = "starting"]
        /\ UNCHANGED <<frames, down, held>>
    BY <1>6 DEF SupervisorStart
  <2> QED
    BY <2>1, <2>2, LifeBirth
<1>7. CASE CompositorFinishes
  BY <1>7, LifeFrame DEF CompositorFinishes
<1>8. ASSUME NEW w \in workers, NEW outcome \in PamOutcomes,
             RecordPamOutcome(w, outcome)
      PROVE  LifeInv'
  BY <1>8, LifeFrame DEF RecordPamOutcome
<1>9. ASSUME NEW t \in timers, ReleaseTimerFires(t)
      PROVE  LifeInv'
  BY <1>9, LifeFrame DEF ReleaseTimerFires
<1>10. ASSUME NEW g \in Generations, SupervisorStep(g)
       PROVE  LifeInv'
  <2>1. CASE Hydrate(g)
    BY <2>1, LifeFrame DEF Hydrate
  <2>2. ASSUME NEW kinds, Receives(g, kinds)
        PROVE  \A h \in Generations : proc[h] = "unborn" => UNCHANGED frames[h]
    BY <2>2 DEF Receives, LifeInv, Newborn, TypeOK, RenderersOK
  <2>3. CASE ~Hydrate(g)
    BY <1>10, <2>2, <2>3, LifeFrame
    DEF SupervisorStep, DropStaleFrame, RecordLockReport, DispatchLock,
        BeginAuthentication, Receives
  <2> QED
    BY <2>1, <2>3
<1>11. ASSUME NEW g \in Generations, RendererStep(g)
       PROVE  LifeInv'
  <2>1. CASE RendererConnects(g)
    <3>1. \A h \in Generations : Newborn(h)'
      BY <2>1 DEF RendererConnects, LifeInv, Newborn, TypeOK, RenderersOK
    <3>2. (cooldown => proc[authoritative] = "dead")'
      BY <2>1 DEF RendererConnects, LifeInv
    <3> QED
      BY <2>1, <3>1, <3>2 DEF RendererConnects, LifeInv
  <2>2. ASSUME NEW kind, NEW id, Sends(g, kind, id)
        PROVE  \A h \in Generations : proc[h] = "unborn" => UNCHANGED frames[h]
    BY <2>2 DEF Sends, Linked, TypeOK, RenderersOK
  <2>3. ASSUME NEW locked, Drains(g, locked)
        PROVE  /\ proc[g] = "connected"
               /\ \A h \in Generations : h # g => UNCHANGED down[h]
    BY <2>3 DEF Drains, TypeOK, RenderersOK
  <2>4. CASE HandleLockNothing(g)
    BY <2>3, <2>4, LifeFrame DEF HandleLockNothing
  <2>5. CASE HandleLockRefuse(g)
    BY <2>2, <2>3, <2>5, LifeFrame DEF HandleLockRefuse
  <2>6. CASE HandleLockAcquire(g)
    <3>1. \A h \in Generations : proc[h] = "starting" => UNCHANGED held[h]
      BY <2>3, <2>6 DEF HandleLockAcquire, TypeOK, RenderersOK
    <3> QED
      BY <2>3, <2>6, <3>1, LifeFrame DEF HandleLockAcquire
  <2>7. CASE HandleLockRelease(g)
    <3>1. \A h \in Generations : proc[h] = "starting" => UNCHANGED held[h]
      BY <2>3, <2>7 DEF HandleLockRelease, TypeOK, RenderersOK
    <3> QED
      BY <2>2, <2>3, <2>7, <3>1, LifeFrame DEF HandleLockRelease
  <2>8. CASE DispatchLocked(g) \/ DispatchFinished(g)
    <3>1. held[g] # "none"
      BY <2>8 DEF DispatchLocked, DispatchFinished, LockObjects, LockObject
    <3>2. \A h \in Generations : proc[h] = "starting" => UNCHANGED held[h]
      BY <2>8, <3>1
      DEF DispatchLocked, DispatchFinished, LifeInv, Newborn, TypeOK,
          RenderersOK
    <3> QED
      BY <2>2, <2>8, <3>2, LifeFrame DEF DispatchLocked, DispatchFinished
  <2>9. CASE RendererLosesSupervisor(g)
    BY <2>9, LifeEnds DEF RendererLosesSupervisor
  <2> QED
    BY <1>11, <2>1, <2>4, <2>5, <2>6, <2>7, <2>8, <2>9 DEF RendererStep
<1>12. ASSUME NEW g \in Generations, RendererAsksLock(g) \/ RendererSubmits(g)
       PROVE  LifeInv'
  <2>1. \A h \in Generations : proc[h] = "unborn" => UNCHANGED frames[h]
    BY <1>12
    DEF RendererAsksLock, RendererSubmits, Sends, Linked, TypeOK, RenderersOK
  <2> QED
    BY <1>12, <2>1, LifeFrame DEF RendererAsksLock, RendererSubmits
<1>13. ASSUME NEW g \in Generations, RendererDies(g)
       PROVE  LifeInv'
  BY <1>13, LifeEnds DEF RendererDies
<1>14. ASSUME NEW g \in Generations,
              ConfigReload(g) \/ CompositorGrants(g) \/ CompositorDenies(g)
       PROVE  LifeInv'
  BY <1>14, LifeFrame DEF ConfigReload, CompositorGrants, CompositorDenies
<1>15. CASE UNCHANGED vars
  BY <1>15, LifeFrame DEF vars
<1> QED
  BY <1>1, <1>2, <1>3, <1>4, <1>5, <1>6, <1>7, <1>8, <1>9, <1>10, <1>11,
     <1>12, <1>13, <1>14, <1>15 DEF Next

LEMMA LifeInit == Init => LifeInv
  BY DEF Init, LifeInv, Newborn

-----------------------------------------------------------------------------
(* Grants: what is known anywhere of the compositor's grants is behind the *)
(* compositor, and the lock that is locked now was granted last.           *)

Below(s, n) == \A i \in 1..Len(s) : s[i].grant <= n

(* The lock object of g was granted: it knows or is about to be told.      *)
Told(g) ==
  held[g] = "locked" \/ (events[g] # <<>> /\ Head(events[g]) = "locked")

GrantInv ==
  /\ \A g \in Generations : Told(g) => granted[g] # 0
  /\ \A g \in Generations : granted[g] <= comp.grant
  /\ \A g \in Generations : Below(frames[g], comp.grant)
  /\ acquired <= comp.grant
  /\ \A grant \in answered : grant <= comp.grant
  /\ lock.unlocking => acquired \in answered
  /\ comp.locked => /\ comp.owner \in Generations
                    /\ granted[comp.owner] = comp.grant
                    /\ comp.since <= comp.grant

LEMMA GrantFrame ==
  ASSUME GrantInv,
         UNCHANGED granted,
         comp'.grant = comp.grant /\ comp'.since = comp.since,
         comp'.locked => comp.locked /\ comp'.owner = comp.owner,
         \A g \in Generations : Told(g)' => Told(g),
         \A g \in Generations : Below(frames'[g], comp.grant),
         acquired' <= comp.grant,
         \A grant \in answered' : grant <= comp.grant,
         lock'.unlocking => acquired' \in answered'
  PROVE  GrantInv'
<1>1. \A g \in Generations : (Told(g) => granted[g] # 0)'
  BY DEF GrantInv
<1>2. \A g \in Generations : (granted[g] <= comp.grant)'
  BY DEF GrantInv
<1>3. \A g \in Generations : Below(frames[g], comp.grant)'
  BY DEF Below
<1>4. (comp.locked => /\ comp.owner \in Generations
                      /\ granted[comp.owner] = comp.grant
                      /\ comp.since <= comp.grant)'
  BY DEF GrantInv
<1> QED
  BY <1>1, <1>2, <1>3, <1>4 DEF GrantInv

(* A step that neither grants, reads nor sends.                            *)
LEMMA GrantSame ==
  ASSUME GrantInv,
         UNCHANGED <<held, events, frames, granted, comp, acquired, answered>>,
         lock'.unlocking => lock.unlocking
  PROVE  GrantInv'
<1>1. \A g \in Generations : Told(g)' => Told(g)
  BY DEF Told
<1>2. \A g \in Generations : Below(frames'[g], comp.grant)
  BY DEF GrantInv
<1> QED
  BY <1>1, <1>2, GrantFrame DEF GrantInv

LEMMA GrantReceive ==
  ASSUME TypeOK, GrantInv, NEW h \in Generations, NEW kinds,
         Receives(h, kinds)
  PROVE  /\ Head(frames[h]).grant <= comp.grant
         /\ \A g \in Generations : Below(frames'[g], comp.grant)
<1>1. /\ frames[h] \in Seq(Frames) /\ frames[h] # <<>>
      /\ frames'[h] = Tail(frames[h])
      /\ \A g \in Generations \ {h} : frames'[g] = frames[g]
  BY DEF Receives, TypeOK, RenderersOK
<1>2. Below(frames[h], comp.grant)
  BY DEF GrantInv
<1>3. Head(frames[h]).grant <= comp.grant
  BY <1>1, <1>2 DEF Below
<1>4. Below(frames'[h], comp.grant)
  BY <1>1, <1>2 DEF Below
<1> QED
  BY <1>1, <1>3, <1>4 DEF GrantInv

LEMMA GrantSend ==
  ASSUME TypeOK, GrantInv, NEW h \in Generations, NEW kind, NEW id,
         Sends(h, kind, id)
  PROVE  \A g \in Generations : Below(frames'[g], comp.grant)
<1> DEFINE frame == [kind |-> kind, id |-> id, grant |-> granted[h]]
<1>1. CASE frames' = frames
  BY <1>1 DEF GrantInv
<1>2. CASE frames' = [frames EXCEPT ![h] = Append(@, frame)]
  <2>1. /\ frames[h] \in Seq(Frames)
        /\ frames'[h] = Append(frames[h], frame)
        /\ \A g \in Generations \ {h} : frames'[g] = frames[g]
    BY <1>2 DEF TypeOK, RenderersOK
  <2>2. Below(frames[h], comp.grant) /\ frame.grant <= comp.grant
    BY DEF GrantInv
  <2> HIDE DEF frame
  <2>3. Below(frames'[h], comp.grant)
    BY <2>1, <2>2 DEF Below
  <2> QED
    BY <2>1, <2>3 DEF GrantInv
<1> QED
  BY <1>1, <1>2 DEF Sends

LEMMA GrantEnds ==
  ASSUME TypeOK, GrantInv, NEW h \in Generations, ProcessEnds(h)
  PROVE  GrantInv'
<1>1. PICK n \in 0..Len(frames[h]) :
        frames' = [frames EXCEPT ![h] = SubSeq(@, 1, n)]
  BY DEF ProcessEnds
<1>2. /\ frames[h] \in Seq(Frames)
      /\ frames'[h] = SubSeq(frames[h], 1, n)
      /\ \A g \in Generations \ {h} : frames'[g] = frames[g]
  BY <1>1 DEF TypeOK, RenderersOK
<1>3. Below(frames'[h], comp.grant)
  BY <1>2 DEF GrantInv, Below
<1>4. \A g \in Generations : Below(frames'[g], comp.grant)
  BY <1>2, <1>3 DEF GrantInv
<1>5. \A g \in Generations : Told(g)' => Told(g)
  BY DEF ProcessEnds, Told, TypeOK, RenderersOK
<1> QED
  BY <1>4, <1>5, GrantFrame DEF ProcessEnds, GrantInv, lockVars, historyVars

(* Releases and conversations: only a success begins a release.            *)
LEMMA GrantAnswer ==
  ASSUME TypeOK, GrantInv, NEW w \in workers, NEW outcome \in PamOutcomes,
         RecordPamOutcome(w, outcome)
  PROVE  GrantInv'
<1>1. /\ UNCHANGED <<held, events, frames, granted, comp, acquired>>
      /\ lock \in LockStates
  BY DEF RecordPamOutcome, rendererVars, channelVars, compositorVars, TypeOK,
         SupervisorOK
<1>2. CASE UNCHANGED <<lock, answered>>
  BY <1>1, <1>2, GrantSame
<1>3. CASE lock' = Authenticated(lock, outcome) /\ outcome # "success"
           /\ UNCHANGED answered
  <2>1. lock'.unlocking = lock.unlocking
    BY <1>1, <1>3 DEF Authenticated, LockStates
  <2> QED
    BY <1>1, <1>3, <2>1, GrantSame
<1>4. CASE answered' = answered \union {acquired}
  <2>1. \A g \in Generations : Told(g)' => Told(g)
    BY <1>1 DEF Told
  <2>2. \A g \in Generations : Below(frames'[g], comp.grant)
    BY <1>1 DEF GrantInv
  <2>3. \A grant \in answered' : grant <= comp.grant
    BY <1>4 DEF GrantInv
  <2>4. acquired' <= comp.grant /\ acquired' \in answered'
    BY <1>1, <1>4 DEF GrantInv
  <2> QED
    BY <1>1, <2>1, <2>2, <2>3, <2>4, GrantFrame
<1> QED
  BY <1>2, <1>3, <1>4 DEF RecordPamOutcome

LEMMA GrantReport ==
  ASSUME TypeOK, GrantInv, NEW h \in Generations, RecordLockReport(h)
  PROVE  GrantInv'
<1> DEFINE kind == Head(frames[h]).kind
<1>1. /\ kind \in LockOutcomes
      /\ lock' = Reported(lock, kind)
      /\ acquired' = IF kind = "locked" THEN Head(frames[h]).grant ELSE acquired
      /\ UNCHANGED <<held, events, granted, comp, answered>>
      /\ Receives(h, LockOutcomes)
  BY DEF RecordLockReport, Receives, rendererVars, compositorVars
<1>2. lock \in LockStates
  BY DEF TypeOK, SupervisorOK
<1>3. \A g \in Generations : Told(g)' => Told(g)
  BY <1>1 DEF Told
<1>4. /\ acquired' <= comp.grant
      /\ \A g \in Generations : Below(frames'[g], comp.grant)
  BY <1>1, GrantReceive DEF GrantInv
<1> HIDE DEF kind
<1>5. lock'.unlocking => lock.unlocking /\ kind # "locked"
  <2>1. CASE kind = "locked"
    BY <1>1, <1>2, <2>1 DEF Reported, ReportedLocked, LockStates
  <2>2. CASE kind = "refused"
    BY <1>1, <1>2, <2>2 DEF Reported, ReportedRefused, LockStates
  <2>3. CASE kind \in {"finished", "unlocked"}
    BY <1>1, <1>2, <2>3 DEF Reported, ReportedEnded, LockStates
  <2> QED
    BY <1>1, <2>1, <2>2, <2>3 DEF LockOutcomes
<1>6. lock'.unlocking => acquired' \in answered'
  BY <1>1, <1>5 DEF GrantInv
<1>7. \A grant \in answered' : grant <= comp.grant
  BY <1>1 DEF GrantInv
<1> QED
  BY <1>1, <1>3, <1>4, <1>6, <1>7, GrantFrame

(* The compositor's own steps.                                             *)
LEMMA GrantGrants ==
  ASSUME TypeOK, LockObjects, GrantInv, NEW h \in Generations,
         CompositorGrants(h)
  PROVE  GrantInv'
<1>1. /\ comp' = [locked |-> TRUE, owner |-> h, grant |-> comp.grant + 1,
                  since |-> IF comp.locked THEN comp.since ELSE comp.grant + 1]
      /\ granted' = [granted EXCEPT ![h] = comp.grant + 1]
      /\ events' = [events EXCEPT ![h] = Append(@, "locked")]
      /\ UNCHANGED <<held, frames, acquired, answered, lock>>
  BY DEF CompositorGrants, rendererVars, lockVars, historyVars
<1>2. comp.grant \in Nat /\ comp'.grant = comp.grant + 1 /\ comp.since \in Nat
  BY <1>1 DEF TypeOK, CompositorOK
<1>3. /\ granted'[h] = comp.grant + 1
      /\ \A g \in Generations \ {h} :
           granted'[g] = granted[g] /\ events'[g] = events[g]
  BY <1>1 DEF TypeOK, RenderersOK, CompositorOK
<1>4. \A g \in Generations : (Told(g) => granted[g] # 0)'
  BY <1>1, <1>2, <1>3 DEF GrantInv, Told
<1>5. \A g \in Generations : (granted[g] <= comp.grant)'
  BY <1>2, <1>3 DEF GrantInv, TypeOK, CompositorOK
<1>6. ASSUME NEW g \in Generations
      PROVE  Below(frames[g], comp.grant)'
  <2>1. frames[g] \in Seq(Frames) /\ Below(frames[g], comp.grant)
    BY DEF GrantInv, TypeOK, RenderersOK
  <2>2. ASSUME NEW i \in 1..Len(frames[g])
        PROVE  frames[g][i].grant <= comp.grant + 1
    <3>1. frames[g][i] \in Frames /\ frames[g][i].grant <= comp.grant
      BY <2>1 DEF Below
    <3> QED
      BY <1>2, <3>1 DEF Frames
  <2> QED
    BY <1>1, <1>2, <2>2 DEF Below
<1>7. /\ acquired' <= comp'.grant
      /\ \A grant \in answered' : grant <= comp'.grant
      /\ lock'.unlocking => acquired' \in answered'
  BY <1>1, <1>2 DEF GrantInv, TypeOK, SupervisorOK
<1>8. /\ comp'.owner \in Generations /\ granted'[comp'.owner] = comp'.grant
      /\ comp'.since <= comp'.grant
  BY <1>1, <1>2, <1>3 DEF GrantInv
<1> QED
  BY <1>4, <1>5, <1>6, <1>7, <1>8 DEF GrantInv

LEMMA GrantStep ==
  TypeOK /\ LockObjects /\ GrantInv /\ [Next]_vars => GrantInv'
<1> SUFFICES ASSUME TypeOK, LockObjects, GrantInv, [Next]_vars
             PROVE  GrantInv'
  OBVIOUS
<1> USE DEF supervisorVars, lockVars, rendererVars, channelVars,
            compositorVars, historyVars, counterVars
<1>0. lock \in LockStates
  BY DEF TypeOK, SupervisorOK
<1>1. LockCall => (lock'.unlocking => lock.unlocking)
  BY <1>0 DEF LockCall, LockRequested, LockStates
<1>2. Respawn => (lock'.unlocking => lock.unlocking)
  BY <1>0 DEF Respawn, RendererLost, LockStates
<1>3. \A g \in Generations : Below(frames[g], comp.grant)
  BY DEF GrantInv
<1>4. CASE LockRequestedByLogind
  BY <1>1, <1>4, GrantSame DEF LockRequestedByLogind
<1>5. CASE SendLockCommand
  BY <1>5, GrantSame DEF SendLockCommand
<1>6. CASE ReplaceDepartedRenderer
  BY <1>2, <1>6, GrantSame DEF ReplaceDepartedRenderer, Respawn
<1>7. CASE CooldownExpires
  BY <1>2, <1>7, GrantSame DEF CooldownExpires, Respawn
<1>8. CASE SupervisorStop
  <2>1. \A g \in Generations : Below(frames'[g], comp.grant)
    BY <1>8 DEF SupervisorStop, Below
  <2>2. \A g \in Generations : Told(g)' => Told(g)
    BY <1>8 DEF SupervisorStop, Told
  <2>3. acquired' <= comp.grant /\ ~lock'.unlocking
    BY <1>8 DEF SupervisorStop, DefaultLock, TypeOK, CompositorOK
  <2> QED
    BY <1>8, <2>1, <2>2, <2>3, GrantFrame DEF SupervisorStop, GrantInv
<1>9. CASE SupervisorStart
  BY <1>9, GrantSame DEF SupervisorStart
<1>10. CASE CompositorFinishes
  <2>1. /\ ~comp'.locked /\ comp'.grant = comp.grant
        /\ comp'.since = comp.since
    BY <1>10 DEF CompositorFinishes, TypeOK, CompositorOK
  <2>2. ASSUME NEW g \in Generations, Told(g)'
        PROVE  Told(g)
    <3>1. CASE g = comp.owner
      <4>1. held[g] = "locked" \/ events[g] = <<"locked">>
        BY <1>10, <3>1 DEF CompositorFinishes, LockObjects, LockObject, Owns
      <4>2. <<"locked">> # <<>> /\ Head(<<"locked">>) = "locked"
        OBVIOUS
      <4> QED
        BY <4>1, <4>2 DEF Told
    <3>2. CASE g # comp.owner
      BY <1>10, <2>2, <3>2 DEF CompositorFinishes, Told, TypeOK, RenderersOK
    <3> QED
      BY <3>1, <3>2
  <2> QED
    BY <1>3, <1>10, <2>1, <2>2, GrantFrame DEF CompositorFinishes, GrantInv
<1>11. ASSUME NEW t \in timers, ReleaseTimerFires(t)
       PROVE  GrantInv'
  BY <1>11, GrantSame DEF ReleaseTimerFires
<1>12. ASSUME NEW g \in Generations, SupervisorStep(g)
       PROVE  GrantInv'
  <2>1. CASE Hydrate(g)
    BY <1>1, <2>1, GrantSame DEF Hydrate
  <2>2. CASE DropStaleFrame(g) \/ DispatchLock(g) \/ BeginAuthentication(g)
    <3>1. /\ \A h \in Generations : Below(frames'[h], comp.grant)
          /\ UNCHANGED <<held, events, granted, comp, acquired, answered>>
      BY <2>2, GrantReceive
      DEF DropStaleFrame, DispatchLock, BeginAuthentication
    <3>2. \A h \in Generations : Told(h)' => Told(h)
      BY <3>1 DEF Told
    <3>3. lock'.unlocking => lock.unlocking
      BY <1>0, <1>1, <2>2
      DEF DropStaleFrame, DispatchLock, BeginAuthentication,
          AuthenticationStarted, LockStates
    <3> QED
      BY <3>1, <3>2, <3>3, GrantFrame DEF GrantInv
  <2> QED
    BY <1>12, <2>1, <2>2, GrantReport DEF SupervisorStep
<1>13. ASSUME NEW g \in Generations, RendererStep(g)
       PROVE  GrantInv'
  <2>1. CASE RendererConnects(g)
    BY <2>1, GrantSame DEF RendererConnects
  <2>2. CASE HandleLockNothing(g)
    BY <2>2, GrantSame DEF HandleLockNothing
  <2>3. CASE HandleLockRefuse(g)
    <3>1. \A h \in Generations : Told(h)' => Told(h)
      BY <2>3 DEF HandleLockRefuse, Told
    <3>2. \A h \in Generations : Below(frames'[h], comp.grant)
      BY <2>3, GrantSend DEF HandleLockRefuse
    <3> QED
      BY <2>3, <3>1, <3>2, GrantFrame DEF HandleLockRefuse, GrantInv
  <2>4. CASE HandleLockAcquire(g)
    <3>1. \A h \in Generations : Told(h)' => Told(h)
      BY <2>4 DEF HandleLockAcquire, Told, TypeOK, RenderersOK
    <3> QED
      BY <1>3, <2>4, <3>1, GrantFrame DEF HandleLockAcquire, GrantInv
  <2>5. CASE HandleLockRelease(g)
    <3>1. \A h \in Generations : Told(h)' => Told(h)
      BY <2>5 DEF HandleLockRelease, Told, TypeOK, RenderersOK
    <3>2. \A h \in Generations : Below(frames'[h], comp.grant)
      BY <2>5, GrantSend DEF HandleLockRelease
    <3>3. /\ comp'.grant = comp.grant /\ comp'.since = comp.since
          /\ comp'.locked => comp.locked /\ comp'.owner = comp.owner
      BY <2>5 DEF HandleLockRelease, TypeOK, CompositorOK
    <3> QED
      BY <2>5, <3>1, <3>2, <3>3, GrantFrame DEF HandleLockRelease, GrantInv
  <2>6. CASE DispatchLocked(g)
    <3>1. \A h \in Generations : Told(h)' => Told(h)
      BY <2>6 DEF DispatchLocked, Told, TypeOK, RenderersOK
    <3>2. \A h \in Generations : Below(frames'[h], comp.grant)
      BY <2>6, GrantSend DEF DispatchLocked
    <3> QED
      BY <2>6, <3>1, <3>2, GrantFrame DEF DispatchLocked, GrantInv
  <2>7. CASE DispatchFinished(g)
    <3>1. events[g] = <<"finished">> /\ Tail(<<"finished">>) = <<>>
      BY <2>7
      DEF DispatchFinished, LockObjects, LockObject, TypeOK, RenderersOK
    <3>2. \A h \in Generations : Told(h)' => Told(h)
      BY <2>7, <3>1 DEF DispatchFinished, Told, TypeOK, RenderersOK
    <3>3. \A h \in Generations : Below(frames'[h], comp.grant)
      BY <2>7, GrantSend DEF DispatchFinished
    <3> QED
      BY <2>7, <3>2, <3>3, GrantFrame DEF DispatchFinished, GrantInv
  <2>8. CASE RendererLosesSupervisor(g)
    BY <2>8, GrantEnds DEF RendererLosesSupervisor
  <2> QED
    BY <1>13, <2>1, <2>2, <2>3, <2>4, <2>5, <2>6, <2>7, <2>8 DEF RendererStep
<1>14. ASSUME NEW g \in Generations, RendererAsksLock(g) \/ RendererSubmits(g)
       PROVE  GrantInv'
  <2>1. \A h \in Generations : Told(h)' => Told(h)
    BY <1>14 DEF RendererAsksLock, RendererSubmits, Told
  <2>2. \A h \in Generations : Below(frames'[h], comp.grant)
    BY <1>14, GrantSend DEF RendererAsksLock, RendererSubmits
  <2> QED
    BY <1>14, <2>1, <2>2, GrantFrame
    DEF RendererAsksLock, RendererSubmits, GrantInv
<1>15. ASSUME NEW g \in Generations, RendererDies(g)
       PROVE  GrantInv'
  BY <1>15, GrantEnds DEF RendererDies
<1>16. ASSUME NEW g \in Generations, ConfigReload(g)
       PROVE  GrantInv'
  BY <1>16, GrantSame DEF ConfigReload
<1>17. ASSUME NEW g \in Generations, CompositorDenies(g)
       PROVE  GrantInv'
  <2>1. events[g] = <<>>
    BY <1>17
    DEF CompositorDenies, LockObjects, LockObject, TypeOK, RenderersOK
  <2>2. events'[g] = <<"finished">> /\ Head(<<"finished">>) = "finished"
    BY <1>17, <2>1, EventQueues DEF CompositorDenies, TypeOK, RenderersOK
  <2>3. \A h \in Generations : Told(h)' => Told(h)
    BY <1>17, <2>2 DEF CompositorDenies, Told, TypeOK, RenderersOK
  <2> QED
    BY <1>3, <1>17, <2>3, GrantFrame DEF CompositorDenies, GrantInv
<1>18. CASE UNCHANGED vars
  BY <1>18, GrantSame DEF vars
<1> QED
  BY <1>4, <1>5, <1>6, <1>7, <1>8, <1>9, <1>10, <1>11, <1>12, <1>13, <1>14,
     <1>15, <1>16, <1>17, <1>18, GrantAnswer, GrantGrants DEF Next

LEMMA GrantInit == Init => GrantInv
  BY DEF Init, GrantInv, Told, Below, DefaultLock

-----------------------------------------------------------------------------
(* The frames of the authoritative generation lead from what the record of *)
(* the Supervisor says is on the glass to what the generation shows there. *)

Recorded == IF lock.active THEN acquired ELSE 0
Shown(g) == IF held[g] = "locked" THEN granted[g] ELSE 0

PathInv ==
  /\ lock.active => acquired # 0
  /\ (up /\ ~cooldown) =>
       \E x \in Nat : /\ Path(frames[authoritative], Recorded, x)
                      /\ Alive(authoritative) => x = Shown(authoritative)

LEMMA GlassType ==
  ASSUME TypeOK
  PROVE  Recorded \in Nat /\ \A g \in Generations : Shown(g) \in Nat
  BY DEF TypeOK, SupervisorOK, CompositorOK, Recorded, Shown

LEMMA PathFrame ==
  ASSUME PathInv,
         UNCHANGED <<up, cooldown, authoritative, acquired>>,
         lock'.active <=> lock.active,
         up => frames'[authoritative] = frames[authoritative],
         up /\ Alive(authoritative)' =>
           Alive(authoritative)
             /\ Shown(authoritative)' = Shown(authoritative)
  PROVE  PathInv'
<1>1. Recorded' = Recorded /\ (lock.active => acquired # 0)'
  BY DEF Recorded, PathInv
<1>2. ASSUME up', ~cooldown'
      PROVE  \E x \in Nat : /\ Path(frames'[authoritative], Recorded', x)
                            /\ Alive(authoritative)' => x = Shown(authoritative)'
  <2>1. PICK x \in Nat : /\ Path(frames[authoritative], Recorded, x)
                         /\ Alive(authoritative) => x = Shown(authoritative)
    BY <1>2 DEF PathInv
  <2> QED
    BY <1>1, <1>2, <2>1
<1> QED
  BY <1>1, <1>2 DEF PathInv

(* A spawned generation has sent nothing and shows nothing; the record was *)
(* reset for it.                                                           *)
LEMMA PathBirth ==
  ASSUME ~lock'.active, frames'[authoritative'] = <<>>,
         held'[authoritative'] = "none"
  PROVE  PathInv'
<1>1. Path(<<>>, 0, 0)
  BY PathEmpty
<1>2. Recorded' = 0 /\ Shown(authoritative)' = 0
  BY DEF Recorded, Shown
<1> QED
  BY <1>1, <1>2 DEF PathInv

LEMMA PathSpawn ==
  ASSUME TypeOK, LockObjects, LifeInv, spawned < MaxGenerations,
         authoritative' = spawned + 1, ~lock'.active, UNCHANGED <<frames, held>>
  PROVE  PathInv'
<1>1. spawned + 1 \in Generations /\ spawned + 1 > spawned
  BY BoundsAssumption DEF TypeOK, SupervisorOK, Generations
<1>2. proc[spawned + 1] = "unborn" /\ held[spawned + 1] = "none"
  BY <1>1 DEF LockObjects, LockObject, Alive
<1>3. frames[spawned + 1] = <<>>
  BY <1>1, <1>2 DEF LifeInv, Newborn
<1> QED
  BY <1>2, <1>3, PathBirth

(* The Supervisor reads the head of the path.                              *)
LEMMA PathRead ==
  ASSUME TypeOK, LifeInv, PathInv, NEW g \in Generations, NEW kinds,
         Receives(g, kinds), Live(g)
  PROVE  /\ Head(frames[g]) \in Frames /\ Head(frames[g]).kind \in kinds
         /\ frames'[g] = Tail(frames[g])
         /\ \E d, x \in Nat :
              /\ Moves(Recorded, Head(frames[g]), d)
              /\ Path(Tail(frames[g]), d, x)
              /\ Alive(g) => x = Shown(g)
<1>1. /\ up /\ ~cooldown /\ g = authoritative
      /\ frames[g] \in Seq(Frames) /\ frames[g] # <<>>
      /\ frames'[g] = Tail(frames[g]) /\ Head(frames[g]).kind \in kinds
  BY DEF Receives, Live, TypeOK, RenderersOK
<1>2. PICK x \in Nat : /\ Path(frames[g], Recorded, x)
                       /\ Alive(g) => x = Shown(g)
  BY <1>1 DEF PathInv
<1>3. Head(frames[g]) \in Frames
  BY <1>1
<1>4. Recorded \in Nat
  BY GlassType
<1>5. \E d \in Nat : Moves(Recorded, Head(frames[g]), d)
                       /\ Path(Tail(frames[g]), d, x)
  BY <1>1, <1>2, <1>4, PathPop
<1> QED
  BY <1>1, <1>2, <1>3, <1>5

(* Reading what is no report moves nothing.                                *)
LEMMA PathSkip ==
  ASSUME TypeOK, LifeInv, PathInv, NEW g \in Generations,
         NEW kinds \in SUBSET {"lock", "submit"},
         Receives(g, kinds), Live(g),
         UNCHANGED <<up, cooldown, authoritative, acquired, proc, held, granted>>,
         lock'.active <=> lock.active
  PROVE  PathInv'
<1>1. PICK d, x \in Nat : /\ Moves(Recorded, Head(frames[g]), d)
                          /\ Path(Tail(frames[g]), d, x)
                          /\ Alive(g) => x = Shown(g)
  BY PathRead
<1>2. Head(frames[g]).kind \in {"lock", "submit"}
  BY PathRead
<1>3. d = Recorded
  BY <1>1, <1>2 DEF Moves
<1>4. g = authoritative /\ frames'[g] = Tail(frames[g])
  BY PathRead DEF Live
<1>5. Recorded' = Recorded /\ (lock.active => acquired # 0)'
  BY DEF Recorded, PathInv
<1>6. Path(frames'[authoritative'], Recorded', x)
  BY <1>1, <1>3, <1>4, <1>5
<1>7. Alive(authoritative)' => x = Shown(authoritative)'
  BY <1>1, <1>4 DEF Alive, Shown
<1> QED
  BY <1>5, <1>6, <1>7 DEF PathInv

LEMMA PathReport ==
  ASSUME TypeOK, LifeInv, PathInv, NEW g \in Generations, RecordLockReport(g)
  PROVE  PathInv'
<1> DEFINE kind == Head(frames[g]).kind
<1>1. /\ Receives(g, LockOutcomes) /\ Live(g) /\ g = authoritative
      /\ lock' = Reported(lock, kind)
      /\ acquired' = IF kind = "locked" THEN Head(frames[g]).grant ELSE acquired
      /\ UNCHANGED <<authoritative, proc, held, granted>>
  BY DEF RecordLockReport, Live, supervisorVars, rendererVars, compositorVars
<1>2. PICK d, x \in Nat : /\ Moves(Recorded, Head(frames[g]), d)
                          /\ Path(Tail(frames[g]), d, x)
                          /\ Alive(g) => x = Shown(g)
  BY <1>1, PathRead
<1>3. /\ kind \in LockOutcomes
      /\ frames'[g] = Tail(frames[g])
  BY <1>1, PathRead
<1>4. lock \in LockStates /\ (lock.active => acquired # 0)
  BY DEF TypeOK, SupervisorOK, PathInv
<1>5. Moves(Recorded, Head(frames[g]), d) <=>
        /\ kind = "locked"  => Recorded = 0 /\ d = Head(frames[g]).grant /\ d # 0
        /\ kind = "refused" => Recorded = 0 /\ d = 0
        /\ kind \in Ended   => Recorded # 0 /\ d = 0
        /\ kind = "submit"  => /\ Recorded = Head(frames[g]).grant
                               /\ d = Recorded /\ Recorded # 0
        /\ kind = "lock"    => d = Recorded
  BY DEF Moves
<1> HIDE DEF kind
<1>6. Recorded' = d /\ (lock.active => acquired # 0)'
  <2>1. CASE kind = "locked"
    <3>1. lock'.active
      BY <1>1, <1>4, <2>1 DEF Reported, ReportedLocked, LockStates
    <3> QED
      BY <1>1, <1>2, <1>5, <2>1, <3>1 DEF Recorded
  <2>2. CASE kind = "refused"
    <3>1. lock'.active <=> lock.active
      BY <1>1, <1>4, <2>2 DEF Reported, ReportedRefused, LockStates
    <3> QED
      BY <1>1, <1>2, <1>4, <1>5, <2>2, <3>1 DEF Recorded
  <2>3. CASE kind \in Ended
    <3>1. ~lock'.active
      BY <1>1, <1>4, <2>3 DEF Reported, ReportedEnded, LockStates, Ended
    <3> QED
      BY <1>2, <1>5, <2>3, <3>1 DEF Recorded
  <2> QED
    BY <1>3, <2>1, <2>2, <2>3 DEF LockOutcomes, Ended
<1>7. Path(frames'[authoritative'], Recorded', x)
  BY <1>1, <1>2, <1>3, <1>6
<1>8. Alive(authoritative)' => x = Shown(authoritative)'
  BY <1>1, <1>2 DEF Alive, Shown
<1> QED
  BY <1>6, <1>7, <1>8 DEF PathInv

(* A generation sends what it does to the glass.                           *)
LEMMA PathSend ==
  ASSUME TypeOK, LifeInv, PathInv, NEW g \in Generations,
         NEW kind \in FrameKinds, NEW id \in Nat, Sends(g, kind, id),
         proc[g] = "connected",
         UNCHANGED <<up, cooldown, authoritative, lock, acquired, proc, granted>>,
         \A h \in Generations \ {g} : held'[h] = held[h],
         NEW d \in Nat, Shown(g)' = d,
         Moves(Shown(g), [kind |-> kind, id |-> id, grant |-> granted[g]], d)
  PROVE  PathInv'
<1> DEFINE frame == [kind |-> kind, id |-> id, grant |-> granted[g]]
<1>1. authoritative \in Generations
  BY DEF TypeOK, SupervisorOK
<1>2. CASE up /\ g = authoritative
  <2>1. Linked(g) /\ ~cooldown /\ Alive(g)
    BY <1>2 DEF Linked, LifeInv, Alive
  <2>2. frames[g] \in Seq(Frames) /\ frame \in Frames
    BY DEF TypeOK, RenderersOK, CompositorOK, Frames
  <2>3. frames'[g] = Append(frames[g], frame)
    BY <2>1 DEF Sends, TypeOK, RenderersOK
  <2>4. Path(frames[g], Recorded, Shown(g))
    BY <1>2, <2>1 DEF PathInv
  <2>5. Recorded \in Nat /\ Shown(g) \in Nat
    BY GlassType
  <2> HIDE DEF frame
  <2>6. Path(Append(frames[g], frame), Recorded, d)
    BY <2>2, <2>4, <2>5, PathPush DEF frame
  <2>7. Recorded' = Recorded /\ (lock.active => acquired # 0)'
    BY DEF Recorded, PathInv
  <2>8. Path(frames'[authoritative'], Recorded', d)
    BY <1>2, <2>3, <2>6, <2>7
  <2>9. d = Shown(authoritative)'
    BY <1>2 DEF Shown
  <2> QED
    BY <2>7, <2>8, <2>9 DEF PathInv
<1>3. CASE ~up \/ g # authoritative
  <2>1. frames' = frames
    BY <1>3 DEF Sends, Linked
  <2>2. up => Shown(authoritative)' = Shown(authoritative)
    BY <1>1, <1>3 DEF Shown
  <2> QED
    BY <2>1, <2>2, PathFrame DEF Alive
<1> QED
  BY <1>2, <1>3

LEMMA PathEnds ==
  ASSUME TypeOK, PathInv, NEW h \in Generations, ProcessEnds(h)
  PROVE  PathInv'
<1>1. PICK n \in 0..Len(frames[h]) :
        frames' = [frames EXCEPT ![h] = SubSeq(@, 1, n)]
  BY DEF ProcessEnds
<1>2. /\ proc'[h] = "dead" /\ frames'[h] = SubSeq(frames[h], 1, n)
      /\ frames[h] \in Seq(Frames)
      /\ \A g \in Generations \ {h} :
           UNCHANGED <<proc[g], frames[g], held[g]>>
      /\ UNCHANGED <<up, cooldown, authoritative, lock, acquired, granted>>
  BY <1>1
  DEF ProcessEnds, TypeOK, RenderersOK, supervisorVars, lockVars, historyVars
<1>3. Recorded' = Recorded /\ (lock.active => acquired # 0)'
  BY <1>2 DEF Recorded, PathInv
<1>4. CASE h = authoritative /\ up /\ ~cooldown
  <2>1. PICK x \in Nat : Path(frames[h], Recorded, x)
    BY <1>4 DEF PathInv
  <2>2. PICK y \in Nat : Path(SubSeq(frames[h], 1, n), Recorded, y)
    BY <1>2, <2>1, GlassType, PathPrefix
  <2>3. ~Alive(authoritative)'
    BY <1>2, <1>4 DEF Alive
  <2>4. Path(frames'[authoritative'], Recorded', y)
    BY <1>2, <1>3, <1>4, <2>2
  <2> QED
    BY <1>3, <2>3, <2>4 DEF PathInv
<1>5. CASE h # authoritative
  <2>1. authoritative \in Generations \ {h}
    BY <1>5 DEF TypeOK, SupervisorOK
  <2>2. UNCHANGED <<proc[authoritative], frames[authoritative],
                    held[authoritative]>>
    BY <1>2, <2>1
  <2> QED
    BY <1>2, <2>2, PathFrame DEF Alive, Shown
<1>6. CASE ~(up /\ ~cooldown)
  BY <1>2, <1>3, <1>6 DEF PathInv
<1> QED
  BY <1>4, <1>5, <1>6

(* The four things a generation tells, each with what became of its glass. *)
LEMMA PathRelease ==
  ASSUME TypeOK, LifeInv, PathInv, GrantInv, NEW g \in Generations,
         HandleLockRelease(g)
  PROVE  PathInv'
<1> DEFINE kind == IF held[g] = "locked" THEN "unlocked" ELSE "refused"
<1>1. /\ held' = [held EXCEPT ![g] = "none"] /\ held[g] # "none"
      /\ Sends(g, kind, 0) /\ proc[g] = "connected"
      /\ UNCHANGED <<up, cooldown, authoritative, lock, acquired, proc,
                     granted>>
  BY DEF HandleLockRelease, Drains, supervisorVars, lockVars, historyVars
<1>2. /\ \A h \in Generations \ {g} : held'[h] = held[h]
      /\ Shown(g)' = 0
  BY <1>1 DEF Shown, TypeOK, RenderersOK
<1>3. held[g] = "locked" => granted[g] # 0
  BY DEF GrantInv, Told
<1>4. kind \in FrameKinds
  BY DEF FrameKinds, LockOutcomes
<1>5. Moves(Shown(g), [kind |-> kind, id |-> 0, grant |-> granted[g]], 0)
  BY <1>3 DEF Moves, Shown, Ended
<1> HIDE DEF kind
<1> QED
  BY <1>1, <1>2, <1>4, <1>5, PathSend

LEMMA PathLocked ==
  ASSUME TypeOK, LockObjects, LifeInv, PathInv, GrantInv,
         NEW g \in Generations, DispatchLocked(g)
  PROVE  PathInv'
<1>1. /\ held' = [held EXCEPT ![g] = "locked"]
      /\ Sends(g, "locked", 0) /\ Alive(g)
      /\ events[g] # <<>> /\ Head(events[g]) = "locked"
      /\ UNCHANGED <<up, cooldown, authoritative, lock, acquired, proc,
                     granted>>
  BY DEF DispatchLocked, supervisorVars, lockVars, historyVars, compositorVars
<1>2. held[g] = "requested" /\ granted[g] # 0
  BY <1>1 DEF LockObjects, LockObject, GrantInv, Told, TypeOK, RenderersOK
<1>3. proc[g] = "connected"
  BY <1>1, <1>2 DEF LifeInv, Newborn, Alive
<1>4. granted[g] \in Nat
  BY DEF TypeOK, CompositorOK
<1>5. /\ \A h \in Generations \ {g} : held'[h] = held[h]
      /\ Shown(g) = 0 /\ Shown(g)' = granted[g]
  BY <1>1, <1>2 DEF Shown, TypeOK, RenderersOK
<1>6. Moves(Shown(g), [kind |-> "locked", id |-> 0, grant |-> granted[g]],
            granted[g])
  BY <1>2, <1>5 DEF Moves, Ended
<1>7. "locked" \in FrameKinds
  BY DEF FrameKinds, LockOutcomes
<1> QED
  BY <1>1, <1>3, <1>4, <1>5, <1>6, <1>7, PathSend

LEMMA PathFinished ==
  ASSUME TypeOK, LockObjects, LifeInv, PathInv, GrantInv,
         NEW g \in Generations, DispatchFinished(g)
  PROVE  PathInv'
<1> DEFINE kind == IF held[g] = "locked" THEN "finished" ELSE "refused"
<1>1. /\ held' = [held EXCEPT ![g] = "none"]
      /\ Sends(g, kind, 0) /\ Alive(g) /\ events[g] # <<>>
      /\ UNCHANGED <<up, cooldown, authoritative, lock, acquired, proc,
                     granted>>
  BY DEF DispatchFinished, supervisorVars, lockVars, historyVars,
         compositorVars
<1>2. held[g] # "none"
  BY <1>1 DEF LockObjects, LockObject
<1>3. proc[g] = "connected"
  BY <1>1, <1>2 DEF LifeInv, Newborn, Alive
<1>4. held[g] = "locked" => granted[g] # 0
  BY DEF GrantInv, Told
<1>5. /\ \A h \in Generations \ {g} : held'[h] = held[h]
      /\ Shown(g)' = 0
  BY <1>1 DEF Shown, TypeOK, RenderersOK
<1>6. kind \in FrameKinds
  BY DEF FrameKinds, LockOutcomes
<1>7. Moves(Shown(g), [kind |-> kind, id |-> 0, grant |-> granted[g]], 0)
  BY <1>4 DEF Moves, Shown, Ended
<1> HIDE DEF kind
<1> QED
  BY <1>1, <1>3, <1>5, <1>6, <1>7, PathSend

LEMMA PathTalk ==
  ASSUME TypeOK, LockObjects, LifeInv, PathInv, GrantInv,
         NEW g \in Generations,
         HandleLockRefuse(g) \/ RendererAsksLock(g) \/ RendererSubmits(g)
  PROVE  PathInv'
<1>1. /\ UNCHANGED <<up, cooldown, authoritative, lock, acquired, proc, held,
                     granted>>
      /\ proc[g] = "connected"
  BY DEF HandleLockRefuse, RendererAsksLock, RendererSubmits, Drains, Linked,
         supervisorVars, lockVars, historyVars, compositorVars, rendererVars
<1>2. Shown(g)' = Shown(g) /\ Shown(g) \in Nat
  BY <1>1, GlassType DEF Shown
<1>3. {"refused", "lock", "submit"} \subseteq FrameKinds
  BY DEF FrameKinds, LockOutcomes
<1>4. CASE HandleLockRefuse(g)
  <2>1. Sends(g, "refused", 0) /\ Shown(g) = 0
    BY <1>4 DEF HandleLockRefuse, Shown
  <2>2. Moves(0, [kind |-> "refused", id |-> 0, grant |-> granted[g]], 0)
    BY DEF Moves, Ended
  <2> QED
    BY <1>1, <1>2, <1>3, <2>1, <2>2, PathSend
<1>5. CASE RendererAsksLock(g)
  <2>1. Sends(g, "lock", 0)
    BY <1>5 DEF RendererAsksLock
  <2>2. Moves(Shown(g), [kind |-> "lock", id |-> 0, grant |-> granted[g]],
              Shown(g))
    BY DEF Moves, Ended
  <2> QED
    BY <1>1, <1>2, <1>3, <2>1, <2>2, PathSend
<1>6. CASE RendererSubmits(g)
  <2>1. /\ Sends(g, "submit", submits + 1) /\ submits + 1 \in Nat
        /\ held[g] = "locked"
    BY <1>6 DEF RendererSubmits, TypeOK, SupervisorOK
  <2>2. granted[g] # 0 /\ Shown(g) = granted[g]
    BY <2>1 DEF GrantInv, Told, Shown
  <2>3. Moves(Shown(g), [kind |-> "submit", id |-> submits + 1,
                         grant |-> granted[g]], Shown(g))
    BY <2>2 DEF Moves, Ended
  <2> QED
    BY <1>1, <1>2, <1>3, <2>1, <2>3, PathSend
<1> QED
  BY <1>4, <1>5, <1>6

ChainInv == LockObjects /\ LifeInv /\ GrantInv /\ PathInv

LEMMA PathStep == TypeOK /\ ChainInv /\ [Next]_vars => PathInv'
<1> SUFFICES ASSUME TypeOK, ChainInv, [Next]_vars PROVE PathInv'
  OBVIOUS
<1> USE DEF ChainInv, supervisorVars, lockVars, rendererVars, channelVars,
            compositorVars, historyVars, counterVars
<1>0. lock \in LockStates
  BY DEF TypeOK, SupervisorOK
<1>1. LockCall => (lock'.active <=> lock.active)
  BY <1>0 DEF LockCall, LockRequested, LockStates
<1>2. Respawn => PathInv'
  <2>1. Respawn => ~lock'.active
    BY <1>0 DEF Respawn, RendererLost, LockStates
  <2> QED
    BY <2>1, PathSpawn DEF Respawn
<1>3. UNCHANGED <<proc, held, granted, authoritative>> =>
        /\ Alive(authoritative)' => Alive(authoritative)
        /\ Shown(authoritative)' = Shown(authoritative)
  BY DEF Alive, Shown
<1>4. CASE LockRequestedByLogind
  BY <1>1, <1>3, <1>4, PathFrame DEF LockRequestedByLogind
<1>5. CASE SendLockCommand
  BY <1>3, <1>5, PathFrame DEF SendLockCommand
<1>6. CASE ReplaceDepartedRenderer
  <2>1. CASE cooldown' /\ UNCHANGED <<lock, acquired>>
    BY <2>1 DEF PathInv
  <2> QED
    BY <1>2, <1>6, <2>1 DEF ReplaceDepartedRenderer
<1>7. CASE CooldownExpires
  BY <1>2, <1>7 DEF CooldownExpires
<1>8. CASE SupervisorStop
  BY <1>8 DEF SupervisorStop, DefaultLock, PathInv
<1>9. CASE SupervisorStart
  BY <1>9, PathSpawn DEF SupervisorStart, LifeInv
<1>10. CASE CompositorFinishes
  BY <1>3, <1>10, PathFrame DEF CompositorFinishes
<1>11. ASSUME NEW w \in workers, NEW outcome \in PamOutcomes,
              RecordPamOutcome(w, outcome)
       PROVE  PathInv'
  <2>1. lock'.active <=> lock.active
    BY <1>0, <1>11 DEF RecordPamOutcome, Authenticated, LockStates
  <2> QED
    BY <1>3, <1>11, <2>1, PathFrame DEF RecordPamOutcome
<1>12. ASSUME NEW t \in timers, ReleaseTimerFires(t)
       PROVE  PathInv'
  BY <1>3, <1>12, PathFrame DEF ReleaseTimerFires
<1>13. ASSUME NEW g \in Generations, SupervisorStep(g)
       PROVE  PathInv'
  <2>1. CASE Hydrate(g)
    BY <1>1, <1>3, <2>1, PathFrame DEF Hydrate
  <2>2. CASE DropStaleFrame(g)
    <3>1. /\ UNCHANGED <<up, cooldown, authoritative, lock, acquired, proc,
                         held, granted>>
          /\ g # authoritative \/ cooldown
          /\ frames' = [frames EXCEPT ![g] = Tail(@)]
      BY <2>2 DEF DropStaleFrame, Receives, Live
    <3>2. CASE cooldown
      BY <3>1, <3>2 DEF PathInv
    <3>3. CASE g # authoritative
      <4>1. frames'[authoritative] = frames[authoritative]
        BY <3>1, <3>3 DEF TypeOK, RenderersOK, SupervisorOK
      <4> QED
        BY <1>3, <3>1, <4>1, PathFrame
    <3> QED
      BY <3>1, <3>2, <3>3
  <2>3. CASE DispatchLock(g)
    <3>1. /\ Receives(g, {"lock"}) /\ Live(g) /\ LockCall
          /\ UNCHANGED <<up, cooldown, authoritative, acquired, proc, held,
                         granted>>
      BY <2>3 DEF DispatchLock
    <3> QED
      BY <1>1, <3>1, PathSkip
  <2>4. CASE BeginAuthentication(g)
    <3>1. /\ Receives(g, {"submit"}) /\ Live(g)
          /\ UNCHANGED <<up, cooldown, authoritative, acquired, proc, held,
                         granted>>
      BY <2>4 DEF BeginAuthentication
    <3>2. lock'.active <=> lock.active
      BY <1>0, <2>4
      DEF BeginAuthentication, AuthenticationStarted, LockStates
    <3> QED
      BY <3>1, <3>2, PathSkip
  <2> QED
    BY <1>13, <2>1, <2>2, <2>3, <2>4, PathReport DEF SupervisorStep
<1>14. ASSUME NEW g \in Generations, RendererStep(g)
       PROVE  PathInv'
  <2>1. CASE RendererConnects(g)
    <3>1. /\ UNCHANGED <<up, cooldown, authoritative, lock, acquired, frames>>
          /\ Alive(authoritative)
          /\ Shown(authoritative)' = Shown(authoritative)
      BY <2>1 DEF RendererConnects, Shown, Alive
    <3> QED
      BY <3>1, PathFrame
  <2>2. CASE HandleLockNothing(g)
    BY <1>3, <2>2, PathFrame DEF HandleLockNothing
  <2>3. CASE HandleLockAcquire(g)
    <3>1. /\ held' = [held EXCEPT ![g] = "requested"] /\ held[g] = "none"
          /\ UNCHANGED <<up, cooldown, authoritative, lock, acquired, frames,
                         proc, granted>>
      BY <2>3 DEF HandleLockAcquire
    <3>2. Shown(authoritative)' = Shown(authoritative)
      BY <3>1 DEF Shown, TypeOK, RenderersOK, SupervisorOK
    <3>3. Alive(authoritative)' => Alive(authoritative)
      BY <3>1 DEF Alive
    <3> QED
      BY <3>1, <3>2, <3>3, PathFrame
  <2>4. CASE RendererLosesSupervisor(g)
    BY <2>4, PathEnds DEF RendererLosesSupervisor
  <2> QED
    BY <1>14, <2>1, <2>2, <2>3, <2>4, PathTalk, PathRelease, PathLocked,
       PathFinished DEF RendererStep
<1>15. ASSUME NEW g \in Generations, RendererDies(g)
       PROVE  PathInv'
  BY <1>15, PathEnds DEF RendererDies
<1>16. ASSUME NEW g \in Generations, ConfigReload(g)
       PROVE  PathInv'
  BY <1>3, <1>16, PathFrame DEF ConfigReload
<1>17. ASSUME NEW g \in Generations, CompositorGrants(g)
       PROVE  PathInv'
  <2>1. /\ g \in asked /\ granted' = [granted EXCEPT ![g] = comp.grant + 1]
        /\ UNCHANGED <<up, cooldown, authoritative, lock, acquired, frames,
                       proc, held>>
    BY <1>17 DEF CompositorGrants
  <2>2. held[g] # "locked"
    BY <2>1 DEF LockObjects, LockObject
  <2>3. Shown(authoritative)' = Shown(authoritative)
    BY <2>1, <2>2 DEF Shown, TypeOK, CompositorOK, SupervisorOK
  <2>4. Alive(authoritative)' => Alive(authoritative)
    BY <2>1 DEF Alive
  <2> QED
    BY <2>1, <2>3, <2>4, PathFrame
<1>18. ASSUME NEW g \in Generations, CompositorDenies(g)
       PROVE  PathInv'
  BY <1>3, <1>18, PathFrame DEF CompositorDenies
<1>19. CASE UNCHANGED vars
  BY <1>3, <1>19, PathFrame DEF vars
<1> QED
  BY <1>4, <1>5, <1>6, <1>7, <1>8, <1>9, <1>10, <1>11, <1>12, <1>13, <1>14,
     <1>15, <1>16, <1>17, <1>18, <1>19, PathTalk DEF Next

LEMMA PathInit == Init => PathInv
<1> SUFFICES ASSUME Init PROVE PathInv
  OBVIOUS
<1>1. Path(<<>>, 0, 0)
  BY PathEmpty
<1>2. Recorded = 0 /\ Shown(1) = 0 /\ frames[1] = <<>> /\ authoritative = 1
  BY BoundsAssumption
  DEF Init, DefaultLock, Recorded, Shown, Generations
<1> QED
  BY <1>1, <1>2 DEF PathInv, Init, DefaultLock

LEMMA ChainCorrect == Spec => []ChainInv
<1>1. Init => ChainInv
  BY ObjectInit, LifeInit, GrantInit, PathInit DEF ChainInv
<1>2. TypeOK /\ ChainInv /\ [Next]_vars => ChainInv'
  BY ObjectStep, LifeStep, GrantStep, PathStep DEF ChainInv
<1> QED
  BY <1>1, <1>2, TypeCorrect, PTL DEF Spec

(* A password reaches PAM only for the lock screen it was typed into:      *)
(* between the frame and the record no report is still unread that would   *)
(* have ended that lock or begun another (controller.rs: authenticate;     *)
(* supervisor.rs: the inbound arm).                                        *)
THEOREM SubmitIsForItsLock == Spec => []SubmitReachesItsLock
<1>1. ASSUME TypeOK, ChainInv
      PROVE  SubmitReachesItsLock
  <2> SUFFICES ASSUME NEW g \in Generations, up, frames[g] # <<>>, Live(g),
                      MayAuthenticate(lock), Head(frames[g]).kind = "submit"
               PROVE  Head(frames[g]).grant = acquired
    BY DEF SubmitReachesItsLock
  <2>1. g = authoritative /\ ~cooldown /\ lock.active
    BY DEF Live, MayAuthenticate
  <2>2. PICK x \in Nat : Path(frames[g], Recorded, x)
    BY <1>1, <2>1 DEF ChainInv, PathInv
  <2>3. frames[g] \in Seq(Frames)
    BY <1>1 DEF TypeOK, RenderersOK
  <2>4. PICK d \in Nat : Moves(Recorded, Head(frames[g]), d)
    BY <1>1, <2>2, <2>3, GlassType, PathPop
  <2>5. Recorded = Head(frames[g]).grant
    BY <2>4 DEF Moves
  <2> QED
    BY <2>1, <2>5 DEF Recorded
<1> QED
  BY <1>1, ChainCorrect, TypeCorrect, PTL

(* Once every report of a connected generation is read, the Supervisor and *)
(* the Renderer agree whether the lock screen is up, whatever was lost     *)
(* with an earlier generation (state.rs: apply, supervisor.rs: respawn).   *)
THEOREM ReadReportsAgree == Spec => []ActiveMatchesRenderer
<1>1. ASSUME TypeOK, ChainInv
      PROVE  ActiveMatchesRenderer
  <2> DEFINE a == authoritative
  <2> SUFFICES ASSUME up, Live(a), proc[a] = "connected", Reports(a) = {}
               PROVE  lock.active <=> held[a] = "locked"
    BY DEF ActiveMatchesRenderer
  <2>1. a \in Generations /\ ~cooldown /\ Alive(a)
    BY <1>1 DEF Live, Alive, TypeOK, SupervisorOK
  <2>2. Path(frames[a], Recorded, Shown(a)) /\ frames[a] \in Seq(Frames)
    BY <1>1, <2>1 DEF ChainInv, PathInv, TypeOK, RenderersOK
  <2>3. NoReport(frames[a])
    BY DEF Reports, NoReport
  <2>4. Recorded = Shown(a)
    BY <1>1, <2>1, <2>2, <2>3, GlassType, PathQuiet
  <2>5. /\ lock.active => acquired # 0
        /\ held[a] = "locked" => granted[a] # 0
    BY <1>1, <2>1 DEF ChainInv, PathInv, GrantInv, Told
  <2> QED
    BY <2>4, <2>5 DEF Recorded, Shown
<1> QED
  BY <1>1, ChainCorrect, TypeCorrect, PTL

-----------------------------------------------------------------------------
(* Until lock requests overlap there is at most one request anywhere       *)
(* between the Supervisor and the glass, and a release that reaches a lock *)
(* was meant for it.                                                       *)

LastOnly(s)  == \A i \in 1..Len(s) : s[i] = TRUE => i = Len(s)
Has(s, flag) == \E i \in 1..Len(s) : s[i] = flag

Queued == Has(commands, TRUE) \/ Has(down[authoritative], TRUE)

(* A queued request is the last thing that was queued, and the only one.   *)
OneRequest ==
  /\ LastOnly(commands)
  /\ \A g \in Generations : LastOnly(down[g])
  /\ Has(down[authoritative], TRUE) => commands = <<>>

(* While it is queued nothing is on the glass and nothing is under way.    *)
RequestIsAlone ==
  Queued => /\ held[authoritative] = "none" /\ ~lock.active
            /\ NoReport(frames[authoritative])

(* While a lock is requested or held, only its confirmation is under way.  *)
HeldIsNews ==
  /\ held[authoritative] = "requested" => NoReport(frames[authoritative])
  /\ held[authoritative] = "locked" =>
       /\ OneReport(frames[authoritative])
       /\ lock.active => NoReport(frames[authoritative])

(* A release on its way to a lock object finds the lock PAM answered for.  *)
ReleaseIsMeant ==
  \A g \in Generations :
    /\ held[g] # "none"
    /\ Has(down[g], FALSE) \/ (g = authoritative /\ Has(commands, FALSE))
    => held[g] = "locked" /\ granted[g] \in answered

Token    == OneRequest /\ RequestIsAlone /\ HeldIsNews /\ ReleaseIsMeant
TokenInv == ~overlapped => Token

LEMMA ReportPop ==
  ASSUME NEW s \in Seq(Frames), s # <<>>
  PROVE  /\ NoReport(s) => NoReport(Tail(s))
         /\ OneReport(s) => OneReport(Tail(s))
         /\ OneReport(s) /\ Head(s).kind \in LockOutcomes => NoReport(Tail(s))
<1>1. /\ Len(Tail(s)) = Len(s) - 1 /\ Len(s) \in Nat \ {0}
      /\ Head(s) = s[1] /\ 1 \in 1..Len(s)
      /\ \A i \in 1..(Len(s) - 1) : Tail(s)[i] = s[i + 1] /\ i + 1 \in 1..Len(s)
  OBVIOUS
<1>2. NoReport(s) => NoReport(Tail(s))
  BY <1>1 DEF NoReport
<1>3. ASSUME OneReport(s),
             NEW i \in 1..(Len(s) - 1), NEW j \in 1..(Len(s) - 1),
             Tail(s)[i].kind \in LockOutcomes, Tail(s)[j].kind \in LockOutcomes
      PROVE  i = j
  <2>1. i + 1 = j + 1
    BY <1>1, <1>3 DEF OneReport
  <2> QED
    BY <2>1
<1>4. ASSUME OneReport(s), Head(s).kind \in LockOutcomes,
             NEW i \in 1..(Len(s) - 1), Tail(s)[i].kind \in LockOutcomes
      PROVE  FALSE
  <2>1. i + 1 = 1
    BY <1>1, <1>4 DEF OneReport
  <2> QED
    BY <2>1
<1> QED
  BY <1>1, <1>2, <1>3, <1>4 DEF NoReport, OneReport

LEMMA ReportPush ==
  ASSUME NEW s \in Seq(Frames), NEW f \in Frames
  PROVE  /\ NoReport(s) => OneReport(Append(s, f))
         /\ f.kind \notin LockOutcomes =>
              /\ NoReport(s) => NoReport(Append(s, f))
              /\ OneReport(s) => OneReport(Append(s, f))
<1>1. /\ Len(Append(s, f)) = Len(s) + 1 /\ Len(s) \in Nat
      /\ Append(s, f)[Len(s) + 1] = f
      /\ \A i \in 1..Len(s) : Append(s, f)[i] = s[i]
  OBVIOUS
<1> QED
  BY <1>1 DEF NoReport, OneReport

LEMMA ReportPrefix ==
  ASSUME NEW s \in Seq(Frames), NEW m \in 0..Len(s)
  PROVE  /\ NoReport(s) => NoReport(SubSeq(s, 1, m))
         /\ OneReport(s) => OneReport(SubSeq(s, 1, m))
<1>1. Len(SubSeq(s, 1, m)) = m /\ \A i \in 1..m : SubSeq(s, 1, m)[i] = s[i]
  OBVIOUS
<1>2. \A i \in 1..m : i \in 1..Len(s)
  OBVIOUS
<1> QED
  BY <1>1, <1>2 DEF NoReport, OneReport

LEMMA FlagPush ==
  ASSUME NEW s \in Seq(BOOLEAN), NEW v \in BOOLEAN
  PROVE  /\ ~Has(s, TRUE) => LastOnly(Append(s, v))
         /\ \A u : Has(Append(s, v), u) <=> Has(s, u) \/ u = v
<1>1. /\ Len(Append(s, v)) = Len(s) + 1 /\ Len(s) \in Nat
      /\ Append(s, v)[Len(s) + 1] = v
      /\ \A i \in 1..Len(s) : Append(s, v)[i] = s[i]
      /\ \A i \in 1..(Len(s) + 1) : i \in 1..Len(s) \/ i = Len(s) + 1
  BY AppendProperties
<1> QED
  BY <1>1 DEF LastOnly, Has

LEMMA FlagPop ==
  ASSUME NEW s \in Seq(BOOLEAN), s # <<>>, LastOnly(s)
  PROVE  /\ LastOnly(Tail(s))
         /\ \A u : Has(Tail(s), u) => Has(s, u)
         /\ Has(s, Head(s))
         /\ Head(s) = TRUE => Tail(s) = <<>>
<1>1. /\ Len(Tail(s)) = Len(s) - 1 /\ Len(s) \in Nat \ {0}
      /\ Head(s) = s[1] /\ 1 \in 1..Len(s)
      /\ \A i \in 1..(Len(s) - 1) : Tail(s)[i] = s[i + 1] /\ i + 1 \in 1..Len(s)
  BY HeadTailProperties
<1>2. LastOnly(Tail(s))
  <2> SUFFICES ASSUME NEW i \in 1..(Len(s) - 1), Tail(s)[i] = TRUE
               PROVE  i = Len(s) - 1
    BY <1>1 DEF LastOnly
  <2>1. i + 1 = Len(s)
    BY <1>1 DEF LastOnly
  <2>2. i \in Nat /\ Len(s) \in Nat
    BY <1>1
  <2> QED
    BY <2>1, <2>2
<1>3. Head(s) = TRUE => Len(s) = 1
  BY <1>1 DEF LastOnly
<1>4. Tail(s) \in Seq(BOOLEAN) /\ (Len(s) = 1 => Tail(s) = <<>>)
  BY <1>1, HeadTailProperties, EmptySeq
<1> QED
  BY <1>1, <1>2, <1>3, <1>4 DEF Has

(* A step after which less is on its way than before.                      *)
Within(s, t) == (LastOnly(t) => LastOnly(s)) /\ \A u : Has(s, u) => Has(t, u)

LEMMA TokenLess ==
  ASSUME TypeOK, Token,
         UNCHANGED authoritative,
         Within(commands', commands), commands = <<>> => commands' = <<>>,
         \A g \in Generations :
           /\ Within(down'[g], down[g])
           /\ held'[g] \in {held[g], "none"}
           /\ held[g] = "locked" => granted'[g] = granted[g],
         answered \subseteq answered',
         lock'.active => lock.active,
         Queued' \/ held'[authoritative] # "none" =>
           /\ NoReport(frames[authoritative]) =>
                NoReport(frames'[authoritative])
           /\ OneReport(frames[authoritative]) =>
                OneReport(frames'[authoritative])
  PROVE  Token'
<1>1. authoritative \in Generations
  BY DEF TypeOK, SupervisorOK
<1>2. Queued' => Queued
  BY <1>1 DEF Queued, Within
<1>3. OneRequest'
  BY <1>1 DEF Token, OneRequest, Within
<1>4. RequestIsAlone'
  BY <1>1, <1>2 DEF Token, RequestIsAlone
<1>5. HeldIsNews'
  BY <1>1 DEF Token, HeldIsNews
<1>6. ReleaseIsMeant'
  BY <1>1 DEF Token, ReleaseIsMeant, Within
<1> QED
  BY <1>3, <1>4, <1>5, <1>6 DEF Token

LEMMA TokenSame ==
  ASSUME Token,
         UNCHANGED <<authoritative, commands, down, held, frames, granted>>,
         answered \subseteq answered',
         lock'.active => lock.active
  PROVE  Token'
<1>1. OneRequest' /\ RequestIsAlone'
  BY DEF Token, OneRequest, RequestIsAlone, Queued
<1>2. HeldIsNews' /\ ReleaseIsMeant'
  BY DEF Token, HeldIsNews, ReleaseIsMeant
<1> QED
  BY <1>1, <1>2 DEF Token

LEMMA WithinItself ==
  ASSUME NEW s
  PROVE  Within(s, s) /\ Within(<<>>, s)
  BY DEF Within, Has, LastOnly

LEMMA NothingOnItsWay ==
  ASSUME TypeOK, ~LockOnItsWay
  PROVE  /\ ~Queued /\ held[authoritative] = "none"
         /\ NoReport(frames[authoritative])
<1>1. /\ commands \in Seq(BOOLEAN) /\ down[authoritative] \in Seq(BOOLEAN)
      /\ frames[authoritative] \in Seq(Frames)
  BY DEF TypeOK, SupervisorOK, RenderersOK
<1>2. DOMAIN frames[authoritative] = 1..Len(frames[authoritative])
  BY <1>1
<1>3. NoReport(frames[authoritative]) /\ held[authoritative] = "none"
  BY <1>2 DEF LockOnItsWay, NoReport
<1>4. ASSUME NEW s \in Seq(BOOLEAN), TRUE \notin Range(s)
      PROVE  ~Has(s, TRUE)
  <2>1. DOMAIN s = 1..Len(s)
    BY LenProperties, Zenon
  <2> QED
    BY <1>4, <2>1, Zenon DEF Range, Has
<1>5. TRUE \notin Range(commands) /\ TRUE \notin Range(down[authoritative])
  BY DEF LockOnItsWay
<1> QED
  BY <1>1, <1>3, <1>4, <1>5 DEF Queued

(* A request that is queued while nothing else is on its way.              *)
LEMMA TokenLockCall ==
  ASSUME TypeOK, Token, LockCall, ~overlapped',
         UNCHANGED <<authoritative, down, held, granted, answered>>,
         NoReport(frames[authoritative]) => NoReport(frames'[authoritative]),
         OneReport(frames[authoritative]) => OneReport(frames'[authoritative])
  PROVE  Token'
<1>1. CASE UNCHANGED <<lock, commands>>
  BY <1>1, TokenLess, WithinItself
<1>2. CASE /\ ~lock.active /\ lock' = LockRequested(lock)
           /\ commands' = Append(commands, TRUE)
           /\ overlapped' = (overlapped \/ LockOnItsWay)
  <2>1. /\ ~Queued /\ held[authoritative] = "none"
        /\ NoReport(frames[authoritative])
    BY <1>2, NothingOnItsWay
  <2>2. ~lock'.active
    BY <1>2 DEF LockRequested, TypeOK, SupervisorOK, LockStates
  <2>3. ~Has(commands, TRUE) /\ ~Has(down[authoritative], TRUE)
    BY <2>1 DEF Queued
  <2>4. LastOnly(commands')
    BY <1>2, <2>3, FlagPush, Zenon DEF TypeOK, SupervisorOK
  <2>5. OneRequest'
    BY <2>3, <2>4 DEF Token, OneRequest
  <2>6. RequestIsAlone'
    BY <2>1, <2>2 DEF RequestIsAlone
  <2>7. HeldIsNews'
    BY <2>1 DEF HeldIsNews
  <2>8. ReleaseIsMeant'
    BY <2>1 DEF Token, ReleaseIsMeant
  <2> QED
    BY <2>5, <2>6, <2>7, <2>8 DEF Token
<1> QED
  BY <1>1, <1>2 DEF LockCall

(* A release that is queued for the lock PAM answered for.                 *)
LEMMA TokenRelease ==
  ASSUME TypeOK, Token,
         commands' = Append(commands, FALSE),
         UNCHANGED <<authoritative, down, held, frames, granted>>,
         lock.active, answered \subseteq answered',
         held[authoritative] # "none" =>
           /\ held[authoritative] = "locked"
           /\ granted[authoritative] \in answered'
  PROVE  Token'
<1>1. ~Queued
  BY DEF Token, RequestIsAlone
<1>2. /\ LastOnly(commands')
      /\ \A u : Has(commands', u) <=> Has(commands, u) \/ u = FALSE
  BY <1>1, FlagPush, FALSE \in BOOLEAN, Zenon DEF Queued, TypeOK, SupervisorOK
<1>3. ~Queued'
  BY <1>1, <1>2, TRUE # FALSE, Zenon DEF Queued
<1>4. OneRequest'
  BY <1>1, <1>2 DEF Token, OneRequest, Queued
<1>5. RequestIsAlone'
  BY <1>3 DEF RequestIsAlone
<1>6. HeldIsNews'
  BY <1>1 DEF Token, HeldIsNews
<1>7. ReleaseIsMeant'
  BY DEF Token, ReleaseIsMeant
<1> QED
  BY <1>4, <1>5, <1>6, <1>7 DEF Token

(* While a lock is active and one is held, they are the same.              *)
LEMMA ActiveIsHeld ==
  ASSUME TypeOK, ChainInv, Token, up, lock.active, held[authoritative] # "none"
  PROVE  held[authoritative] = "locked" /\ granted[authoritative] = acquired
<1> DEFINE a == authoritative
<1>1. a \in Generations /\ frames[a] \in Seq(Frames)
  BY DEF TypeOK, SupervisorOK, RenderersOK
<1>2. Alive(a) /\ ~cooldown
  BY <1>1 DEF ChainInv, LockObjects, LockObject, LifeInv, Alive
<1>3. Path(frames[a], Recorded, Shown(a))
  BY <1>2 DEF ChainInv, PathInv
<1>4. NoReport(frames[a])
  BY <1>1 DEF Token, HeldIsNews, TypeOK, RenderersOK
<1>5. Recorded = Shown(a)
  BY <1>1, <1>3, <1>4, GlassType, PathQuiet
<1>6. acquired # 0
  BY DEF ChainInv, PathInv
<1> QED
  BY <1>5, <1>6 DEF Recorded, Shown

LEMMA TokenAnswer ==
  ASSUME TypeOK, ChainInv, Token, NEW w \in workers, NEW outcome \in PamOutcomes,
         RecordPamOutcome(w, outcome)
  PROVE  Token'
<1>1. /\ up
      /\ UNCHANGED <<authoritative, down, held, frames, granted, acquired>>
      /\ lock \in LockStates
  BY DEF RecordPamOutcome, supervisorVars, channelVars, rendererVars,
         compositorVars, TypeOK, SupervisorOK
<1>2. lock'.active <=> lock.active
  BY <1>1 DEF RecordPamOutcome, Authenticated, LockStates
<1>3. answered \subseteq answered'
  BY DEF RecordPamOutcome
<1>4. CASE UNCHANGED commands
  BY <1>1, <1>2, <1>3, <1>4, TokenSame
<1>5. CASE /\ commands' = Append(commands, FALSE)
           /\ answered' = answered \union {acquired}
           /\ lock.active
  <2>1. held[authoritative] # "none" =>
          held[authoritative] = "locked" /\ granted[authoritative] \in answered'
    BY <1>1, <1>5, ActiveIsHeld
  <2> QED
    BY <1>1, <1>3, <1>5, <2>1, TokenRelease
<1> QED
  BY <1>4, <1>5 DEF RecordPamOutcome, AcceptsOutcome

LEMMA TokenTimer ==
  ASSUME TypeOK, ChainInv, RecordInv, Token, NEW t \in timers,
         ReleaseTimerFires(t)
  PROVE  Token'
<1>1. /\ up
      /\ UNCHANGED <<authoritative, lock, down, held, frames, granted, answered>>
  BY DEF ReleaseTimerFires, supervisorVars, channelVars, rendererVars,
         compositorVars, historyVars
<1>2. CASE UNCHANGED commands
  BY <1>1, <1>2, TokenSame
<1>3. CASE lock.unlocking /\ commands' = Append(commands, FALSE)
  <2>1. lock.active /\ acquired \in answered
    BY <1>3 DEF RecordInv, LockFlagsAgree, ChainInv, GrantInv
  <2>2. held[authoritative] # "none" =>
          held[authoritative] = "locked" /\ granted[authoritative] \in answered
    BY <1>1, <2>1, ActiveIsHeld
  <2> QED
    BY <1>1, <1>3, <2>1, <2>2, TokenRelease
<1> QED
  BY <1>2, <1>3 DEF ReleaseTimerFires, Releases

LEMMA TokenSendCommand ==
  ASSUME TypeOK, ChainInv, Token, SendLockCommand
  PROVE  Token'
<1> DEFINE a == authoritative
           head == Head(commands)
<1>1. /\ commands # <<>> /\ commands' = Tail(commands)
      /\ UNCHANGED <<authoritative, lock, held, frames, granted, answered>>
      /\ down' = IF proc[a] = "connected"
                 THEN [down EXCEPT ![a] = Append(@, head)] ELSE down
  BY DEF SendLockCommand, supervisorVars, rendererVars, compositorVars,
         historyVars
<1>2. /\ a \in Generations /\ commands \in Seq(BOOLEAN)
      /\ LastOnly(commands)
  BY DEF TypeOK, SupervisorOK, Token, OneRequest
<1>3. /\ LastOnly(commands')
      /\ \A u : Has(commands', u) => Has(commands, u)
      /\ Has(commands, head)
      /\ head = TRUE => commands' = <<>>
  BY <1>1, <1>2, FlagPop, Zenon
<1>4. CASE down' = down
  BY <1>1, <1>3, <1>4, TokenLess, WithinItself DEF Within
<1>5. CASE down' = [down EXCEPT ![a] = Append(@, head)]
  <2>1. /\ down'[a] = Append(down[a], head)
        /\ \A g \in Generations \ {a} : down'[g] = down[g]
        /\ down[a] \in Seq(BOOLEAN)
    BY <1>2, <1>5 DEF TypeOK, RenderersOK
  <2>2. head \in BOOLEAN
    BY <1>1, <1>2, HeadTailProperties, Zenon
  <2>3. ~Has(down[a], TRUE)
    BY <1>1 DEF Token, OneRequest
  <2> HIDE DEF head
  <2>4. /\ LastOnly(down'[a])
        /\ \A u : Has(down'[a], u) <=> Has(down[a], u) \/ u = head
    <3>1. down[a] \in Seq(BOOLEAN)
      BY <2>1
    <3>2. /\ LastOnly(Append(down[a], head))
          /\ \A u : Has(Append(down[a], head), u) <=> Has(down[a], u) \/ u = head
      BY <2>2, <2>3, <3>1, FlagPush
    <3>3. down'[a] = Append(down[a], head)
      BY <2>1
    <3> QED
      BY <3>2, <3>3, Zenon
  <2>5. Has(down'[a], TRUE) => head = TRUE
    BY <2>3, <2>4, Zenon
  <2>6. Queued' => Queued
    BY <1>1, <1>3, <2>5, Zenon DEF Queued
  <2>7. OneRequest'
    BY <1>1, <1>3, <2>1, <2>4, <2>5 DEF Token, OneRequest
  <2>8. RequestIsAlone'
    BY <1>1, <2>6 DEF Token, RequestIsAlone
  <2>9. HeldIsNews'
    BY <1>1 DEF Token, HeldIsNews
  <2>10. Has(down'[a], FALSE) => Has(down[a], FALSE) \/ Has(commands, FALSE)
    BY <1>3, <2>4, Zenon
  <2>11. Has(commands', FALSE) => Has(commands, FALSE)
    BY <1>3
  <2>12. ReleaseIsMeant'
    BY <1>1, <1>2, <2>1, <2>10, <2>11 DEF Token, ReleaseIsMeant
  <2> QED
    BY <2>7, <2>8, <2>9, <2>12 DEF Token
<1> QED
  BY <1>1, <1>4, <1>5

LEMMA TokenDrain ==
  ASSUME TypeOK, Token, NEW g \in Generations, NEW locked \in BOOLEAN,
         Drains(g, locked)
  PROVE  /\ down'[g] = Tail(down[g])
         /\ Has(down[g], locked)
         /\ locked = TRUE => down'[g] = <<>>
         /\ \A h \in Generations : Within(down'[h], down[h])
<1>1. /\ down' = [down EXCEPT ![g] = Tail(@)]
      /\ down[g] # <<>> /\ Head(down[g]) = locked
  BY DEF Drains
<1>2. down[g] \in Seq(BOOLEAN) /\ LastOnly(down[g])
  BY DEF TypeOK, RenderersOK, Token, OneRequest
<1>3. /\ down'[g] = Tail(down[g])
      /\ \A h \in Generations \ {g} : down'[h] = down[h]
  BY <1>1 DEF TypeOK, RenderersOK
<1>4. /\ LastOnly(Tail(down[g]))
      /\ \A u : Has(Tail(down[g]), u) => Has(down[g], u)
      /\ Has(down[g], Head(down[g]))
      /\ Head(down[g]) = TRUE => Tail(down[g]) = <<>>
  BY <1>1, <1>2, FlagPop
<1>5. Within(down'[g], down[g])
  BY <1>3, <1>4, Zenon DEF Within
<1>6. \A h \in Generations : Within(down'[h], down[h])
  BY <1>3, <1>5, WithinItself
<1>7. Has(down[g], locked) /\ (locked = TRUE => down'[g] = <<>>)
  BY <1>1, <1>3, <1>4, Zenon
<1> QED
  BY <1>3, <1>6, <1>7

(* The request reaches the Renderer.                                       *)
LEMMA TokenAcquire ==
  ASSUME TypeOK, Token, NEW g \in Generations, HandleLockAcquire(g)
  PROVE  Token'
<1>1. /\ Drains(g, TRUE) /\ held[g] = "none"
      /\ held' = [held EXCEPT ![g] = "requested"]
      /\ UNCHANGED <<authoritative, commands, lock, frames, granted, answered>>
  BY DEF HandleLockAcquire, supervisorVars, lockVars, historyVars
<1>2. /\ held'[g] = "requested"
      /\ \A h \in Generations \ {g} : held'[h] = held[h]
  BY <1>1 DEF TypeOK, RenderersOK
<1>3. /\ Has(down[g], TRUE) /\ down'[g] = <<>>
      /\ \A h \in Generations : Within(down'[h], down[h])
  BY <1>1, TokenDrain
<1>4. ~Has(down'[g], TRUE) /\ ~Has(down'[g], FALSE)
  BY <1>3 DEF Has
<1>5. authoritative \in Generations
  BY DEF TypeOK, SupervisorOK
<1>6. g = authoritative =>
        Queued /\ commands = <<>> /\ ~Has(commands, TRUE) /\ ~Has(commands, FALSE)
  BY <1>3 DEF Queued, Token, OneRequest, Has
<1>7. OneRequest'
  BY <1>1, <1>3, <1>5 DEF Token, OneRequest, Within
<1>8. Queued' => Queued /\ g # authoritative
  BY <1>1, <1>3, <1>4, <1>5, <1>6 DEF Queued, Within
<1>9. RequestIsAlone'
  BY <1>1, <1>2, <1>5, <1>8 DEF Token, RequestIsAlone
<1>10. HeldIsNews'
  BY <1>1, <1>2, <1>5, <1>6 DEF Token, HeldIsNews, RequestIsAlone
<1>11. ReleaseIsMeant'
  BY <1>1, <1>2, <1>3, <1>4, <1>6 DEF Token, ReleaseIsMeant, Within
<1> QED
  BY <1>7, <1>9, <1>10, <1>11 DEF Token

LEMMA TokenLocked ==
  ASSUME TypeOK, ChainInv, Token, NEW g \in Generations, DispatchLocked(g)
  PROVE  Token'
<1>1. /\ held' = [held EXCEPT ![g] = "locked"]
      /\ Sends(g, "locked", 0) /\ Alive(g)
      /\ events[g] # <<>> /\ Head(events[g]) = "locked"
      /\ UNCHANGED <<authoritative, commands, lock, down, granted, answered>>
  BY DEF DispatchLocked, supervisorVars, lockVars, historyVars, compositorVars
<1>2. held[g] = "requested"
  BY <1>1 DEF ChainInv, LockObjects, LockObject, TypeOK, RenderersOK
<1>3. /\ held'[g] = "locked"
      /\ \A h \in Generations \ {g} : held'[h] = held[h]
  BY <1>1 DEF TypeOK, RenderersOK
<1>4. authoritative \in Generations
  BY DEF TypeOK, SupervisorOK
<1>5. OneRequest'
  BY <1>1 DEF Token, OneRequest
<1>6. Queued' => Queued /\ g # authoritative
  BY <1>1, <1>2 DEF Queued, Token, RequestIsAlone
<1>7. g # authoritative => frames'[authoritative] = frames[authoritative]
  BY <1>1, <1>4 DEF Sends, TypeOK, RenderersOK
<1>8. RequestIsAlone'
  BY <1>1, <1>3, <1>4, <1>6, <1>7 DEF Token, RequestIsAlone
<1>9. ReleaseIsMeant'
  BY <1>1, <1>2, <1>3 DEF Token, ReleaseIsMeant
<1>10. HeldIsNews'
  <2>1. CASE g # authoritative
    BY <1>1, <1>3, <1>4, <1>7, <2>1 DEF Token, HeldIsNews
  <2>2. CASE g = authoritative
    <3> DEFINE frame == [kind |-> "locked", id |-> 0, grant |-> granted[g]]
    <3>1. NoReport(frames[g]) /\ frames[g] \in Seq(Frames) /\ frame \in Frames
      BY <1>2, <2>2
      DEF Token, HeldIsNews, TypeOK, RenderersOK, CompositorOK, Frames,
          FrameKinds, LockOutcomes
    <3>2. frames'[g] = frames[g] \/ frames'[g] = Append(frames[g], frame)
      BY <1>1 DEF Sends, TypeOK, RenderersOK
    <3> HIDE DEF frame
    <3>3. OneReport(frames'[g])
      BY <3>1, <3>2, ReportPush DEF NoReport, OneReport
    <3>4. ~lock.active
      <4>1. CASE ~up
        BY <4>1 DEF ChainInv, LifeInv
      <4>2. CASE up /\ lock.active
        BY <1>2, <2>2, <4>2, ActiveIsHeld
      <4> QED
        BY <4>1, <4>2
    <3> QED
      BY <1>1, <1>3, <2>2, <3>3, <3>4 DEF HeldIsNews
  <2> QED
    BY <2>1, <2>2
<1> QED
  BY <1>5, <1>8, <1>9, <1>10 DEF Token

(* A lock object that goes away: nothing is asked of it any more.          *)
LEMMA TokenGone ==
  ASSUME TypeOK, Token, NEW g \in Generations,
         held[g] # "none", held' = [held EXCEPT ![g] = "none"],
         g # authoritative => frames'[authoritative] = frames[authoritative],
         \A h \in Generations : Within(down'[h], down[h]),
         UNCHANGED <<authoritative, commands, lock, granted, answered>>
  PROVE  Token'
<1>1. /\ authoritative \in Generations
      /\ \A h \in Generations : held'[h] \in {held[h], "none"}
      /\ g = authoritative => held'[authoritative] = "none"
  BY DEF TypeOK, SupervisorOK, RenderersOK
<1>2. Queued' /\ g = authoritative => FALSE
  BY <1>1 DEF Queued, Within, Token, RequestIsAlone
<1> QED
  BY <1>1, <1>2, WithinItself, TokenLess

LEMMA TokenReport ==
  ASSUME TypeOK, ChainInv, Token, NEW g \in Generations, RecordLockReport(g)
  PROVE  Token'
<1> DEFINE kind == Head(frames[g]).kind
<1>1. /\ kind \in LockOutcomes /\ g = authoritative
      /\ lock' = Reported(lock, kind)
      /\ frames[g] # <<>> /\ frames'[g] = Tail(frames[g])
      /\ UNCHANGED <<authoritative, commands, down, held, granted, answered>>
  BY DEF RecordLockReport, Receives, Live, supervisorVars, rendererVars,
         compositorVars, TypeOK, RenderersOK
<1>2. lock \in LockStates /\ frames[g] \in Seq(Frames)
  BY DEF TypeOK, SupervisorOK, RenderersOK
<1>3. ~NoReport(frames[g])
  <2>1. 1 \in 1..Len(frames[g]) /\ Head(frames[g]) = frames[g][1]
    BY <1>1, <1>2
  <2> QED
    BY <1>1, <2>1 DEF NoReport
<1>4. ~Queued /\ held[g] # "requested"
  BY <1>1, <1>3 DEF Token, RequestIsAlone, HeldIsNews
<1>5. held[g] = "locked" => NoReport(frames'[g])
  BY <1>1, <1>2, ReportPop DEF Token, HeldIsNews
<1>6. NoReport(frames'[g]) => OneReport(frames'[g])
  BY DEF NoReport, OneReport
<1>7. OneRequest' /\ ReleaseIsMeant'
  BY <1>1 DEF Token, OneRequest, ReleaseIsMeant
<1>8. RequestIsAlone'
  BY <1>1, <1>4 DEF RequestIsAlone, Queued
<1>9. HeldIsNews'
  BY <1>1, <1>4, <1>5, <1>6 DEF HeldIsNews
<1> QED
  BY <1>7, <1>8, <1>9 DEF Token

(* A spawned generation is handed what is still queued.                    *)
LEMMA TokenSpawn ==
  ASSUME TypeOK, LockObjects, LifeInv, Token, spawned < MaxGenerations,
         authoritative' = spawned + 1, ~lock'.active,
         UNCHANGED <<commands, down, held, frames, granted, answered>>
  PROVE  Token'
<1>1. spawned + 1 \in Generations /\ spawned + 1 > spawned
  BY BoundsAssumption DEF TypeOK, SupervisorOK, Generations
<1>2. proc[spawned + 1] = "unborn" /\ held[spawned + 1] = "none"
  BY <1>1 DEF LockObjects, LockObject, Alive
<1>3. frames[spawned + 1] = <<>> /\ down[spawned + 1] = <<>>
  BY <1>1, <1>2 DEF LifeInv, Newborn
<1>4. ~Has(<<>>, TRUE) /\ NoReport(<<>>)
  BY DEF Has, NoReport
<1>5. OneRequest'
  BY <1>3, <1>4 DEF Token, OneRequest
<1>6. RequestIsAlone'
  BY <1>2, <1>3, <1>4 DEF RequestIsAlone
<1>7. HeldIsNews'
  BY <1>2 DEF HeldIsNews
<1>8. ReleaseIsMeant'
  BY <1>2 DEF Token, ReleaseIsMeant
<1> QED
  BY <1>5, <1>6, <1>7, <1>8 DEF Token

LEMMA TokenEnds ==
  ASSUME TypeOK, Token, NEW h \in Generations, ProcessEnds(h)
  PROVE  Token'
<1>1. PICK n \in 0..Len(frames[h]) :
        frames' = [frames EXCEPT ![h] = SubSeq(@, 1, n)]
  BY DEF ProcessEnds
<1>2. /\ \A g \in Generations \ {h} :
           frames'[g] = frames[g] /\ held'[g] = held[g] /\ down'[g] = down[g]
      /\ frames[h] \in Seq(Frames) /\ frames'[h] = SubSeq(frames[h], 1, n)
      /\ held'[h] = "none" /\ down'[h] = <<>>
  BY <1>1 DEF ProcessEnds, TypeOK, RenderersOK
<1>3. UNCHANGED <<authoritative, commands, lock, granted, answered>>
  BY DEF ProcessEnds, supervisorVars, lockVars, historyVars
<1>4. authoritative \in Generations
  BY DEF TypeOK, SupervisorOK
<1>5. \A g \in Generations :
        Within(down'[g], down[g]) /\ held'[g] \in {held[g], "none"}
  BY <1>2, WithinItself
<1>6. \A g \in Generations :
        /\ NoReport(frames[g]) => NoReport(frames'[g])
        /\ OneReport(frames[g]) => OneReport(frames'[g])
  BY <1>2, ReportPrefix
<1> QED
  BY <1>3, <1>4, <1>5, <1>6, WithinItself, TokenLess

LEMMA OverlapStays ==
  ASSUME [Next]_vars, overlapped
  PROVE  overlapped'
<1> USE DEF historyVars
<1>1. LockCall => overlapped'
  BY DEF LockCall
<1>2. Respawn => overlapped'
  BY DEF Respawn
<1>3. ASSUME NEW w \in workers, NEW outcome \in PamOutcomes,
             RecordPamOutcome(w, outcome)
      PROVE  overlapped'
  BY <1>3 DEF RecordPamOutcome
<1>4. ASSUME NEW t \in timers, ReleaseTimerFires(t)
      PROVE  overlapped'
  BY <1>4 DEF ReleaseTimerFires
<1>5. ASSUME NEW g \in Generations, SupervisorStep(g)
      PROVE  overlapped'
  BY <1>1, <1>5
  DEF SupervisorStep, Hydrate, DropStaleFrame, RecordLockReport, DispatchLock,
      BeginAuthentication
<1>6. ASSUME NEW g \in Generations, RendererStep(g)
      PROVE  overlapped'
  BY <1>6
  DEF RendererStep, RendererConnects, HandleLockNothing, HandleLockRefuse,
      HandleLockAcquire, HandleLockRelease, DispatchLocked, DispatchFinished,
      RendererLosesSupervisor, ProcessEnds
<1>7. ASSUME NEW g \in Generations,
             \/ RendererAsksLock(g) \/ RendererSubmits(g) \/ ConfigReload(g)
             \/ RendererDies(g) \/ CompositorGrants(g) \/ CompositorDenies(g)
      PROVE  overlapped'
  BY <1>7
  DEF RendererAsksLock, RendererSubmits, ConfigReload, RendererDies,
      ProcessEnds, CompositorGrants, CompositorDenies
<1>8. CASE \/ LockRequestedByLogind \/ SendLockCommand
           \/ ReplaceDepartedRenderer \/ CooldownExpires \/ SupervisorStop
           \/ SupervisorStart \/ CompositorFinishes
  BY <1>1, <1>2, <1>8
  DEF LockRequestedByLogind, SendLockCommand, ReplaceDepartedRenderer,
      CooldownExpires, SupervisorStop, SupervisorStart, CompositorFinishes
<1>9. CASE UNCHANGED vars
  BY <1>9 DEF vars
<1> QED
  BY <1>3, <1>4, <1>5, <1>6, <1>7, <1>8, <1>9 DEF Next

LEMMA TokenStep ==
  TypeOK /\ ChainInv /\ RecordInv /\ TokenInv /\ [Next]_vars => TokenInv'
<1> SUFFICES ASSUME TypeOK, ChainInv, RecordInv, TokenInv, [Next]_vars,
                    ~overlapped'
             PROVE  Token'
  BY DEF TokenInv
<1>0. Token
  BY OverlapStays DEF TokenInv
<1> USE DEF supervisorVars, lockVars, rendererVars, channelVars,
            compositorVars, historyVars, counterVars
<1>1. Respawn => Token'
  <2>1. Respawn => ~lock'.active
    BY DEF Respawn, RendererLost, TypeOK, SupervisorOK, LockStates
  <2> QED
    BY <1>0, <2>1, TokenSpawn DEF Respawn, ChainInv
<1>2. \A g \in Generations :
        Within(down[g], down[g]) /\ held[g] \in {held[g], "none"}
  BY WithinItself
<1>3. CASE LockRequestedByLogind
  BY <1>0, <1>3, TokenLockCall DEF LockRequestedByLogind
<1>4. CASE ReplaceDepartedRenderer
  BY <1>0, <1>1, <1>4, TokenSame DEF ReplaceDepartedRenderer
<1>5. CASE CooldownExpires
  BY <1>1, <1>5 DEF CooldownExpires
<1>6. CASE SupervisorStop
  <2>1. /\ UNCHANGED <<authoritative, down, held, granted, answered>>
        /\ commands' = <<>> /\ ~lock'.active
        /\ frames' = [g \in Generations |-> <<>>]
    BY <1>6 DEF SupervisorStop, DefaultLock
  <2>2. NoReport(frames'[authoritative]) /\ OneReport(frames'[authoritative])
    BY <2>1 DEF NoReport, OneReport, TypeOK, SupervisorOK
  <2> QED
    BY <1>0, <2>1, <2>2, WithinItself, TokenLess
<1>7. CASE SupervisorStart
  BY <1>0, <1>7, TokenSpawn DEF SupervisorStart, ChainInv, LifeInv
<1>8. CASE CompositorFinishes
  BY <1>0, <1>8, TokenSame DEF CompositorFinishes
<1>9. ASSUME NEW g \in Generations, SupervisorStep(g)
      PROVE  Token'
  <2>1. CASE Hydrate(g)
    BY <1>0, <2>1, TokenLockCall, TokenSame DEF Hydrate
  <2>2. ASSUME NEW kinds, Receives(g, kinds)
        PROVE  \A h \in Generations :
                 /\ NoReport(frames[h]) => NoReport(frames'[h])
                 /\ OneReport(frames[h]) => OneReport(frames'[h])
    <3>1. /\ frames[g] \in Seq(Frames) /\ frames[g] # <<>>
          /\ frames'[g] = Tail(frames[g])
          /\ \A h \in Generations \ {g} : frames'[h] = frames[h]
      BY <2>2 DEF Receives, TypeOK, RenderersOK
    <3> QED
      BY <3>1, ReportPop
  <2>3. authoritative \in Generations
    BY DEF TypeOK, SupervisorOK
  <2>4. CASE DispatchLock(g)
    BY <1>0, <2>2, <2>3, <2>4, TokenLockCall DEF DispatchLock
  <2>5. CASE DropStaleFrame(g) \/ BeginAuthentication(g)
    <3>1. lock'.active => lock.active
      BY <2>5 DEF DropStaleFrame, BeginAuthentication, AuthenticationStarted,
                  TypeOK, SupervisorOK, LockStates
    <3>2. UNCHANGED <<authoritative, commands, down, held, granted, answered>>
      BY <2>5 DEF DropStaleFrame, BeginAuthentication
    <3>3. /\ NoReport(frames[authoritative]) =>
               NoReport(frames'[authoritative])
          /\ OneReport(frames[authoritative]) =>
               OneReport(frames'[authoritative])
      BY <2>2, <2>3, <2>5 DEF DropStaleFrame, BeginAuthentication
    <3> QED
      BY <1>0, <1>2, <3>1, <3>2, <3>3, WithinItself, TokenLess
  <2> QED
    BY <1>0, <1>9, <2>1, <2>4, <2>5, TokenReport DEF SupervisorStep
<1>10. ASSUME NEW g \in Generations, RendererStep(g)
       PROVE  Token'
  <2>1. CASE RendererConnects(g)
    BY <1>0, <2>1, TokenSame DEF RendererConnects
  <2>2. CASE HandleLockNothing(g)
    <3>1. /\ UNCHANGED <<authoritative, commands, lock, held, frames, granted,
                         answered>>
          /\ Drains(g, TRUE) \/ Drains(g, FALSE)
      BY <2>2 DEF HandleLockNothing
    <3>2. \A h \in Generations : Within(down'[h], down[h])
      BY <1>0, <3>1, TokenDrain
    <3> QED
      BY <1>0, <3>1, <3>2, WithinItself, TokenLess
  <2>3. CASE HandleLockRefuse(g)
    <3>1. /\ UNCHANGED <<authoritative, commands, lock, held, granted,
                         answered>>
          /\ Drains(g, TRUE) /\ held[g] = "none" /\ Sends(g, "refused", 0)
      BY <2>3 DEF HandleLockRefuse
    <3>2. /\ down'[g] = <<>> /\ Has(down[g], TRUE)
          /\ \A h \in Generations : Within(down'[h], down[h])
      BY <1>0, <3>1, TokenDrain
    <3>3. g = authoritative => ~Queued'
      BY <1>0, <3>1, <3>2 DEF Queued, Has, Token, OneRequest
    <3>4. g # authoritative => frames'[authoritative] = frames[authoritative]
      BY <3>1 DEF Sends, TypeOK, RenderersOK, SupervisorOK
    <3> QED
      BY <1>0, <3>1, <3>2, <3>3, <3>4, WithinItself, TokenLess
  <2>4. CASE HandleLockRelease(g)
    <3>1. /\ UNCHANGED <<authoritative, commands, lock, granted, answered>>
          /\ Drains(g, FALSE) /\ held[g] # "none"
          /\ held' = [held EXCEPT ![g] = "none"]
          /\ Sends(g, IF held[g] = "locked" THEN "unlocked" ELSE "refused", 0)
      BY <2>4 DEF HandleLockRelease
    <3>2. \A h \in Generations : Within(down'[h], down[h])
      BY <1>0, <3>1, TokenDrain
    <3>3. g # authoritative => frames'[authoritative] = frames[authoritative]
      BY <3>1 DEF Sends, TypeOK, RenderersOK, SupervisorOK
    <3> QED
      BY <1>0, <3>1, <3>2, <3>3, TokenGone
  <2>5. CASE DispatchFinished(g)
    <3>1. /\ UNCHANGED <<authoritative, commands, lock, down, granted, answered>>
          /\ held' = [held EXCEPT ![g] = "none"] /\ events[g] # <<>>
          /\ Sends(g, IF held[g] = "locked" THEN "finished" ELSE "refused", 0)
      BY <2>5 DEF DispatchFinished
    <3>2. held[g] # "none"
      BY <3>1 DEF ChainInv, LockObjects, LockObject
    <3>3. g # authoritative => frames'[authoritative] = frames[authoritative]
      BY <3>1 DEF Sends, TypeOK, RenderersOK, SupervisorOK
    <3> QED
      BY <1>0, <1>2, <3>1, <3>2, <3>3, TokenGone
  <2>6. CASE RendererLosesSupervisor(g)
    BY <1>0, <2>6, TokenEnds DEF RendererLosesSupervisor
  <2> QED
    BY <1>0, <1>10, <2>1, <2>2, <2>3, <2>4, <2>5, <2>6, TokenAcquire,
       TokenLocked DEF RendererStep
<1>11. ASSUME NEW g \in Generations, RendererAsksLock(g) \/ RendererSubmits(g)
       PROVE  Token'
  <2>1. UNCHANGED <<authoritative, commands, lock, down, held, granted, answered>>
    BY <1>11 DEF RendererAsksLock, RendererSubmits
  <2>2. PICK kind \in {"lock", "submit"}, id \in Nat : Sends(g, kind, id)
    BY <1>11 DEF RendererAsksLock, RendererSubmits, TypeOK, SupervisorOK
  <2> DEFINE frame == [kind |-> kind, id |-> id, grant |-> granted[g]]
  <2>3. frame \in Frames /\ frame.kind \notin LockOutcomes
    BY DEF Frames, FrameKinds, LockOutcomes, TypeOK, CompositorOK
  <2>4. /\ authoritative \in Generations
        /\ frames[authoritative] \in Seq(Frames)
        /\ frames'[authoritative] \in
             {frames[authoritative], Append(frames[authoritative], frame)}
    BY <2>2 DEF Sends, TypeOK, RenderersOK, SupervisorOK
  <2> HIDE DEF frame
  <2>5. /\ NoReport(frames[authoritative]) => NoReport(frames'[authoritative])
        /\ OneReport(frames[authoritative]) => OneReport(frames'[authoritative])
    BY <2>3, <2>4, ReportPush
  <2> QED
    BY <1>0, <1>2, <2>1, <2>5, WithinItself, TokenLess
<1>12. ASSUME NEW g \in Generations, RendererDies(g)
       PROVE  Token'
  BY <1>0, <1>12, TokenEnds DEF RendererDies
<1>13. ASSUME NEW g \in Generations, ConfigReload(g) \/ CompositorDenies(g)
       PROVE  Token'
  BY <1>0, <1>13, TokenSame DEF ConfigReload, CompositorDenies
<1>14. ASSUME NEW g \in Generations, CompositorGrants(g)
       PROVE  Token'
  <2>1. /\ g \in asked /\ granted' = [granted EXCEPT ![g] = comp.grant + 1]
        /\ UNCHANGED <<authoritative, commands, lock, down, held, frames,
                       answered>>
    BY <1>14 DEF CompositorGrants
  <2>2. held[g] # "locked"
    BY <2>1 DEF ChainInv, LockObjects, LockObject
  <2>3. \A h \in Generations : held[h] = "locked" => granted'[h] = granted[h]
    BY <2>1, <2>2 DEF TypeOK, CompositorOK
  <2> QED
    BY <1>0, <1>2, <2>1, <2>3, WithinItself, TokenLess
<1>15. CASE UNCHANGED vars
  BY <1>0, <1>15, TokenSame DEF vars
<1> QED
  BY <1>0, <1>3, <1>4, <1>5, <1>6, <1>7, <1>8, <1>9, <1>10, <1>11, <1>12,
     <1>13, <1>14, <1>15, TokenAnswer, TokenTimer, TokenSendCommand DEF Next

LEMMA TokenCorrect == Spec => []TokenInv
<1>1. ASSUME Init
      PROVE  Token
  <2>1. /\ commands = <<>> /\ authoritative \in Generations
        /\ \A g \in Generations : down[g] = <<>> /\ held[g] = "none"
    BY <1>1, BoundsAssumption DEF Init, Generations
  <2>2. LastOnly(<<>>) /\ ~Has(<<>>, TRUE) /\ ~Has(<<>>, FALSE)
    BY DEF LastOnly, Has
  <2>3. OneRequest /\ ~Queued
    BY <2>1, <2>2 DEF OneRequest, Queued
  <2> QED
    BY <2>1, <2>3 DEF Token, RequestIsAlone, HeldIsNews, ReleaseIsMeant
<1>2. Init => TokenInv
  BY <1>1 DEF TokenInv
<1> QED
  BY <1>2, TokenStep, TypeCorrect, ChainCorrect, RecordCorrect, PTL DEF Spec

-----------------------------------------------------------------------------
(* What opens a locked session.                                            *)

LEMMA WhoOpens ==
  ASSUME TypeOK, [Next]_vars, comp.locked, ~comp'.locked
  PROVE  \/ CompositorFinishes
         \/ \E g \in Generations : /\ HandleLockRelease(g)
                                   /\ held[g] = "locked" /\ comp.owner = g
<1> USE DEF compositorVars
<1>1. comp' # comp
  OBVIOUS
<1>2. ~Respawn
  BY <1>1 DEF Respawn
<1>3. \A w \in workers, outcome \in PamOutcomes : ~RecordPamOutcome(w, outcome)
  BY <1>1 DEF RecordPamOutcome
<1>4. \A t \in timers : ~ReleaseTimerFires(t)
  BY <1>1 DEF ReleaseTimerFires
<1>5. \A g \in Generations : ~SupervisorStep(g)
  BY <1>1
  DEF SupervisorStep, Hydrate, DropStaleFrame, RecordLockReport, DispatchLock,
      BeginAuthentication
<1>6. ASSUME NEW g \in Generations, RendererStep(g)
      PROVE  HandleLockRelease(g) /\ held[g] = "locked" /\ comp.owner = g
  BY <1>1, <1>6
  DEF RendererStep, RendererConnects, HandleLockNothing, HandleLockRefuse,
      HandleLockAcquire, HandleLockRelease, DispatchLocked, DispatchFinished,
      RendererLosesSupervisor, ProcessEnds
<1>7. \A g \in Generations :
        /\ ~RendererAsksLock(g) /\ ~RendererSubmits(g) /\ ~ConfigReload(g)
        /\ ~RendererDies(g) /\ ~CompositorGrants(g) /\ ~CompositorDenies(g)
  BY <1>1
  DEF RendererAsksLock, RendererSubmits, ConfigReload, RendererDies,
      ProcessEnds, CompositorGrants, CompositorDenies
<1>8. /\ ~LockRequestedByLogind /\ ~SendLockCommand
      /\ ~ReplaceDepartedRenderer /\ ~CooldownExpires
      /\ ~SupervisorStop /\ ~SupervisorStart /\ ~UNCHANGED vars
  BY <1>1, <1>2
  DEF LockRequestedByLogind, SendLockCommand, ReplaceDepartedRenderer,
      CooldownExpires, SupervisorStop, SupervisorStart, vars
<1> QED
  BY <1>3, <1>4, <1>5, <1>6, <1>7, <1>8 DEF Next

Entitled == comp.locked /\ \E grant \in answered : grant >= comp.since

LEMMA OpensEntitled ==
  ASSUME TypeOK, ChainInv, Token, NEW g \in Generations, HandleLockRelease(g),
         held[g] = "locked", comp.locked, comp.owner = g
  PROVE  Entitled
<1>1. Has(down[g], FALSE)
  BY TokenDrain DEF HandleLockRelease
<1>2. granted[g] \in answered
  BY <1>1 DEF Token, ReleaseIsMeant
<1>3. granted[g] = comp.grant /\ comp.since <= comp.grant
  BY DEF ChainInv, GrantInv
<1>4. comp.since \in Nat /\ comp.grant \in Nat
  BY DEF TypeOK, CompositorOK
<1> QED
  BY <1>2, <1>3, <1>4 DEF Entitled

(* A locked session is opened by a Renderer only after PAM accepted a      *)
(* password given since it was locked, whichever generation shows the lock *)
(* screen by then and whatever became of the ones before it; a release     *)
(* that was late for its lock opens no other (controller.rs: release,      *)
(* wayland/lock.rs: handle_lock_command).                                  *)
THEOREM OnlyAnsweredOpen == Spec => OnlyAnsweredSessionsOpen
<1>1. ASSUME TypeOK, ChainInv, TokenInv, [Next]_vars, Released, ~overlapped
      PROVE  \E grant \in answered : grant >= comp.since
  <2>1. ~CompositorFinishes
    BY <1>1 DEF CompositorFinishes, rendererVars, Released
  <2>2. PICK g \in Generations : /\ HandleLockRelease(g)
                                 /\ held[g] = "locked" /\ comp.owner = g
    BY <1>1, <2>1, WhoOpens DEF Released
  <2> QED
    BY <1>1, <2>2, OpensEntitled DEF Released, TokenInv, Entitled
<1>2. TypeOK /\ ChainInv /\ TokenInv /\ [Next]_vars =>
        [(Released /\ ~overlapped)
           => \E grant \in answered : grant >= comp.since]_vars
  BY <1>1
<1> QED
  BY <1>2, TypeCorrect, ChainCorrect, TokenCorrect, PTL
  DEF Spec, OnlyAnsweredSessionsOpen

-----------------------------------------------------------------------------
(* The refinement of LockContract.                                         *)

LEMMA ContractFrame ==
  ASSUME UNCHANGED comp, Entitled' = Entitled,
         comp.locked => (Alive(comp.owner)' <=> Alive(comp.owner))
  PROVE  UNCHANGED Contract!contractVars
<1>1. GlassNow' = GlassNow
  BY DEF GlassNow, Bare
<1> QED
  BY <1>1 DEF Contract!contractVars, Entitled

LEMMA ContractSame ==
  ASSUME UNCHANGED <<comp, answered, proc>>
  PROVE  UNCHANGED Contract!contractVars
<1>1. Entitled' = Entitled
  BY DEF Entitled
<1>2. Alive(comp.owner)' <=> Alive(comp.owner)
  BY DEF Alive
<1> QED
  BY <1>1, <1>2, ContractFrame

LEMMA ContractSpawn ==
  ASSUME TypeOK, ChainInv, spawned < MaxGenerations,
         proc' = [proc EXCEPT ![spawned + 1] = "starting"],
         UNCHANGED <<comp, answered>>
  PROVE  UNCHANGED Contract!contractVars
<1>1. Entitled' = Entitled
  BY DEF Entitled
<1>2. ASSUME comp.locked
      PROVE  Alive(comp.owner)' <=> Alive(comp.owner)
  <2>1. comp.owner \in Generations /\ spawned \in Nat
    BY <1>2 DEF ChainInv, GrantInv, TypeOK, SupervisorOK, Generations
  <2>2. comp.owner # spawned + 1
    BY <1>2, <2>1
    DEF ChainInv, LockObjects, LockObject, Owns, Generations
  <2> QED
    BY <2>1, <2>2 DEF Alive, TypeOK, RenderersOK
<1> QED
  BY <1>1, <1>2, ContractFrame

LEMMA ContractEnds ==
  ASSUME TypeOK, ChainInv, NEW h \in Generations, Alive(h), ProcessEnds(h)
  PROVE  Contract!LoseScreen \/ UNCHANGED Contract!contractVars
<1>1. /\ UNCHANGED <<comp, answered>> /\ proc' = [proc EXCEPT ![h] = "dead"]
  BY DEF ProcessEnds, historyVars
<1>2. Entitled' = Entitled
  BY <1>1 DEF Entitled
<1>3. CASE comp.locked /\ comp.owner = h
  <2>1. Alive(comp.owner) /\ ~Alive(comp.owner)'
    BY <1>1, <1>3 DEF Alive, TypeOK, RenderersOK
  <2>2. GlassNow = "covered" /\ GlassNow' = "bare"
    BY <1>1, <1>3, <2>1 DEF GlassNow, Bare
  <2> QED
    BY <1>2, <2>2 DEF Contract!LoseScreen, Entitled
<1>4. CASE ~(comp.locked /\ comp.owner = h)
  <2>1. comp.locked => (Alive(comp.owner)' <=> Alive(comp.owner))
    BY <1>1, <1>4 DEF Alive, TypeOK, RenderersOK
  <2> QED
    BY <1>1, <1>2, <2>1, ContractFrame
<1> QED
  BY <1>3, <1>4

LEMMA ContractGrants ==
  ASSUME TypeOK, ChainInv, NEW h \in Generations, CompositorGrants(h)
  PROVE  Contract!Lock \/ Contract!RegainScreen
<1>1. /\ h \in asked /\ (comp.locked => ~Alive(comp.owner))
      /\ comp' = [locked |-> TRUE, owner |-> h, grant |-> comp.grant + 1,
                  since |-> IF comp.locked THEN comp.since ELSE comp.grant + 1]
      /\ UNCHANGED <<answered, proc>>
  BY DEF CompositorGrants, historyVars, rendererVars
<1>2. Alive(h)
  BY <1>1 DEF ChainInv, LockObjects, LockObject
<1>3. GlassNow' = "covered"
  BY <1>1, <1>2 DEF GlassNow, Bare, Alive
<1>4. CASE comp.locked
  <2>1. GlassNow = "bare"
    BY <1>1, <1>4 DEF GlassNow, Bare
  <2>2. Entitled' = Entitled
    BY <1>1, <1>4 DEF Entitled
  <2> QED
    BY <1>3, <2>1, <2>2 DEF Contract!RegainScreen, Entitled
<1>5. CASE ~comp.locked
  <2>1. GlassNow = "open"
    BY <1>5 DEF GlassNow
  <2>2. comp'.since = comp.grant + 1 /\ comp.grant \in Nat
    BY <1>1, <1>5 DEF TypeOK, CompositorOK
  <2>3. \A grant \in answered : grant \in Nat /\ grant <= comp.grant
    BY DEF ChainInv, GrantInv, TypeOK, SupervisorOK
  <2>4. ~Entitled'
    BY <1>1, <2>2, <2>3 DEF Entitled
  <2> QED
    BY <1>3, <2>1, <2>4 DEF Contract!Lock, Entitled
<1> QED
  BY <1>4, <1>5

LEMMA ContractAnswer ==
  ASSUME NEW w \in workers, NEW outcome \in PamOutcomes,
         RecordPamOutcome(w, outcome)
  PROVE  Contract!Accept \/ UNCHANGED Contract!contractVars
<1>1. UNCHANGED <<comp, proc>> /\ answered \subseteq answered'
  BY DEF RecordPamOutcome, compositorVars, rendererVars
<1>2. Alive(comp.owner)' <=> Alive(comp.owner)
  BY <1>1 DEF Alive
<1>3. GlassNow' = GlassNow /\ (Entitled => Entitled')
  BY <1>1, <1>2 DEF GlassNow, Bare, Entitled
<1>4. CASE Entitled' /\ ~Entitled
  <2>1. GlassNow # "open"
    BY <1>1, <1>4 DEF Entitled, GlassNow
  <2> QED
    BY <1>3, <1>4, <2>1 DEF Contract!Accept, Entitled
<1>5. CASE ~(Entitled' /\ ~Entitled)
  <2>1. Entitled' = Entitled
    BY <1>3, <1>5 DEF Entitled
  <2> QED
    BY <1>3, <2>1 DEF Contract!contractVars, Entitled
<1> QED
  BY <1>4, <1>5

LEMMA ContractRelease ==
  ASSUME TypeOK, ChainInv, TokenInv, NEW g \in Generations,
         HandleLockRelease(g)
  PROVE  Contract!Open \/ overlapped' \/ UNCHANGED Contract!contractVars
<1>1. /\ proc[g] = "connected" /\ UNCHANGED <<answered, proc, overlapped>>
      /\ comp' = IF held[g] = "locked" /\ comp.owner = g
                 THEN [comp EXCEPT !.locked = FALSE, !.owner = NoOwner]
                 ELSE comp
  BY DEF HandleLockRelease, Drains, historyVars
<1>2. CASE held[g] = "locked" /\ comp.locked /\ comp.owner = g /\ ~overlapped
  <2>1. Entitled
    BY <1>2, OpensEntitled DEF TokenInv
  <2>2. GlassNow = "covered"
    BY <1>1, <1>2 DEF GlassNow, Bare, Alive
  <2>3. ~comp'.locked
    BY <1>1, <1>2 DEF TypeOK, CompositorOK
  <2>4. GlassNow' = "open" /\ ~Entitled'
    BY <2>3 DEF GlassNow, Entitled
  <2> QED
    BY <2>1, <2>2, <2>4 DEF Contract!Open, Entitled
<1>3. CASE held[g] = "locked" /\ ~comp.locked /\ comp.owner = g
  <2>1. ~comp'.locked
    BY <1>1, <1>3 DEF TypeOK, CompositorOK
  <2>2. GlassNow' = GlassNow /\ ~Entitled /\ ~Entitled'
    BY <1>3, <2>1 DEF GlassNow, Entitled
  <2> QED
    BY <2>2 DEF Contract!contractVars, Entitled
<1>4. CASE ~(held[g] = "locked" /\ comp.owner = g)
  BY <1>1, <1>4, ContractSame
<1> QED
  BY <1>1, <1>2, <1>3, <1>4

LEMMA ContractStep ==
  ASSUME ~CompositorEnds, TypeOK, ChainInv, TokenInv, [Next]_vars
  PROVE  [Contract!ContractNext \/ overlapped']_(Contract!contractVars)
<1> DEFINE Kept == \/ Contract!ContractNext \/ overlapped'
                   \/ UNCHANGED Contract!contractVars
<1> SUFFICES Kept
  OBVIOUS
<1> USE DEF supervisorVars, rendererVars, compositorVars, historyVars,
            Contract!ContractNext
<1>1. CASE LockRequestedByLogind
  BY <1>1, ContractSame DEF LockRequestedByLogind
<1>2. CASE SendLockCommand
  BY <1>2, ContractSame DEF SendLockCommand
<1>3. CASE ReplaceDepartedRenderer
  BY <1>3, ContractSame, ContractSpawn DEF ReplaceDepartedRenderer, Respawn
<1>4. CASE CooldownExpires
  BY <1>4, ContractSpawn DEF CooldownExpires, Respawn
<1>5. CASE SupervisorStop
  BY <1>5, ContractSame DEF SupervisorStop
<1>6. CASE SupervisorStart
  BY <1>6, ContractSpawn DEF SupervisorStart
<1>7. CASE CompositorFinishes
  BY <1>7 DEF CompositorFinishes
<1>8. ASSUME NEW w \in workers, NEW outcome \in PamOutcomes,
             RecordPamOutcome(w, outcome)
      PROVE  Kept
  BY <1>8, ContractAnswer
<1>9. ASSUME NEW t \in timers, ReleaseTimerFires(t)
      PROVE  Kept
  BY <1>9, ContractSame DEF ReleaseTimerFires
<1>10. ASSUME NEW g \in Generations, SupervisorStep(g)
       PROVE  Kept
  BY <1>10, ContractSame
  DEF SupervisorStep, Hydrate, DropStaleFrame, RecordLockReport, DispatchLock,
      BeginAuthentication
<1>11. ASSUME NEW g \in Generations, RendererStep(g)
       PROVE  Kept
  <2>1. CASE RendererConnects(g)
    <3>1. /\ proc[g] = "starting" /\ proc' = [proc EXCEPT ![g] = "connected"]
          /\ UNCHANGED <<comp, answered>>
      BY <2>1 DEF RendererConnects
    <3>2. comp.locked => (Alive(comp.owner)' <=> Alive(comp.owner))
      BY <3>1 DEF Alive, ChainInv, GrantInv, TypeOK, RenderersOK
    <3>3. Entitled' = Entitled
      BY <3>1 DEF Entitled
    <3> QED
      BY <3>1, <3>2, <3>3, ContractFrame
  <2>2. CASE \/ HandleLockNothing(g) \/ HandleLockRefuse(g)
             \/ HandleLockAcquire(g) \/ DispatchLocked(g) \/ DispatchFinished(g)
    BY <2>2, ContractSame
    DEF HandleLockNothing, HandleLockRefuse, HandleLockAcquire, DispatchLocked,
        DispatchFinished
  <2>3. CASE RendererLosesSupervisor(g)
    BY <2>3, ContractEnds DEF RendererLosesSupervisor
  <2> QED
    BY <1>11, <2>1, <2>2, <2>3, ContractRelease DEF RendererStep
<1>12. ASSUME NEW g \in Generations,
              RendererAsksLock(g) \/ RendererSubmits(g) \/ ConfigReload(g)
              \/ CompositorDenies(g)
       PROVE  Kept
  BY <1>12, ContractSame
  DEF RendererAsksLock, RendererSubmits, ConfigReload, CompositorDenies
<1>13. ASSUME NEW g \in Generations, RendererDies(g)
       PROVE  Kept
  BY <1>13, ContractEnds DEF RendererDies
<1>14. ASSUME NEW g \in Generations, CompositorGrants(g)
       PROVE  Kept
  BY <1>14, ContractGrants
<1>15. CASE UNCHANGED vars
  BY <1>15, ContractSame DEF vars
<1> HIDE DEF Kept
<1> QED
  BY <1>1, <1>2, <1>3, <1>4, <1>5, <1>6, <1>7, <1>8, <1>9, <1>10, <1>11,
     <1>12, <1>13, <1>14, <1>15 DEF Next

(* The four parties together keep what LockContract promises the person in *)
(* front of the lock, until a lock is asked for while another is on its    *)
(* way: no interleaving of reports, commands, grants, deaths, respawns and *)
(* restarts of the Supervisor opens, covers or bares the glass otherwise.  *)
(* A compositor that ends a lock of its own accord opens the session, and  *)
(* nothing in this code can keep it from that; it is taken not to.         *)
THEOREM ContractIsKept ==
  ASSUME ~CompositorEnds
  PROVE  Spec => KeepsTheContract
<1>1. ASSUME Init
      PROVE  Contract!ContractInit
  BY <1>1 DEF Init, Contract!ContractInit, GlassNow
<1>2. TypeOK /\ ChainInv /\ TokenInv /\ [Next]_vars =>
        [Contract!ContractNext \/ overlapped']_(Contract!contractVars)
  BY ContractStep
<1> QED
  BY <1>1, <1>2, TypeCorrect, ChainCorrect, TokenCorrect, PTL
  DEF Spec, KeepsTheContract

-----------------------------------------------------------------------------
(* What is owed to a session nobody shows a lock screen for.               *)

(* A lock object that was granted and not taken back locks the session.    *)
Showing(g) ==
  \/ held[g] = "locked" /\ events[g] = <<>>
  \/ held[g] = "requested" /\ events[g] = <<"locked">>

GlassInv == \A g \in Generations : Showing(g) => Owns(g)

LEMMA GlassFrame ==
  ASSUME GlassInv, UNCHANGED comp,
         \A g \in Generations : Showing(g)' => Showing(g)
  PROVE  GlassInv'
  BY DEF GlassInv, Owns

LEMMA GlassSame ==
  ASSUME GlassInv, UNCHANGED <<comp, held, events>>
  PROVE  GlassInv'
  BY DEF GlassInv, Owns, Showing

(* Who shows a lock screen is alive, so nobody is granted another.         *)
LEMMA OneShows ==
  ASSUME LockObjects, GlassInv, NEW g \in Generations, Showing(g)
  PROVE  comp.locked /\ comp.owner = g /\ Alive(g)
  BY DEF LockObjects, LockObject, GlassInv, Owns, Showing

LEMMA GlassEnds ==
  ASSUME TypeOK, GlassInv, NEW h \in Generations, ProcessEnds(h)
  PROVE  GlassInv'
<1>1. /\ UNCHANGED comp
      /\ \A g \in Generations :
           held'[g] = "none" \/ UNCHANGED <<held[g], events[g]>>
  BY DEF ProcessEnds, TypeOK, RenderersOK
<1> QED
  BY <1>1, GlassFrame DEF Showing

LEMMA GlassMoves ==
  ASSUME TypeOK, LockObjects, GlassInv, NEW h \in Generations,
         \/ HandleLockAcquire(h) \/ HandleLockRelease(h)
         \/ DispatchLocked(h) \/ DispatchFinished(h)
  PROVE  GlassInv'
<1>1. LockObject(h)
  BY DEF LockObjects
<1>2. CASE HandleLockAcquire(h)
  <2>1. /\ UNCHANGED <<comp, events>> /\ held[h] = "none"
        /\ held'[h] = "requested"
        /\ \A g \in Generations \ {h} : held'[g] = held[g]
    BY <1>2 DEF HandleLockAcquire, TypeOK, RenderersOK
  <2>2. events'[h] = <<>> /\ <<>> # <<"locked">>
    BY <1>1, <2>1 DEF LockObject
  <2>3. \A g \in Generations : Showing(g)' => Showing(g)
    BY <2>1, <2>2 DEF Showing
  <2> QED
    BY <2>1, <2>3, GlassFrame
<1>3. CASE HandleLockRelease(h)
  <2>1. /\ events' = events /\ held'[h] = "none"
        /\ \A g \in Generations \ {h} : held'[g] = held[g]
        /\ comp'.locked # comp.locked \/ comp'.owner # comp.owner
             => comp.owner = h
    BY <1>3 DEF HandleLockRelease, TypeOK, RenderersOK
  <2>2. \A g \in Generations : Showing(g)' => g # h /\ Showing(g)
    BY <2>1 DEF Showing
  <2>3. \A g \in Generations :
          Showing(g)' => comp.locked /\ comp.owner = g /\ g # h
    BY <2>2, OneShows
  <2> QED
    BY <2>1, <2>3 DEF GlassInv, Owns
<1>4. CASE DispatchLocked(h)
  <2>1. /\ UNCHANGED comp /\ held'[h] = "locked"
        /\ events[h] # <<>> /\ Head(events[h]) = "locked"
        /\ events'[h] = Tail(events[h])
        /\ \A g \in Generations \ {h} : UNCHANGED <<held[g], events[g]>>
    BY <1>4 DEF DispatchLocked, compositorVars, TypeOK, RenderersOK
  <2>2. /\ held[h] = "requested"
        /\ events[h] \in {<<"locked">>, <<"locked", "finished">>}
    BY <1>1, <2>1 DEF LockObject, TypeOK, RenderersOK
  <2>3. <<"finished">> # <<>>
    OBVIOUS
  <2>4. Showing(h)' => Showing(h)
    BY <2>1, <2>2, <2>3, EventQueues DEF Showing
  <2>5. \A g \in Generations : Showing(g)' => Showing(g)
    BY <2>1, <2>4 DEF Showing
  <2> QED
    BY <2>1, <2>5, GlassFrame
<1>5. CASE DispatchFinished(h)
  <2>1. /\ UNCHANGED comp /\ held'[h] = "none"
        /\ \A g \in Generations \ {h} : UNCHANGED <<held[g], events[g]>>
    BY <1>5 DEF DispatchFinished, compositorVars, TypeOK, RenderersOK
  <2>2. \A g \in Generations : Showing(g)' => Showing(g)
    BY <2>1 DEF Showing
  <2> QED
    BY <2>1, <2>2, GlassFrame
<1> QED
  BY <1>2, <1>3, <1>4, <1>5

LEMMA GlassGranted ==
  ASSUME TypeOK, LockObjects, GlassInv, NEW h \in Generations,
         CompositorGrants(h)
  PROVE  GlassInv'
<1>1. /\ comp.locked => ~Alive(comp.owner)
      /\ comp'.locked /\ comp'.owner = h /\ held' = held
      /\ \A g \in Generations \ {h} : events'[g] = events[g]
  BY DEF CompositorGrants, rendererVars, TypeOK, RenderersOK
<1>2. ASSUME NEW g \in Generations \ {h}
      PROVE  ~Showing(g)'
  BY <1>1, <1>2, OneShows DEF Showing
<1> QED
  BY <1>1, <1>2 DEF GlassInv, Owns

LEMMA GlassAnswers ==
  ASSUME TypeOK, LockObjects, GlassInv, NEW h \in Generations,
         \/ CompositorDenies(h)
         \/ CompositorFinishes /\ comp.owner = h
  PROVE  GlassInv'
<1>1. /\ held' = held /\ events[h] \in Seq({"locked", "finished"})
      /\ events'[h] = Append(events[h], "finished")
      /\ \A g \in Generations \ {h} : events'[g] = events[g]
  BY DEF CompositorDenies, CompositorFinishes, rendererVars, TypeOK,
         RenderersOK
<1>2. events'[h] # <<>> /\ events'[h] # <<"locked">>
  <2>1. Len(events'[h]) = Len(events[h]) + 1 /\ Len(events[h]) \in Nat
        /\ events'[h][Len(events[h]) + 1] = "finished"
    BY <1>1
  <2>2. Len(<<>>) = 0 /\ Len(<<"locked">>) = 1 /\ <<"locked">>[1] = "locked"
    OBVIOUS
  <2> QED
    BY <2>1, <2>2
<1>3. \A g \in Generations : Showing(g)' => g # h /\ Showing(g)
  BY <1>1, <1>2 DEF Showing
<1>4. CASE CompositorDenies(h)
  BY <1>3, <1>4, GlassFrame DEF CompositorDenies
<1>5. CASE comp.owner = h
  <2>1. \A g \in Generations : ~Showing(g)'
    BY <1>3, <1>5, OneShows
  <2> QED
    BY <2>1 DEF GlassInv
<1> QED
  BY <1>4, <1>5

LEMMA GlassStep ==
  TypeOK /\ ChainInv /\ GlassInv /\ [Next]_vars => GlassInv'
<1> SUFFICES ASSUME TypeOK, ChainInv, GlassInv, [Next]_vars
             PROVE  GlassInv'
  OBVIOUS
<1> USE DEF rendererVars, channelVars, compositorVars
<1>0. LockObjects
  BY DEF ChainInv
<1>1. Respawn => GlassInv'
  BY GlassSame DEF Respawn
<1>2. ASSUME NEW w \in workers, NEW outcome \in PamOutcomes,
             RecordPamOutcome(w, outcome)
      PROVE  GlassInv'
  BY <1>2, GlassSame DEF RecordPamOutcome
<1>3. ASSUME NEW t \in timers, ReleaseTimerFires(t)
      PROVE  GlassInv'
  BY <1>3, GlassSame DEF ReleaseTimerFires
<1>4. ASSUME NEW g \in Generations, SupervisorStep(g)
      PROVE  GlassInv'
  BY <1>4, GlassSame
  DEF SupervisorStep, Hydrate, DropStaleFrame, RecordLockReport, DispatchLock,
      BeginAuthentication
<1>5. ASSUME NEW g \in Generations, RendererStep(g)
      PROVE  GlassInv'
  <2>1. CASE RendererConnects(g) \/ HandleLockNothing(g) \/ HandleLockRefuse(g)
    BY <2>1, GlassSame
    DEF RendererConnects, HandleLockNothing, HandleLockRefuse
  <2> QED
    BY <1>0, <1>5, <2>1, GlassMoves, GlassEnds
    DEF RendererStep, RendererLosesSupervisor
<1>6. ASSUME NEW g \in Generations,
             \/ RendererAsksLock(g) \/ RendererSubmits(g) \/ ConfigReload(g)
      PROVE  GlassInv'
  BY <1>6, GlassSame DEF RendererAsksLock, RendererSubmits, ConfigReload
<1>7. ASSUME NEW g \in Generations, RendererDies(g)
      PROVE  GlassInv'
  BY <1>7, GlassEnds DEF RendererDies
<1>8. CASE \/ LockRequestedByLogind \/ SendLockCommand
           \/ ReplaceDepartedRenderer \/ CooldownExpires \/ SupervisorStop
           \/ SupervisorStart \/ UNCHANGED vars
  BY <1>1, <1>8, GlassSame
  DEF LockRequestedByLogind, SendLockCommand, ReplaceDepartedRenderer,
      CooldownExpires, SupervisorStop, SupervisorStart, vars
<1>9. CASE CompositorFinishes
  <2>1. comp.owner \in Generations
    BY <1>9 DEF CompositorFinishes, ChainInv, GrantInv
  <2> QED
    BY <1>0, <1>9, <2>1, GlassAnswers
<1> QED
  BY <1>0, <1>2, <1>3, <1>4, <1>5, <1>6, <1>7, <1>8, <1>9, GlassGranted,
     GlassAnswers DEF Next

(* While the Supervisor runs, the authoritative generation is the only one *)
(* that may be alive: it is replaced when it is dead.                      *)
OneLives == up /\ \A g \in Generations : Alive(g) => g = authoritative

LEMMA OneLivesStep ==
  ASSUME ~SupervisorStops, TypeOK, LifeInv, OneLives, [Next]_vars
  PROVE  OneLives'
<1> USE DEF supervisorVars, rendererVars
<1>1. ASSUME UNCHANGED <<up, authoritative>>,
             \A g \in Generations : Alive(g)' => Alive(g)
      PROVE  OneLives'
  BY <1>1 DEF OneLives
<1>2. UNCHANGED <<up, authoritative, proc>> => OneLives'
  BY <1>1 DEF Alive
<1>3. ASSUME proc[authoritative] = "dead", Respawn, up
      PROVE  OneLives'
  <2>1. \A g \in Generations : ~Alive(g)
    BY <1>3 DEF OneLives, Alive
  <2>2. \A g \in Generations : Alive(g)' => g = spawned + 1
    BY <1>3, <2>1 DEF Respawn, Alive, TypeOK, RenderersOK
  <2> QED
    BY <1>3, <2>2 DEF Respawn, OneLives
<1>4. CASE ReplaceDepartedRenderer
  BY <1>2, <1>3, <1>4 DEF ReplaceDepartedRenderer
<1>5. CASE CooldownExpires
  BY <1>3, <1>5 DEF CooldownExpires, LifeInv
<1>6. CASE \/ LockRequestedByLogind \/ SendLockCommand \/ CompositorFinishes
           \/ UNCHANGED vars
  BY <1>2, <1>6
  DEF LockRequestedByLogind, SendLockCommand, CompositorFinishes, vars
<1>7. ~SupervisorStop /\ ~SupervisorStart
  BY DEF SupervisorStop, SupervisorStart, OneLives
<1>8. ASSUME NEW w \in workers, NEW outcome \in PamOutcomes,
             RecordPamOutcome(w, outcome)
      PROVE  OneLives'
  BY <1>2, <1>8 DEF RecordPamOutcome
<1>9. ASSUME NEW t \in timers, ReleaseTimerFires(t)
      PROVE  OneLives'
  BY <1>2, <1>9 DEF ReleaseTimerFires
<1>10. ASSUME NEW g \in Generations, SupervisorStep(g)
       PROVE  OneLives'
  BY <1>2, <1>10
  DEF SupervisorStep, Hydrate, DropStaleFrame, RecordLockReport, DispatchLock,
      BeginAuthentication
<1>11. ASSUME NEW h \in Generations, ProcessEnds(h)
       PROVE  OneLives'
  <2>1. /\ UNCHANGED <<up, authoritative>>
        /\ \A g \in Generations : Alive(g)' => Alive(g)
    BY <1>11 DEF ProcessEnds, Alive, TypeOK, RenderersOK
  <2> QED
    BY <1>1, <2>1
<1>12. ASSUME NEW g \in Generations, RendererStep(g)
       PROVE  OneLives'
  <2>1. CASE RendererConnects(g)
    BY <2>1 DEF RendererConnects, OneLives, Alive, TypeOK, RenderersOK
  <2>2. CASE RendererLosesSupervisor(g)
    BY <1>11, <2>2 DEF RendererLosesSupervisor
  <2>3. CASE ~RendererConnects(g) /\ ~RendererLosesSupervisor(g)
    BY <1>2, <1>12, <2>3
    DEF RendererStep, HandleLockNothing, HandleLockRefuse, HandleLockAcquire,
        HandleLockRelease, DispatchLocked, DispatchFinished
  <2> QED
    BY <2>1, <2>2, <2>3
<1>13. ASSUME NEW g \in Generations,
              \/ RendererAsksLock(g) \/ RendererSubmits(g) \/ ConfigReload(g)
              \/ RendererDies(g) \/ CompositorGrants(g) \/ CompositorDenies(g)
       PROVE  OneLives'
  BY <1>2, <1>11, <1>13
  DEF RendererAsksLock, RendererSubmits, ConfigReload, RendererDies,
      CompositorGrants, CompositorDenies
<1> QED
  BY <1>4, <1>5, <1>6, <1>7, <1>8, <1>9, <1>10, <1>12, <1>13 DEF Next

(* A report under way that the lock is over.                               *)
Over(s) == \E i \in 1..Len(s) : s[i].kind \in Ended

(* The compositor took the lock back and g has not heard of it.            *)
Ending(g) ==
  \/ held[g] = "locked" /\ events[g] = <<"finished">>
  \/ events[g] = <<"locked", "finished">>

(* A locked session is owed a lock screen by the record of the Supervisor; *)
(* so is every request that may still be granted, and what tells the       *)
(* record to forget the lock comes after the lock.                         *)
SessionIsOwed == comp.locked => Owed
RequestIsOwed ==
  (Queued \/ held[authoritative] = "requested") => lock.requested \/ relockOwed
OverIsOver ==
  Over(frames[authoritative]) \/ Ending(authoritative) => ~comp.locked

Debt    == SessionIsOwed /\ RequestIsOwed /\ OverIsOver
DebtInv == OneLives /\ (~overlapped => Debt)

LEMMA OverPush ==
  ASSUME NEW s \in Seq(Frames), NEW f \in Frames, Over(Append(s, f))
  PROVE  Over(s) \/ f.kind \in Ended
<1>1. PICK i \in 1..(Len(s) + 1) : Append(s, f)[i].kind \in Ended
  BY DEF Over
<1>2. /\ Len(s) \in Nat /\ Append(s, f)[Len(s) + 1] = f
      /\ \A j \in 1..Len(s) : Append(s, f)[j] = s[j]
  OBVIOUS
<1>3. i \in 1..Len(s) \/ i = Len(s) + 1
  BY <1>2
<1> QED
  BY <1>1, <1>2, <1>3 DEF Over

LEMMA OverPop ==
  ASSUME NEW s \in Seq(Frames), s # <<>>, Over(Tail(s))
  PROVE  Over(s)
<1>1. /\ Len(Tail(s)) = Len(s) - 1 /\ Len(s) \in Nat \ {0}
      /\ \A i \in 1..(Len(s) - 1) : Tail(s)[i] = s[i + 1] /\ i + 1 \in 1..Len(s)
  OBVIOUS
<1>2. PICK i \in 1..(Len(s) - 1) : Tail(s)[i].kind \in Ended
  BY <1>1 DEF Over
<1> QED
  BY <1>1, <1>2 DEF Over

LEMMA OverPrefix ==
  ASSUME NEW s \in Seq(Frames), NEW n \in 0..Len(s), Over(SubSeq(s, 1, n))
  PROVE  Over(s)
<1>1. Len(SubSeq(s, 1, n)) = n /\ \A i \in 1..n : SubSeq(s, 1, n)[i] = s[i]
  OBVIOUS
<1>2. \A i \in 1..n : i \in 1..Len(s)
  OBVIOUS
<1> QED
  BY <1>1, <1>2 DEF Over

(* A step that puts nothing on its way and forgets no debt.                *)
LEMMA DebtFrame ==
  ASSUME Debt, UNCHANGED authoritative,
         comp'.locked => comp.locked,
         comp'.locked /\ Owed => Owed',
         Queued' \/ held'[authoritative] = "requested" =>
           /\ Queued \/ held[authoritative] = "requested"
           /\ lock.requested \/ relockOwed => lock'.requested \/ relockOwed',
         comp'.locked =>
           /\ Over(frames'[authoritative]) => Over(frames[authoritative])
           /\ Ending(authoritative)' => Ending(authoritative)
  PROVE  Debt'
<1>1. SessionIsOwed'
  BY DEF Debt, SessionIsOwed
<1>2. RequestIsOwed'
  BY DEF Debt, RequestIsOwed
<1>3. OverIsOver'
  BY DEF Debt, OverIsOver
<1> QED
  BY <1>1, <1>2, <1>3 DEF Debt

(* A step in which the Supervisor takes a debt upon itself.                *)
LEMMA DebtTaken ==
  ASSUME Debt, UNCHANGED <<authoritative, held, events, comp>>,
         lock'.requested \/ relockOwed',
         Over(frames'[authoritative]) => Over(frames[authoritative])
  PROVE  Debt'
<1>1. Ending(authoritative)' => Ending(authoritative)
  BY DEF Ending
<1> QED
  BY <1>1 DEF Debt, SessionIsOwed, RequestIsOwed, OverIsOver, Owed

LEMMA DebtSame ==
  ASSUME Debt,
         UNCHANGED <<authoritative, relockOwed, lock, commands, down, held,
                     events, frames, comp>>
  PROVE  Debt'
<1>1. /\ Queued' = Queued /\ Ending(authoritative)' = Ending(authoritative)
      /\ Owed' = Owed
  BY DEF Queued, Ending, Owed
<1> QED
  BY <1>1, DebtFrame

(* While a lock is active no other is asked for.                           *)
LEMMA ActiveIsAlone ==
  ASSUME TypeOK, ChainInv, Token, up, lock.active
  PROVE  ~Queued /\ held[authoritative] # "requested"
<1>1. held[authoritative] # "requested"
  BY ActiveIsHeld
<1> QED
  BY <1>1 DEF Token, RequestIsAlone

LEMMA DebtLockCall ==
  ASSUME TypeOK, Debt, LockCall,
         UNCHANGED <<authoritative, down, held, events, comp>>,
         lock.active \/ relockOwed' = relockOwed \/ lock'.requested,
         lock.active => ~Queued /\ held[authoritative] # "requested",
         Over(frames'[authoritative]) => Over(frames[authoritative])
  PROVE  Debt'
<1>1. CASE lock.active /\ UNCHANGED <<lock, commands, overlapped>>
  <2>1. Queued' = Queued /\ Ending(authoritative)' = Ending(authoritative)
    BY <1>1 DEF Queued, Ending
  <2>2. Owed'
    BY <1>1 DEF Owed
  <2> QED
    BY <1>1, <2>1, <2>2, DebtFrame
<1>2. CASE ~lock.active /\ lock' = LockRequested(lock)
  <2>1. lock'.requested
    BY <1>2 DEF LockRequested, TypeOK, SupervisorOK, LockStates
  <2> QED
    BY <2>1, DebtTaken
<1> QED
  BY <1>1, <1>2 DEF LockCall

(* What the authoritative generation has under way after a frame of its    *)
(* own is read, cut or sent.                                               *)
LEMMA OverReceive ==
  ASSUME TypeOK, NEW g \in Generations, NEW kinds, Receives(g, kinds),
         Over(frames'[authoritative])
  PROVE  Over(frames[authoritative])
<1>1. /\ frames[g] \in Seq(Frames) /\ frames[g] # <<>>
      /\ frames'[g] = Tail(frames[g])
      /\ \A h \in Generations \ {g} : frames'[h] = frames[h]
      /\ authoritative \in Generations
  BY DEF Receives, TypeOK, RenderersOK, SupervisorOK
<1> QED
  BY <1>1, OverPop

LEMMA OverSend ==
  ASSUME TypeOK, NEW g \in Generations, NEW kind \in FrameKinds, NEW id \in Nat,
         Sends(g, kind, id), Over(frames'[authoritative])
  PROVE  Over(frames[authoritative]) \/ (g = authoritative /\ kind \in Ended)
<1> DEFINE frame == [kind |-> kind, id |-> id, grant |-> granted[g]]
<1>1. frame \in Frames /\ frame.kind = kind
  BY DEF Frames, TypeOK, CompositorOK
<1>2. /\ authoritative \in Generations /\ frames[authoritative] \in Seq(Frames)
      /\ \/ frames'[authoritative] = frames[authoritative]
         \/ /\ g = authoritative
            /\ frames'[authoritative] = Append(frames[authoritative], frame)
  BY DEF Sends, Linked, TypeOK, RenderersOK, SupervisorOK
<1> HIDE DEF frame
<1> QED
  BY <1>1, <1>2, OverPush

LEMMA DebtEnds ==
  ASSUME TypeOK, Debt, NEW h \in Generations, ProcessEnds(h)
  PROVE  Debt'
<1>1. PICK n \in 0..Len(frames[h]) :
        frames' = [frames EXCEPT ![h] = SubSeq(@, 1, n)]
  BY DEF ProcessEnds
<1>2. /\ \A g \in Generations \ {h} :
           UNCHANGED <<frames[g], held[g], down[g], events[g]>>
      /\ frames[h] \in Seq(Frames) /\ frames'[h] = SubSeq(frames[h], 1, n)
      /\ held'[h] = "none" /\ down'[h] = <<>> /\ events'[h] = <<>>
      /\ authoritative \in Generations
  BY <1>1 DEF ProcessEnds, TypeOK, RenderersOK, SupervisorOK
<1>3. UNCHANGED <<authoritative, relockOwed, commands, lock, comp>>
  BY DEF ProcessEnds, supervisorVars, lockVars
<1>4. Over(frames'[authoritative]) => Over(frames[authoritative])
  BY <1>2, OverPrefix
<1>5. Queued' => Queued
  BY <1>2, <1>3 DEF Queued, Has
<1>6. <<>> # <<"finished">> /\ <<>> # <<"locked", "finished">>
  OBVIOUS
<1>7. Ending(authoritative)' => Ending(authoritative)
  BY <1>2, <1>3, <1>6 DEF Ending
<1>8. held'[authoritative] = "requested" => held[authoritative] = "requested"
  BY <1>2
<1>9. Owed' = Owed
  BY <1>3 DEF Owed
<1> QED
  BY <1>3, <1>4, <1>5, <1>7, <1>8, <1>9, DebtFrame

(* The record of a lost Renderer becomes a debt to the session.            *)
LEMMA DebtSpawn ==
  ASSUME TypeOK, LockObjects, LifeInv, Debt, Respawn
  PROVE  Debt'
<1> DEFINE n == spawned + 1
<1>1. n \in Generations /\ n > spawned
  BY BoundsAssumption DEF Respawn, TypeOK, SupervisorOK, Generations
<1>2. proc[n] = "unborn" /\ held[n] = "none" /\ events[n] = <<>>
  BY <1>1 DEF LockObjects, LockObject, Alive
<1>3. frames[n] = <<>> /\ down[n] = <<>>
  BY <1>1, <1>2 DEF LifeInv, Newborn
<1>4. /\ authoritative' = n
      /\ UNCHANGED <<commands, down, held, events, frames, comp>>
  BY DEF Respawn, channelVars, compositorVars
<1>5. \/ relockOwed' = TRUE
      \/ UNCHANGED <<lock, relockOwed>>
  BY DEF Respawn
<1>6. SessionIsOwed'
  BY <1>4, <1>5 DEF Debt, SessionIsOwed, Owed
<1>7. RequestIsOwed'
  <2>1. Queued' => Queued
    BY <1>3, <1>4 DEF Queued, Has
  <2> QED
    BY <1>2, <1>4, <1>5, <2>1 DEF Debt, RequestIsOwed
<1>8. OverIsOver'
  <2>1. <<>> # <<"locked", "finished">> /\ ~Over(<<>>)
    BY DEF Over
  <2> QED
    BY <1>2, <1>3, <1>4, <2>1 DEF OverIsOver, Ending
<1> QED
  BY <1>6, <1>7, <1>8 DEF Debt

LEMMA DebtSendCommand ==
  ASSUME TypeOK, Debt, SendLockCommand
  PROVE  Debt'
<1> DEFINE a == authoritative
<1>1. /\ commands # <<>> /\ commands \in Seq(BOOLEAN)
      /\ commands' = Tail(commands) /\ a \in Generations
      /\ down[a] \in Seq(BOOLEAN)
      /\ \/ down'[a] = down[a]
         \/ down'[a] = Append(down[a], Head(commands))
      /\ UNCHANGED <<authoritative, relockOwed, lock, held, events, frames, comp>>
  BY DEF SendLockCommand, supervisorVars, rendererVars, compositorVars,
         TypeOK, SupervisorOK, RenderersOK
<1>2. /\ \A u : Has(Tail(commands), u) => Has(commands, u)
      /\ Has(commands, Head(commands))
  <2>1. /\ Len(Tail(commands)) = Len(commands) - 1
        /\ Len(commands) \in Nat \ {0}
        /\ Head(commands) = commands[1] /\ 1 \in 1..Len(commands)
        /\ \A i \in 1..(Len(commands) - 1) :
             Tail(commands)[i] = commands[i + 1] /\ i + 1 \in 1..Len(commands)
    BY <1>1, HeadTailProperties
  <2> QED
    BY <2>1 DEF Has
<1>3. Head(commands) \in BOOLEAN
  BY <1>1, HeadTailProperties, Zenon
<1>4. Has(Append(down[a], Head(commands)), TRUE) =>
        Has(down[a], TRUE) \/ Head(commands) = TRUE
  BY <1>1, <1>3, FlagPush, Zenon
<1>5. Queued' => Queued
  BY <1>1, <1>2, <1>4, Zenon DEF Queued
<1>6. Ending(a)' = Ending(a) /\ Owed' = Owed
  BY <1>1 DEF Ending, Owed
<1> QED
  BY <1>1, <1>5, <1>6, DebtFrame

(* A release that is queued for a lock PAM answered for asks for nothing.  *)
LEMMA DebtRelease ==
  ASSUME TypeOK, Debt,
         commands' \in {commands, Append(commands, FALSE)},
         UNCHANGED <<authoritative, relockOwed, down, held, events, frames, comp>>,
         lock'.active = lock.active, lock'.requested = lock.requested,
         lock' = lock \/ lock.active
  PROVE  Debt'
<1>1. Queued' => Queued
  <2>1. Has(Append(commands, FALSE), TRUE) => Has(commands, TRUE)
    BY FlagPush, FALSE \in BOOLEAN, TRUE # FALSE, Zenon
    DEF TypeOK, SupervisorOK
  <2> QED
    BY <2>1, Zenon DEF Queued
<1>2. Ending(authoritative)' = Ending(authoritative) /\ (Owed => Owed')
  BY DEF Ending, Owed
<1> QED
  BY <1>1, <1>2, DebtFrame

LEMMA DebtReport ==
  ASSUME TypeOK, Token, Debt, NEW g \in Generations, RecordLockReport(g)
  PROVE  Debt'
<1> DEFINE kind == Head(frames[g]).kind
<1>1. /\ kind \in LockOutcomes /\ g = authoritative
      /\ lock' = Reported(lock, kind) /\ Receives(g, LockOutcomes)
      /\ frames[g] # <<>> /\ frames[g] \in Seq(Frames) /\ lock \in LockStates
      /\ UNCHANGED <<authoritative, relockOwed, commands, down, held, events,
                     comp>>
  BY DEF RecordLockReport, Receives, Live, supervisorVars, rendererVars,
         compositorVars, TypeOK, RenderersOK, SupervisorOK
<1>2. 1 \in 1..Len(frames[g]) /\ Head(frames[g]) = frames[g][1]
  BY <1>1
<1>3. ~Queued /\ held[g] # "requested"
  BY <1>1, <1>2 DEF Token, RequestIsAlone, HeldIsNews, NoReport
<1>4. /\ Queued' = Queued
      /\ Ending(authoritative)' = Ending(authoritative)
      /\ Over(frames'[authoritative]) => Over(frames[authoritative])
  BY <1>1, OverReceive DEF Queued, Ending
<1>5. kind \in Ended => ~comp.locked
  BY <1>1, <1>2 DEF Debt, OverIsOver, Over
<1>6. kind = "locked" => Owed'
  BY <1>1 DEF Reported, ReportedLocked, Owed, LockStates
<1>7. kind = "refused" => Owed'
  BY <1>1 DEF Reported, ReportedRefused, Owed, LockStates
<1>8. comp'.locked => Owed'
  BY <1>1, <1>5, <1>6, <1>7 DEF LockOutcomes, Ended
<1> QED
  BY <1>1, <1>3, <1>4, <1>8, DebtFrame

LEMMA DebtDrains ==
  ASSUME TypeOK, NEW g \in Generations, NEW locked \in BOOLEAN,
         Drains(g, locked), UNCHANGED <<authoritative, commands>>
  PROVE  /\ Queued' => Queued
         /\ locked = TRUE /\ g = authoritative => Queued
<1>1. /\ down[g] \in Seq(BOOLEAN) /\ down[g] # <<>> /\ Head(down[g]) = locked
      /\ down'[g] = Tail(down[g])
      /\ \A h \in Generations \ {g} : down'[h] = down[h]
      /\ authoritative \in Generations
  BY DEF Drains, TypeOK, RenderersOK, SupervisorOK
<1>2. /\ Len(Tail(down[g])) = Len(down[g]) - 1 /\ Len(down[g]) \in Nat \ {0}
      /\ Head(down[g]) = down[g][1] /\ 1 \in 1..Len(down[g])
      /\ \A i \in 1..(Len(down[g]) - 1) :
           Tail(down[g])[i] = down[g][i + 1] /\ i + 1 \in 1..Len(down[g])
  BY <1>1, HeadTailProperties
<1>3. /\ \A u : Has(Tail(down[g]), u) => Has(down[g], u)
      /\ Has(down[g], locked)
  BY <1>1, <1>2 DEF Has
<1> QED
  BY <1>1, <1>3, Zenon DEF Queued

LEMMA DebtAcquire ==
  ASSUME TypeOK, LockObjects, Debt, NEW g \in Generations, HandleLockAcquire(g)
  PROVE  Debt'
<1>1. /\ Drains(g, TRUE) /\ held[g] = "none"
      /\ held' = [held EXCEPT ![g] = "requested"]
      /\ UNCHANGED <<authoritative, relockOwed, commands, lock, events, frames,
                     comp>>
  BY DEF HandleLockAcquire, supervisorVars, lockVars
<1>2. /\ Queued' => Queued
      /\ g = authoritative => Queued
  BY <1>1, DebtDrains
<1>3. \A h \in Generations \ {g} : held'[h] = held[h]
  BY <1>1 DEF TypeOK, RenderersOK
<1>4. authoritative \in Generations /\ held'[g] = "requested"
  BY <1>1 DEF TypeOK, SupervisorOK, RenderersOK
<1>5. Ending(authoritative)' => Ending(authoritative)
  BY <1>1, <1>3, <1>4 DEF Ending
<1>6. Owed' = Owed
  BY <1>1 DEF Owed
<1> QED
  BY <1>1, <1>2, <1>3, <1>4, <1>5, <1>6, DebtFrame

(* What a release opens it owned, so the session is locked no more.        *)
LEMMA DebtHandleRelease ==
  ASSUME TypeOK, GlassInv, OneLives, LockObjects, Debt,
         NEW g \in Generations, HandleLockRelease(g)
  PROVE  Debt'
<1> DEFINE kind == IF held[g] = "locked" THEN "unlocked" ELSE "refused"
<1>1. /\ Drains(g, FALSE) /\ held[g] # "none" /\ events[g] = <<>>
      /\ held' = [held EXCEPT ![g] = "none"]
      /\ comp' = IF held[g] = "locked" /\ comp.owner = g
                 THEN [comp EXCEPT !.locked = FALSE, !.owner = NoOwner] ELSE comp
      /\ Sends(g, kind, 0)
      /\ UNCHANGED <<authoritative, relockOwed, commands, lock, events>>
  BY DEF HandleLockRelease, supervisorVars, lockVars
<1>2. g = authoritative
  <2>1. Alive(g)
    BY <1>1 DEF LockObjects, LockObject
  <2> QED
    BY <2>1 DEF OneLives
<1>3. held'[g] = "none"
  BY <1>1 DEF TypeOK, RenderersOK
<1>4. held[g] = "locked" => ~comp'.locked
  BY <1>1 DEF GlassInv, Showing, Owns, TypeOK, CompositorOK
<1>5. comp'.locked => comp.locked
  BY <1>1 DEF TypeOK, CompositorOK
<1>6. Queued' => Queued
  BY <1>1, DebtDrains
<1>7. kind \in FrameKinds /\ (kind \in Ended => held[g] = "locked")
  BY DEF FrameKinds, LockOutcomes, Ended
<1> HIDE DEF kind
<1>8. Over(frames'[authoritative]) =>
        Over(frames[authoritative]) \/ held[g] = "locked"
  BY <1>1, <1>7, OverSend
<1>9. <<>> # <<"finished">> /\ <<>> # <<"locked", "finished">>
  OBVIOUS
<1>10. ~Ending(authoritative)'
  BY <1>1, <1>2, <1>3, <1>9 DEF Ending
<1>11. Owed' = Owed
  BY <1>1 DEF Owed
<1> QED
  BY <1>1, <1>2, <1>3, <1>4, <1>5, <1>6, <1>8, <1>10, <1>11, DebtFrame

LEMMA DebtLocked ==
  ASSUME TypeOK, LockObjects, OneLives, Debt,
         NEW g \in Generations, DispatchLocked(g)
  PROVE  Debt'
<1>1. /\ Alive(g) /\ events[g] # <<>> /\ Head(events[g]) = "locked"
      /\ events' = [events EXCEPT ![g] = Tail(@)]
      /\ held' = [held EXCEPT ![g] = "locked"]
      /\ Sends(g, "locked", 0)
      /\ UNCHANGED <<authoritative, relockOwed, commands, lock, down, comp>>
  BY DEF DispatchLocked, supervisorVars, lockVars, compositorVars
<1>2. g = authoritative /\ "locked" \in FrameKinds /\ "locked" \notin Ended
  BY <1>1 DEF OneLives, FrameKinds, LockOutcomes, Ended
<1>3. Over(frames'[authoritative]) => Over(frames[authoritative])
  BY <1>1, <1>2, OverSend
<1>4. events[g] \in {<<"locked">>, <<"locked", "finished">>}
  BY <1>1 DEF LockObjects, LockObject, TypeOK, RenderersOK
<1>5. events'[g] = Tail(events[g]) /\ held'[g] = "locked"
  BY <1>1 DEF TypeOK, RenderersOK
<1>6. <<>> # <<"finished">> /\ <<>> # <<"locked", "finished">>
  OBVIOUS
<1>7. Ending(g)' => Ending(g)
  <2>1. CASE events[g] = <<"locked">>
    BY <1>5, <1>6, <2>1, EventQueues DEF Ending
  <2>2. CASE events[g] = <<"locked", "finished">>
    BY <2>2 DEF Ending
  <2> QED
    BY <1>4, <2>1, <2>2
<1>8. Queued' = Queued /\ Owed' = Owed
  BY <1>1 DEF Queued, Owed
<1> QED
  BY <1>1, <1>2, <1>3, <1>5, <1>7, <1>8, DebtFrame

LEMMA DebtFinished ==
  ASSUME TypeOK, LockObjects, OneLives, Debt,
         NEW g \in Generations, DispatchFinished(g)
  PROVE  Debt'
<1> DEFINE kind == IF held[g] = "locked" THEN "finished" ELSE "refused"
<1>1. /\ Alive(g) /\ events[g] # <<>> /\ Head(events[g]) = "finished"
      /\ held' = [held EXCEPT ![g] = "none"]
      /\ events' = [events EXCEPT ![g] = Tail(@)]
      /\ Sends(g, kind, 0)
      /\ UNCHANGED <<authoritative, relockOwed, commands, lock, down, comp>>
  BY DEF DispatchFinished, supervisorVars, lockVars, compositorVars
<1>2. g = authoritative
  BY <1>1 DEF OneLives
<1>3. events[g] = <<"finished">> /\ held[g] # "none"
  BY <1>1 DEF LockObjects, LockObject, TypeOK, RenderersOK
<1>4. held[g] = "locked" => ~comp.locked
  BY <1>2, <1>3 DEF Debt, OverIsOver, Ending
<1>5. kind \in FrameKinds /\ (kind \in Ended => held[g] = "locked")
  BY DEF FrameKinds, LockOutcomes, Ended
<1> HIDE DEF kind
<1>6. Over(frames'[authoritative]) =>
        Over(frames[authoritative]) \/ held[g] = "locked"
  BY <1>1, <1>5, OverSend
<1>7. Tail(<<"finished">>) = <<>> /\ <<>> # <<"locked", "finished">>
  OBVIOUS
<1>8. held'[g] = "none" /\ events'[g] = <<>>
  BY <1>1, <1>3, <1>7 DEF TypeOK, RenderersOK
<1>9. ~Ending(authoritative)'
  BY <1>1, <1>2, <1>7, <1>8 DEF Ending
<1>10. Queued' = Queued /\ Owed' = Owed
  BY <1>1 DEF Queued, Owed
<1> QED
  BY <1>1, <1>2, <1>4, <1>6, <1>8, <1>9, <1>10, DebtFrame

(* What is granted was asked for, and what is asked for is owed.           *)
LEMMA DebtGrant ==
  ASSUME TypeOK, LockObjects, OneLives, Token, Debt, NEW g \in Generations,
         CompositorGrants(g)
  PROVE  Debt'
<1>1. /\ g \in asked
      /\ events' = [events EXCEPT ![g] = Append(@, "locked")]
      /\ UNCHANGED <<authoritative, relockOwed, commands, lock, down, held,
                     frames>>
  BY DEF CompositorGrants, supervisorVars, lockVars, rendererVars
<1>2. held[g] = "requested" /\ events[g] = <<>> /\ g = authoritative
  BY <1>1 DEF LockObjects, LockObject, OneLives, TypeOK, RenderersOK
<1>3. lock.requested \/ relockOwed
  BY <1>2 DEF Debt, RequestIsOwed
<1>4. ~Over(frames[authoritative])
  BY <1>2 DEF Token, HeldIsNews, NoReport, Over, Ended, LockOutcomes
<1>5. events'[g] = <<"locked">>
  BY <1>1, <1>2 DEF TypeOK, RenderersOK
<1>6. ~Ending(authoritative)'
  BY <1>1, <1>2, <1>5, EventQueues DEF Ending
<1>7. SessionIsOwed'
  BY <1>1, <1>3 DEF SessionIsOwed, Owed
<1>8. RequestIsOwed'
  BY <1>1, <1>3 DEF RequestIsOwed
<1>9. OverIsOver'
  BY <1>1, <1>4, <1>6 DEF OverIsOver
<1> QED
  BY <1>7, <1>8, <1>9 DEF Debt

LEMMA DebtDeny ==
  ASSUME TypeOK, LockObjects, Debt, NEW g \in Generations, CompositorDenies(g)
  PROVE  Debt'
<1>1. /\ g \in asked
      /\ events' = [events EXCEPT ![g] = Append(@, "finished")]
      /\ UNCHANGED <<authoritative, relockOwed, commands, lock, down, held,
                     frames, comp>>
  BY DEF CompositorDenies, supervisorVars, lockVars, rendererVars
<1>2. held[g] = "requested" /\ events[g] = <<>> /\ authoritative \in Generations
  BY <1>1 DEF LockObjects, LockObject, TypeOK, RenderersOK, SupervisorOK
<1>3. /\ events'[g] = <<"finished">>
      /\ \A h \in Generations \ {g} : events'[h] = events[h]
  BY <1>1, <1>2 DEF TypeOK, RenderersOK
<1>4. <<"finished">> # <<"locked", "finished">>
  BY Len(<<"finished">>) # Len(<<"locked", "finished">>)
<1>5. Ending(authoritative)' => Ending(authoritative)
  BY <1>1, <1>2, <1>3, <1>4 DEF Ending
<1>6. Queued' = Queued /\ Owed' = Owed
  BY <1>1 DEF Queued, Owed
<1> QED
  BY <1>1, <1>5, <1>6, DebtFrame

LEMMA DebtStep ==
  ASSUME ~SupervisorStops, TypeOK, ChainInv, TokenInv, GlassInv, OneLives,
         ~overlapped => Debt, [Next]_vars, ~overlapped'
  PROVE  Debt'
<1>0. /\ Debt /\ Token /\ up /\ LockObjects /\ LifeInv
      /\ lock.active => ~Queued /\ held[authoritative] # "requested"
  BY OverlapStays, ActiveIsAlone DEF TokenInv, OneLives, ChainInv
<1> USE DEF supervisorVars, lockVars, rendererVars, channelVars,
            compositorVars, historyVars, counterVars
<1>1. CASE LockRequestedByLogind
  BY <1>0, <1>1, DebtLockCall DEF LockRequestedByLogind
<1>2. CASE ReplaceDepartedRenderer
  BY <1>0, <1>2, DebtSpawn, DebtSame DEF ReplaceDepartedRenderer
<1>3. CASE CooldownExpires
  BY <1>0, <1>3, DebtSpawn DEF CooldownExpires
<1>4. ~SupervisorStop /\ ~SupervisorStart
  BY <1>0 DEF SupervisorStop, SupervisorStart
<1>5. CASE CompositorFinishes
  <2>1. /\ ~comp'.locked /\ Owed' = Owed /\ Queued' = Queued
        /\ UNCHANGED <<authoritative, lock, relockOwed, held>>
    BY <1>5 DEF CompositorFinishes, Queued, Owed, TypeOK, CompositorOK
  <2> QED
    BY <1>0, <2>1 DEF Debt, SessionIsOwed, RequestIsOwed, OverIsOver
<1>6. ASSUME NEW w \in workers, NEW outcome \in PamOutcomes,
             RecordPamOutcome(w, outcome)
      PROVE  Debt'
  <2>1. /\ lock'.active = lock.active /\ lock'.requested = lock.requested
        /\ lock' = lock \/ lock.active
    BY <1>6 DEF RecordPamOutcome, Authenticated, AcceptsOutcome, LockStates,
                TypeOK, SupervisorOK
  <2>2. commands' \in {commands, Append(commands, FALSE)}
    BY <1>6 DEF RecordPamOutcome
  <2> QED
    BY <1>0, <1>6, <2>1, <2>2, DebtRelease DEF RecordPamOutcome
<1>7. ASSUME NEW t \in timers, ReleaseTimerFires(t)
      PROVE  Debt'
  <2>1. commands' \in {commands, Append(commands, FALSE)} /\ lock' = lock
    BY <1>7 DEF ReleaseTimerFires
  <2> QED
    BY <1>0, <1>7, <2>1, DebtRelease DEF ReleaseTimerFires
<1>8. ASSUME NEW g \in Generations, SupervisorStep(g)
      PROVE  Debt'
  <2>1. CASE Hydrate(g)
    <3>1. CASE relockOwed' = FALSE /\ LockCall
      <4>1. lock.active \/ lock'.requested
        BY <3>1 DEF LockCall, LockRequested, TypeOK, SupervisorOK, LockStates
      <4> QED
        BY <1>0, <2>1, <3>1, <4>1, DebtLockCall DEF Hydrate
    <3>2. CASE UNCHANGED <<relockOwed, lock, commands, overlapped>>
      BY <1>0, <2>1, <3>2, DebtSame DEF Hydrate
    <3> QED
      BY <2>1, <3>1, <3>2 DEF Hydrate
  <2>2. CASE DispatchLock(g)
    BY <1>0, <2>2, OverReceive, DebtLockCall DEF DispatchLock
  <2>3. CASE DropStaleFrame(g) \/ BeginAuthentication(g)
    <3>1. /\ lock'.active = lock.active /\ lock'.requested = lock.requested
          /\ lock'.error = lock.error
      BY <2>3 DEF DropStaleFrame, BeginAuthentication, AuthenticationStarted,
                  TypeOK, SupervisorOK, LockStates
    <3>2. UNCHANGED <<authoritative, relockOwed, commands, down, held, events,
                      comp>>
      BY <2>3 DEF DropStaleFrame, BeginAuthentication
    <3>3. Over(frames'[authoritative]) => Over(frames[authoritative])
      BY <2>3, OverReceive DEF DropStaleFrame, BeginAuthentication
    <3>4. /\ Queued' = Queued /\ (Owed => Owed')
          /\ Ending(authoritative)' = Ending(authoritative)
      BY <3>1, <3>2 DEF Queued, Owed, Ending
    <3> QED
      BY <1>0, <3>1, <3>2, <3>3, <3>4, DebtFrame
  <2> QED
    BY <1>0, <1>8, <2>1, <2>2, <2>3, DebtReport DEF SupervisorStep
<1>9. ASSUME NEW g \in Generations, RendererStep(g)
      PROVE  Debt'
  <2>1. CASE RendererConnects(g)
    BY <1>0, <2>1, DebtSame DEF RendererConnects
  <2>2. CASE HandleLockNothing(g) \/ HandleLockRefuse(g)
    <3>1. UNCHANGED <<authoritative, relockOwed, commands, lock, held, events,
                      comp>>
      BY <2>2 DEF HandleLockNothing, HandleLockRefuse
    <3>2. Queued' => Queued
      BY <2>2, <3>1, DebtDrains DEF HandleLockNothing, HandleLockRefuse
    <3>3. "refused" \in FrameKinds /\ "refused" \notin Ended
      BY DEF FrameKinds, LockOutcomes, Ended
    <3>4. Over(frames'[authoritative]) => Over(frames[authoritative])
      BY <2>2, <3>3, OverSend DEF HandleLockNothing, HandleLockRefuse
    <3>5. Owed' = Owed /\ Ending(authoritative)' = Ending(authoritative)
      BY <3>1 DEF Owed, Ending
    <3> QED
      BY <1>0, <3>1, <3>2, <3>4, <3>5, DebtFrame
  <2>3. CASE RendererLosesSupervisor(g)
    BY <1>0, <2>3, DebtEnds DEF RendererLosesSupervisor
  <2> QED
    BY <1>0, <1>9, <2>1, <2>2, <2>3, DebtAcquire, DebtHandleRelease,
       DebtLocked, DebtFinished DEF RendererStep
<1>10. ASSUME NEW g \in Generations, RendererAsksLock(g) \/ RendererSubmits(g)
       PROVE  Debt'
  <2>1. PICK kind \in {"lock", "submit"}, id \in Nat : Sends(g, kind, id)
    BY <1>10 DEF RendererAsksLock, RendererSubmits, TypeOK, SupervisorOK
  <2>2. kind \in FrameKinds /\ kind \notin Ended
    BY DEF FrameKinds, Ended
  <2>3. Over(frames'[authoritative]) => Over(frames[authoritative])
    BY <2>1, <2>2, OverSend
  <2>4. UNCHANGED <<authoritative, relockOwed, commands, lock, down, held,
                    events, comp>>
    BY <1>10 DEF RendererAsksLock, RendererSubmits
  <2>5. /\ Queued' = Queued /\ Owed' = Owed
        /\ Ending(authoritative)' = Ending(authoritative)
    BY <2>4 DEF Queued, Owed, Ending
  <2> QED
    BY <1>0, <2>3, <2>4, <2>5, DebtFrame
<1>11. ASSUME NEW g \in Generations, RendererDies(g)
       PROVE  Debt'
  BY <1>0, <1>11, DebtEnds DEF RendererDies
<1>12. ASSUME NEW g \in Generations, ConfigReload(g)
       PROVE  Debt'
  BY <1>0, <1>12, DebtSame DEF ConfigReload
<1>13. CASE UNCHANGED vars
  BY <1>0, <1>13, DebtSame DEF vars
<1> QED
  BY <1>0, <1>1, <1>2, <1>3, <1>4, <1>5, <1>6, <1>7, <1>8, <1>9, <1>10,
     <1>11, <1>12, <1>13, DebtSendCommand, DebtGrant, DebtDeny DEF Next

LEMMA GlassCorrect == Spec => []GlassInv
<1>1. ASSUME Init
      PROVE  GlassInv
  <2>1. \A g \in Generations : held[g] = "none"
    BY <1>1 DEF Init
  <2> QED
    BY <2>1 DEF GlassInv, Showing
<1> QED
  BY <1>1, GlassStep, TypeCorrect, ChainCorrect, PTL DEF Spec

(* A session that is locked with no lock screen on it is owed one: through *)
(* any order of reports, deaths, respawns, refused commands and answers    *)
(* the running Supervisor has the lock on record as active or asked for,   *)
(* or will ask for it when a Renderer connects, or was refused             *)
(* (supervisor.rs: respawn, hydrate; state.rs: apply).  A Supervisor that  *)
(* stops leaves the debt to the marker file, which it writes only once the *)
(* lock is reported: of a lock not reported yet the next one knows nothing.*)
THEOREM BareSessionIsOwed ==
  ASSUME ~SupervisorStops
  PROVE  Spec => []BareIsOwed
<1>1. ASSUME Init
      PROVE  DebtInv
  <2>1. /\ up /\ ~comp.locked /\ authoritative = 1 /\ commands = <<>>
        /\ 1 \in Generations
        /\ \A g \in Generations :
             /\ Alive(g) => g = 1
             /\ held[g] = "none" /\ down[g] = <<>>
    BY <1>1, BoundsAssumption DEF Init, Alive, Generations
  <2>2. ~Queued
    BY <2>1 DEF Queued, Has
  <2> QED
    BY <2>1, <2>2
    DEF DebtInv, OneLives, Debt, SessionIsOwed, RequestIsOwed, OverIsOver
<1>2. TypeOK /\ ChainInv /\ TokenInv /\ GlassInv /\ DebtInv
        /\ [Next]_vars => DebtInv'
  BY DebtStep, OneLivesStep DEF DebtInv, ChainInv
<1>3. DebtInv => BareIsOwed
  BY DEF DebtInv, Debt, SessionIsOwed, BareIsOwed, Bare
<1> QED
  BY <1>1, <1>2, <1>3, TypeCorrect, ChainCorrect, TokenCorrect,
     GlassCorrect, PTL DEF Spec
=============================================================================
