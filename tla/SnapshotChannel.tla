-------------------------- MODULE SnapshotChannel --------------------------
(***************************************************************************)
(* How capability state reaches the screen: the Supervisor pushes each     *)
(* change to the one authoritative Renderer generation, keeps the last     *)
(* snapshot of every capability, and replays them all to the generation    *)
(* that replaces a dead one.  A generation that stops reading is hung up   *)
(* on at a full queue instead of missing a frame.                          *)
(***************************************************************************)
EXTENDS Naturals, Sequences, FiniteSets

CONSTANTS
  Capabilities,
  MaxOutbound,      (* MAX_OUTBOUND_FRAMES: frames queued for one peer      *)
  MaxGenerations    (* bound: Renderer processes ever spawned               *)

ASSUME ChannelAssumption ==
  /\ IsFiniteSet(Capabilities)
  /\ MaxOutbound \in Nat \ {0}
  /\ MaxGenerations \in Nat \ {0}

VARIABLES
  authoritative,  (* Supervisor.authoritative.generation_id                 *)
  link,           (* where that generation's process and connection stand   *)
  pipe,           (* snapshots sent to it and not yet applied               *)
  revisions,      (* Supervisor.revisions: 0 before the first push          *)
  last,           (* Supervisor.last_snapshots                              *)
  shown           (* what the generation's Lua reads, per capability        *)

channelVars == <<authoritative, link, pipe, revisions, last, shown>>

(* starting: not in the registry yet.  registered: in it, its `connected`  *)
(* message unread.  hydrated: replayed to.  wedged: hung up on, still      *)
(* running.  dead: exited.  cooldown: respawn deferred by the brake.       *)
Links == {"starting", "registered", "hydrated", "wedged", "dead", "cooldown"}

InRegistry == link \in {"registered", "hydrated"}

(* No push ever carries revision 0: nil until the first one.               *)
Unset == [revision |-> 0]

ChannelInit ==
  /\ authoritative = 1 /\ link = "starting" /\ pipe = <<>>
  /\ revisions = [c \in Capabilities |-> 0]
  /\ last = [c \in Capabilities |-> Unset]
  /\ shown = [c \in Capabilities |-> Unset]

-----------------------------------------------------------------------------
(* GenerationRegistry::send_to for each frame: nothing without a           *)
(* connection; at a full queue the entry goes, so the frames after the one *)
(* that found it full are dropped, and the peer is hung up on.             *)
Sends(frames, connected) ==
  \/ ~InRegistry /\ UNCHANGED <<link, pipe>>
  \/ /\ InRegistry /\ Len(pipe) + Len(frames) <= MaxOutbound
     /\ link' = connected
     /\ pipe' = pipe \o frames
  \/ /\ InRegistry /\ Len(pipe) + Len(frames) > MaxOutbound
     /\ link' = "wedged"
     /\ pipe' = pipe \o SubSeq(frames, 1, MaxOutbound - Len(pipe))

(* push_snapshot.                                                          *)
Push(capability, payload) ==
  LET snapshot == [capability |-> capability, payload |-> payload,
                   revision |-> revisions[capability] + 1]
  IN  /\ revisions' = [revisions EXCEPT ![capability] = @ + 1]
      /\ last' = [last EXCEPT ![capability] = snapshot]
      /\ Sends(<<snapshot>>, link)
      /\ UNCHANGED <<authoritative, shown>>

(* last_snapshots.values(): a hash map, so each once, in any order.        *)
Known == {c \in Capabilities : last[c] # Unset}

Orders ==
  {f \in [1..Cardinality(Known) -> Known] :
     \A c \in Known : \E i \in DOMAIN f :
       \A j \in DOMAIN f : f[j] = c <=> j = i}

Replays == {[i \in 1..Cardinality(Known) |-> last[f[i]]] : f \in Orders}

(* Wrong on purpose, for mutation: a newcomer waits for the next push.     *)
HydrateNothing == link = "registered" /\ link' = "hydrated"
                  /\ UNCHANGED <<authoritative, pipe, revisions, last, shown>>

Hydrate ==
  /\ link = "registered"
  /\ \E frames \in Replays : Sends(frames, "hydrated")
  /\ UNCHANGED <<authoritative, revisions, last, shown>>

Register ==
  /\ link = "starting"
  /\ link' = "registered"
  /\ UNCHANGED <<authoritative, pipe, revisions, last, shown>>

-----------------------------------------------------------------------------
(* The Renderer applies what it reads: CapabilityHandle::hydrate.          *)
Apply ==
  /\ link \in {"registered", "hydrated", "wedged"} /\ pipe # <<>>
  /\ shown' = [shown EXCEPT ![Head(pipe).capability] = Head(pipe)]
  /\ pipe' = Tail(pipe)
  /\ UNCHANGED <<authoritative, link, revisions, last>>

(* The process exits: by itself, or because its Supervisor hung up.        *)
Depart ==
  /\ link' = "dead" /\ pipe' = <<>>
  /\ UNCHANGED <<authoritative, revisions, last, shown>>

RendererDies ==
  /\ link \in {"starting", "registered", "hydrated", "wedged"}
  /\ authoritative < MaxGenerations
  /\ Depart

(* What the hung-up writer had not written yet is lost.                    *)
LoseSupervisor == link = "wedged" /\ Depart

(* respawn_renderer.  The replacement's Lua reads nil everywhere.          *)
Respawn ==
  /\ authoritative < MaxGenerations
  /\ authoritative' = authoritative + 1
  /\ link' = "starting" /\ pipe' = <<>>
  /\ shown' = [c \in Capabilities |-> Unset]
  /\ UNCHANGED <<revisions, last>>

ReplaceDepartedRenderer ==
  \/ link = "dead" /\ Respawn
  \/ /\ link = "dead" /\ link' = "cooldown"
     /\ UNCHANGED <<authoritative, pipe, revisions, last, shown>>

CooldownExpires == link = "cooldown" /\ Respawn

ChannelStep ==
  \/ Register
  \/ Hydrate
  \/ Apply
  \/ RendererDies
  \/ LoseSupervisor
  \/ ReplaceDepartedRenderer
  \/ CooldownExpires

-----------------------------------------------------------------------------
(* No push is lost to a respawn, to a race with registration or to a full  *)
(* queue: a hydrated Renderer with nothing left to apply reads, for every  *)
(* capability, what the Supervisor published last.                         *)
DrainedViewIsCurrent ==
  (link = "hydrated" /\ pipe = <<>>) =>
    \A c \in Capabilities :
      shown[c] = last[c] /\ shown[c].revision = revisions[c]

(* A Renderer never goes back to an older snapshot of a capability, whose  *)
(* revision its commands would then carry.                                 *)
RevisionsNeverGoBack ==
  [][authoritative' = authoritative =>
       \A c \in Capabilities : shown[c].revision <= shown'[c].revision]_channelVars
=============================================================================
