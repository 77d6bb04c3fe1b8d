--------------------------- MODULE ControlSocket ---------------------------
(* The control socket: the registry of live Renderer connections, the claim  *)
(* a peer makes on a generation, the wedge that ends a peer that stopped     *)
(* reading, and the routes that carry the answer of a `mantle call` back to  *)
(* the client that asked (supervisor/src/socket/mod.rs, socket/calls.rs,     *)
(* and the arms of main.rs that dispatch a call and its answer).             *)
(*                                                                           *)
(* A connection is named by its token.  A frame is reduced to the call it    *)
(* carries: n numbers the calls as they are made, which the program does     *)
(* not, so that an answer can be compared with the question.                 *)
EXTENDS Naturals, Sequences, FiniteSets, SequencesExt

CONSTANTS Clients,              \* control clients: `mantle call`
          LastGeneration,       \* bound: generations 0..LastGeneration
          LastToken,            \* bound: Renderer connections accepted
          LastCall,             \* bound: calls made
          MaxPendingCalls,      \* MAX_PENDING_CALLS
          MaxInboundFrames,     \* MAX_INBOUND_FRAMES
          MaxOutboundFrames     \* MAX_OUTBOUND_FRAMES

ASSUME SocketAssumption == LastGeneration \in Nat /\ LastToken \in Nat

VARIABLES onGlass,        \* generation of the authoritative Renderer
          rendererUp,     \* its process runs
          expectedPids,   \* generations whose pid is recorded
          claims,         \* generation -> handshakes waiting for its expectation
          registry,       \* generation -> token of its Entry, 0 for none
          nextToken,      \* token the next registration gets
          links,          \* token -> its connection task
          outbound,       \* token -> calls queued to the peer
          wedged,         \* send_to between its two critical sections
          strays,         \* tokens a wedge removed that were not the wedged one
          routes,         \* CallRoutes.waiting: id -> waiting caller
          lastId,         \* CallRoutes.last_id
          callsMade,      \* calls made so far
          inbound,        \* frames queued to main's loop
          clientUp,       \* control clients still connected
          answers         \* client -> the answers written to it

socketVars == <<onGlass, rendererUp, expectedPids, claims, registry, nextToken, links, outbound,
                wedged, strays, routes, lastId, callsMade, inbound, clientUp, answers>>
linkVars   == <<onGlass, rendererUp, expectedPids, claims, registry, nextToken, links, wedged, strays>>
callVars   == <<routes, lastId, callsMade, clientUp, answers>>

Generations == 0..LastGeneration
Tokens      == 1..LastToken
NoWedge     == [generation |-> 0, token |-> 0]
NotAsked    == LastGeneration + 1     \* dispatched_to: None

\* main's loop is not inside send_to, nor between a spawn and what it records of it.
MainIsFree == wedged = NoWedge /\ onGlass \in expectedPids

SocketInit ==
  /\ onGlass = 0 /\ rendererUp = TRUE
  /\ expectedPids = {}
  /\ claims = [g \in Generations |-> 0] /\ nextToken = 1
  /\ registry = [g \in Generations |-> 0]
  /\ links = [t \in Tokens |-> [task |-> "none", generation |-> 0]]
  /\ outbound = [t \in Tokens |-> <<>>]
  /\ wedged = NoWedge /\ strays = {}
  /\ routes = <<>> /\ lastId = 0 /\ callsMade = 0
  /\ inbound = <<>>
  /\ clientUp = [c \in Clients |-> TRUE]
  /\ answers = [c \in Clients |-> <<>>]

-----------------------------------------------------------------------------
(* Renderer connections.                                                     *)

\* The child runs before its pid is recorded and the departed generation's is forgotten.
ExpectGeneration ==
  /\ onGlass \notin expectedPids
  /\ expectedPids' = {onGlass}
  /\ UNCHANGED <<onGlass, rendererUp, claims, registry, nextToken, links, outbound, wedged, strays, callVars, inbound>>

\* A peer of the running Renderer's pid sends its handshake and waits for the expectation.
Handshake ==
  /\ rendererUp /\ nextToken + claims[onGlass] <= LastToken
  /\ claims' = [claims EXCEPT ![onGlass] = @ + 1]
  /\ UNCHANGED <<onGlass, rendererUp, expectedPids, registry, nextToken, links, wedged, strays, outbound, callVars, inbound>>

AwaitClaim(g) ==
  /\ claims[g] > 0 /\ g \in expectedPids /\ nextToken <= LastToken
  /\ claims' = [claims EXCEPT ![g] = @ - 1]
  /\ nextToken' = nextToken + 1
  /\ links' = [links EXCEPT ![nextToken] = [task |-> "open", generation |-> g]]
  /\ registry' = [registry EXCEPT ![g] = nextToken]
  /\ UNCHANGED <<onGlass, rendererUp, expectedPids, wedged, strays, outbound, callVars, inbound>>

\* HANDSHAKE_TIMEOUT passes with no expectation recorded: the generation was forgotten.
ClaimTimesOut(g) ==
  /\ claims[g] > 0 /\ g \notin expectedPids
  /\ claims' = [claims EXCEPT ![g] = @ - 1]
  /\ UNCHANGED <<onGlass, rendererUp, expectedPids, registry, nextToken, links, wedged, strays, outbound, callVars, inbound>>

\* Wrong on purpose, for mutation: the cleanup does not look at the token.
UnregisterAnyToken(entries, generation, token) == [entries EXCEPT ![generation] = 0]

\* The entry is removed only when the token is still its own.
Unregister(entries, generation, token) ==
  IF entries[generation] = token THEN [entries EXCEPT ![generation] = 0] ELSE entries

\* The connection task ends: the peer closed its end, or it was told to hang up.
ConnectionEnds(t) ==
  /\ links[t].task \in {"open", "hangup"}
  /\ links' = [links EXCEPT ![t].task = "closed"]
  /\ registry' = Unregister(registry, links[t].generation, t)
  /\ outbound' = [outbound EXCEPT ![t] = <<>>]
  /\ UNCHANGED <<onGlass, rendererUp, expectedPids, claims, nextToken, wedged, strays, callVars, inbound>>

RendererDies ==
  /\ rendererUp /\ onGlass < LastGeneration
  /\ rendererUp' = FALSE
  /\ UNCHANGED <<onGlass, expectedPids, claims, registry, nextToken, links, outbound, wedged, strays, callVars, inbound>>

Respawn ==
  /\ ~rendererUp /\ MainIsFree
  /\ onGlass' = onGlass + 1 /\ rendererUp' = TRUE
  /\ UNCHANGED <<expectedPids, claims, registry, nextToken, links, outbound, wedged, strays, callVars, inbound>>

\* send_to, first critical section: queue the frame, or find the queue full.
SendTo(generation, n) ==
  LET t == registry[generation] IN
  /\ IF t # 0 /\ links[t].task # "closed" /\ Len(outbound[t]) < MaxOutboundFrames
       THEN outbound' = [outbound EXCEPT ![t] = Append(@, n)]
       ELSE UNCHANGED outbound
  /\ wedged' = IF t # 0 /\ links[t].task # "closed" /\ Len(outbound[t]) = MaxOutboundFrames
                 THEN [generation |-> generation, token |-> t] ELSE NoWedge

\* Second critical section: the entry goes by its id, and the wedged task is told to hang up.
RemoveWedged ==
  /\ wedged # NoWedge
  /\ registry' = [registry EXCEPT ![wedged.generation] = 0]
  /\ strays' = strays \cup ({registry[wedged.generation]} \ {0, wedged.token})
  /\ links' = [links EXCEPT ![wedged.token].task = IF @ = "open" THEN "hangup" ELSE @]
  /\ wedged' = NoWedge
  /\ UNCHANGED <<onGlass, rendererUp, expectedPids, claims, nextToken, outbound, callVars, inbound>>

-----------------------------------------------------------------------------
(* Calls.                                                                    *)

\* Wrong on purpose, for mutation: the id is the number of waiting callers.
ReusedCallId == Cardinality(DOMAIN routes) + 1

\* CallRoutes::open names the call; a client never chooses the id.
NextCallId == lastId + 1

Call(c) ==
  /\ clientUp[c] /\ callsMade < LastCall
  /\ Cardinality(DOMAIN routes) < MaxPendingCalls
  /\ Len(inbound) < MaxInboundFrames
  /\ callsMade' = callsMade + 1
  /\ lastId' = NextCallId
  /\ routes' = [id \in DOMAIN routes \cup {NextCallId} |->
                  IF id = NextCallId
                    THEN [reply |-> c, dispatchedTo |-> NotAsked, call |-> callsMade']
                    ELSE routes[id]]
  /\ inbound' = Append(inbound, [frame |-> "call", from |-> NotAsked, id |-> NextCallId, call |-> callsMade'])
  /\ UNCHANGED <<linkVars, outbound, clientUp, answers>>

\* The client is gone: its routes are closed with its connection.
CloseRoutes(c) == [id \in {i \in DOMAIN routes : routes[i].reply # c} |-> routes[id]]

HangUp(c) ==
  /\ clientUp[c]
  /\ clientUp' = [clientUp EXCEPT ![c] = FALSE]
  /\ routes' = CloseRoutes(c)
  /\ UNCHANGED <<linkVars, outbound, lastId, callsMade, answers, inbound>>

DispatchCall ==
  /\ MainIsFree /\ inbound # <<>> /\ Head(inbound).frame = "call"
  /\ LET asked == Head(inbound) IN
       /\ routes' = IF asked.id \in DOMAIN routes
                      THEN [routes EXCEPT ![asked.id].dispatchedTo = onGlass] ELSE routes
       /\ SendTo(onGlass, [id |-> asked.id, call |-> asked.call])
  /\ inbound' = Tail(inbound)
  /\ UNCHANGED <<onGlass, rendererUp, expectedPids, claims, registry, nextToken, links, strays, lastId, callsMade, clientUp, answers>>

\* CallRoutes::answer: a route that was asked of this very generation, and only once.
MayAnswer(result) ==
  /\ result.id \in DOMAIN routes
  /\ routes[result.id].dispatchedTo = result.from

DispatchResult ==
  /\ MainIsFree /\ inbound # <<>> /\ Head(inbound).frame = "result"
  /\ LET result == Head(inbound) IN
       IF MayAnswer(result)
         THEN /\ answers' = [answers EXCEPT ![routes[result.id].reply] =
                               Append(@, [asked |-> routes[result.id].call, got |-> result.call])]
              /\ routes' = [id \in DOMAIN routes \ {result.id} |-> routes[id]]
         ELSE UNCHANGED <<answers, routes>>
  /\ inbound' = Tail(inbound)
  /\ UNCHANGED <<linkVars, outbound, lastId, callsMade, clientUp>>

\* The Renderer runs the function and answers on the socket the call came by.
RendererAnswers(t) ==
  /\ links[t].task = "open" /\ outbound[t] # <<>>
  /\ rendererUp /\ links[t].generation = onGlass
  /\ Len(inbound) < MaxInboundFrames
  /\ outbound' = [outbound EXCEPT ![t] = Tail(@)]
  /\ inbound' = Append(inbound, [frame |-> "result", from |-> links[t].generation,
                                 id |-> Head(outbound[t]).id, call |-> Head(outbound[t]).call])
  /\ UNCHANGED <<linkVars, callVars>>

SocketNext ==
  \/ ExpectGeneration \/ RendererDies \/ Respawn \/ RemoveWedged
  \/ Handshake
  \/ \E g \in Generations : AwaitClaim(g) \/ ClaimTimesOut(g)
  \/ \E t \in Tokens : ConnectionEnds(t) \/ RendererAnswers(t)
  \/ \E c \in Clients : Call(c) \/ HangUp(c)
  \/ DispatchCall \/ DispatchResult

SocketSpec == SocketInit /\ [][SocketNext]_socketVars

-----------------------------------------------------------------------------
(* A client reads the answer of the call it made, and reads it once: callers *)
(* share one generation id, Renderers are replaced mid-call, and an answer   *)
(* may land after its caller hung up and another call was opened             *)
(* (socket/calls.rs: open, dispatched, answer, close).                       *)
CallerGetsItsOwnAnswer ==
  \A c \in Clients :
    /\ \A i \in DOMAIN answers[c] : answers[c][i].asked = answers[c][i].got
    /\ IsInjective(answers[c])

(* The newest open connection of a generation is the one frames are sent to: *)
(* the late cleanup of an older one does not take its entry.  A connection   *)
(* the wedge removed by id, for want of a token check, is the exception      *)
(* (socket/mod.rs: register, unregister, send_to).                           *)
LiveLinkIsRegistered ==
  \A t \in Tokens \ strays :
    /\ links[t].task = "open"
    /\ \A u \in Tokens : u > t /\ links[u].generation = links[t].generation
                           => links[u].task = "none"
    => registry[links[t].generation] = t
=============================================================================
