--------------------------- MODULE Supervisor_proofs --------------------------
(***************************************************************************)
(* The parts of the Supervisor process outside its capabilities, for every *)
(* value of their constants.                                               *)
(***************************************************************************)
EXTENDS ControlSocket, ProcessRegistry, RestartBrake, OutputLines,
        SequenceTheorems, Induction_proofs, TLAPS

-----------------------------------------------------------------------------
(* Callers and connections of the control socket, for every number of        *)
(* clients, generations, connections and calls and every queue bound.        *)

(* What a frame carries both ways: the id of a call and the call itself.   *)
Carried  == [id : Nat, call : Nat]
Frames   == [frame : {"call", "result"}, from : Nat, id : Nat, call : Nat]
Answered == [asked : Nat, got : Nat]

CallTypes ==
  /\ lastId \in Nat
  /\ outbound \in [Tokens -> Seq(Carried)]
  /\ inbound \in Seq(Frames)
  /\ answers \in [Clients -> Seq(Answered)]
  /\ onGlass \in Nat /\ links \in [Tokens -> [task : {"none", "open", "hangup", "closed"}, generation : Nat]]

(* An id is the number of its call, in every frame and every route.        *)
IdIsTheCall ==
  /\ callsMade = lastId
  /\ \A t \in Tokens : \A i \in DOMAIN outbound[t] : outbound[t][i].id = outbound[t][i].call
  /\ \A i \in DOMAIN inbound : inbound[i].id = inbound[i].call
  /\ \A id \in DOMAIN routes :
       /\ id \in Nat /\ id <= lastId
       /\ routes[id] \in [reply : Clients, dispatchedTo : Nat, call : {id}]

(* A call that was answered has no route left, and none will name it.      *)
AnswersAreOver ==
  \A c \in Clients : \A i \in DOMAIN answers[c] :
    answers[c][i].asked <= lastId /\ answers[c][i].asked \notin DOMAIN routes

CallInv == CallTypes /\ IdIsTheCall /\ AnswersAreOver /\ CallerGetsItsOwnAnswer

(* A connection's token counts up, and is registered under its generation. *)
LinkInv ==
  /\ nextToken \in Nat \ {0}
  /\ links \in [Tokens -> [task : {"none", "open", "hangup", "closed"}, generation : Nat]]
  /\ registry \in [Generations -> Nat]
  /\ \A t \in Tokens : links[t].task = "none" <=> t >= nextToken
  /\ LiveLinkIsRegistered

-----------------------------------------------------------------------------
(* Nobody has called and nobody is connected.                              *)
LEMMA SocketInitInv == SocketInit => CallInv /\ LinkInv
  <1> SUFFICES ASSUME SocketInit PROVE CallInv /\ LinkInv
    OBVIOUS
  <1>1. CallInv
    BY SocketAssumption DEF SocketInit, CallInv, CallTypes, IdIsTheCall, AnswersAreOver,
       CallerGetsItsOwnAnswer, IsInjective, Tokens, Generations, Carried, Frames, Answered
  <1>2. LinkInv
    BY SocketAssumption DEF SocketInit, LinkInv, LiveLinkIsRegistered, Tokens, Generations
  <1> QED
    BY <1>1, <1>2

(* Queueing a frame for a Renderer keeps the queues what they are.         *)
LEMMA SendToKeeps ==
  ASSUME CallInv, NEW generation, NEW n \in Carried, n.id = n.call, SendTo(generation, n)
  PROVE  /\ outbound' \in [Tokens -> Seq(Carried)]
         /\ \A t \in Tokens : \A i \in DOMAIN outbound'[t] : outbound'[t][i].id = outbound'[t][i].call
  <1> DEFINE t == registry[generation]
  <1>1. CASE outbound' = outbound
    BY <1>1 DEF CallInv, CallTypes, IdIsTheCall
  <1>2. CASE outbound' = [outbound EXCEPT ![t] = Append(@, n)]
    <2>1. \A u \in Tokens : outbound'[u] = IF u = t THEN Append(outbound[u], n) ELSE outbound[u]
      BY <1>2 DEF CallInv, CallTypes
    <2>2. ASSUME NEW u \in Tokens
          PROVE  /\ outbound'[u] \in Seq(Carried)
                 /\ \A i \in DOMAIN outbound'[u] : outbound'[u][i].id = outbound'[u][i].call
      <3>1. outbound[u] \in Seq(Carried)
        BY DEF CallInv, CallTypes
      <3>2. \A i \in DOMAIN outbound[u] : outbound[u][i].id = outbound[u][i].call
        BY DEF CallInv, IdIsTheCall
      <3> DEFINE s == outbound[u]
      <3>3. /\ Append(s, n) \in Seq(Carried)
            /\ \A i \in DOMAIN Append(s, n) : Append(s, n)[i].id = Append(s, n)[i].call
        <4> HIDE DEF s
        <4>1. s \in Seq(Carried) /\ \A i \in DOMAIN s : s[i].id = s[i].call
          BY <3>1, <3>2 DEF s
        <4> QED
          BY <4>1
      <3> QED
        BY <2>1, <3>1, <3>2, <3>3
    <2>3. outbound' = [u \in Tokens |-> outbound'[u]]
      BY <1>2 DEF CallInv, CallTypes
    <2> QED
      BY <2>2, <2>3
  <1> QED
    BY <1>1, <1>2 DEF SendTo

(* No step mixes up a call and its id, nor revives an answered one.        *)
LEMMA CallNext == CallInv /\ [SocketNext]_socketVars => CallInv'
  <1> SUFFICES ASSUME CallInv, [SocketNext]_socketVars PROVE CallInv'
    OBVIOUS
  <1> USE DEF CallInv
  <1>1. ASSUME UNCHANGED <<callVars, inbound>>, UNCHANGED outbound, onGlass' \in Nat,
               links' \in [Tokens -> [task : {"none", "open", "hangup", "closed"}, generation : Nat]]
        PROVE  CallInv'
    BY <1>1 DEF callVars, CallTypes, IdIsTheCall, AnswersAreOver, CallerGetsItsOwnAnswer, IsInjective
  <1>2. CASE UNCHANGED socketVars
    BY <1>1, <1>2 DEF socketVars, callVars, CallTypes
  <1>3. CASE ExpectGeneration \/ RendererDies \/ Respawn \/ RemoveWedged \/ Handshake
    <2>1. CASE ExpectGeneration \/ RendererDies \/ Handshake
      BY <1>1, <2>1 DEF ExpectGeneration, RendererDies, Handshake, callVars, CallTypes
    <2>2. CASE Respawn
      BY <1>1, <2>2 DEF Respawn, callVars, CallTypes
    <2>3. CASE RemoveWedged
      <3>1. links' \in [Tokens -> [task : {"none", "open", "hangup", "closed"}, generation : Nat]]
        BY <2>3 DEF RemoveWedged, CallTypes
      <3> QED
        BY <1>1, <2>3, <3>1 DEF RemoveWedged, callVars, CallTypes
    <2> QED
      BY <1>3, <2>1, <2>2, <2>3
  <1>4. ASSUME NEW g \in Generations, AwaitClaim(g) \/ ClaimTimesOut(g) PROVE CallInv'
    <2>1. g \in Nat
      BY SocketAssumption DEF Generations
    <2>2. links' \in [Tokens -> [task : {"none", "open", "hangup", "closed"}, generation : Nat]]
      <3>1. CASE ClaimTimesOut(g)
        BY <3>1 DEF ClaimTimesOut, CallTypes
      <3>2. CASE AwaitClaim(g)
        <4>1. links' = [links EXCEPT ![nextToken] = [task |-> "open", generation |-> g]]
          BY <3>2 DEF AwaitClaim
        <4> QED
          BY <2>1, <4>1 DEF CallTypes
      <3> QED
        BY <1>4, <3>1, <3>2
    <2>3. onGlass' \in Nat /\ UNCHANGED outbound /\ UNCHANGED <<callVars, inbound>>
      BY <1>4 DEF AwaitClaim, ClaimTimesOut, callVars, CallTypes
    <2> QED
      BY <1>1, <2>2, <2>3
  <1>5. ASSUME NEW t \in Tokens, ConnectionEnds(t) PROVE CallInv'
    <2>1. \A u \in Tokens : outbound'[u] = IF u = t THEN <<>> ELSE outbound[u]
      BY <1>5 DEF ConnectionEnds, CallTypes
    <2>2. outbound' \in [Tokens -> Seq(Carried)]
      BY <1>5 DEF ConnectionEnds, CallTypes
    <2>3. \A u \in Tokens : \A i \in DOMAIN outbound'[u] : outbound'[u][i].id = outbound'[u][i].call
      BY <2>1 DEF IdIsTheCall
    <2>4. links' \in [Tokens -> [task : {"none", "open", "hangup", "closed"}, generation : Nat]]
      BY <1>5 DEF ConnectionEnds, CallTypes
    <2>5. UNCHANGED <<onGlass, callVars, inbound>>
      BY <1>5 DEF ConnectionEnds
    <2> QED
      BY <2>2, <2>3, <2>4, <2>5 DEF callVars, CallTypes, IdIsTheCall, AnswersAreOver,
         CallerGetsItsOwnAnswer, IsInjective
  <1>6. ASSUME NEW t \in Tokens, RendererAnswers(t) PROVE CallInv'
    <2> DEFINE frame == [frame |-> "result", from |-> links[t].generation,
                         id |-> Head(outbound[t]).id, call |-> Head(outbound[t]).call]
    <2>1. /\ outbound[t] \in Seq(Carried) /\ outbound[t] # <<>>
          /\ \A i \in DOMAIN outbound[t] : outbound[t][i].id = outbound[t][i].call
      BY <1>6 DEF RendererAnswers, CallTypes, IdIsTheCall
    <2>2. frame \in Frames /\ frame.id = frame.call
      <3>1. Head(outbound[t]) \in Carried /\ Head(outbound[t]).id = Head(outbound[t]).call
        BY <2>1
      <3>2. links[t].generation \in Nat
        BY DEF CallTypes
      <3> QED
        BY <3>1, <3>2 DEF Frames, Carried
    <2>3. /\ inbound' \in Seq(Frames)
          /\ \A i \in DOMAIN inbound' : inbound'[i].id = inbound'[i].call
      <3>1. inbound' = Append(inbound, frame)
        BY <1>6 DEF RendererAnswers
      <3> HIDE DEF frame
      <3> QED
        BY <2>2, <3>1 DEF CallTypes, IdIsTheCall
    <2>4. /\ Tail(outbound[t]) \in Seq(Carried)
          /\ \A i \in DOMAIN Tail(outbound[t]) : Tail(outbound[t])[i].id = Tail(outbound[t])[i].call
      BY <2>1
    <2>5. outbound' = [outbound EXCEPT ![t] = Tail(outbound[t])]
      BY <1>6 DEF RendererAnswers
    <2>6. /\ outbound' \in [Tokens -> Seq(Carried)]
          /\ \A u \in Tokens : \A i \in DOMAIN outbound'[u] : outbound'[u][i].id = outbound'[u][i].call
      BY <2>4, <2>5 DEF CallTypes, IdIsTheCall
    <2> QED
      BY <1>6, <2>3, <2>6 DEF RendererAnswers, linkVars, callVars, CallTypes, IdIsTheCall,
         AnswersAreOver, CallerGetsItsOwnAnswer, IsInjective
  <1>7. ASSUME NEW c \in Clients, Call(c) PROVE CallInv'
    <2> DEFINE id == lastId + 1
               frame == [frame |-> "call", from |-> NotAsked, id |-> id, call |-> id]
    <2>1. lastId' = id /\ callsMade' = id /\ id \in Nat
      BY <1>7 DEF Call, NextCallId, CallTypes, IdIsTheCall
    <2>2. /\ inbound' \in Seq(Frames)
          /\ \A i \in DOMAIN inbound' : inbound'[i].id = inbound'[i].call
      <3>1. inbound' = Append(inbound, frame)
        BY <1>7, <2>1 DEF Call, NextCallId
      <3>2. frame \in Frames /\ frame.id = frame.call
        BY <2>1, SocketAssumption DEF Frames, NotAsked
      <3> HIDE DEF frame
      <3> QED
        BY <3>1, <3>2 DEF CallTypes, IdIsTheCall
    <2>3. \A i \in DOMAIN routes' :
            /\ i \in Nat /\ i <= lastId'
            /\ routes'[i] \in [reply : Clients, dispatchedTo : Nat, call : {i}]
      BY <1>7, <2>1, SocketAssumption DEF Call, NextCallId, NotAsked, CallTypes, IdIsTheCall
    <2>4. DOMAIN routes' = DOMAIN routes \cup {id}
      BY <1>7 DEF Call, NextCallId
    <2>5. answers' = answers /\ UNCHANGED <<outbound, onGlass, links>>
      BY <1>7 DEF Call, linkVars
    <2>6. AnswersAreOver'
      <3>1. \A d \in Clients : \A i \in DOMAIN answers[d] :
              answers[d][i].asked \in Nat /\ answers[d][i].asked <= lastId /\ answers[d][i].asked \notin DOMAIN routes
        <4>1. \A d \in Clients : answers[d] \in Seq(Answered)
          BY DEF CallTypes
        <4>2. \A d \in Clients : \A i \in DOMAIN answers[d] : answers[d][i] \in Answered
          BY <4>1
        <4> QED
          BY <4>2 DEF AnswersAreOver, Answered
      <3> QED
        BY <2>1, <2>4, <2>5, <3>1 DEF AnswersAreOver, CallTypes
    <2> QED
      BY <2>1, <2>2, <2>3, <2>5, <2>6 DEF CallTypes, IdIsTheCall, CallerGetsItsOwnAnswer, IsInjective
  <1>8. ASSUME NEW c \in Clients, HangUp(c) PROVE CallInv'
    <2>1. /\ DOMAIN routes' \subseteq DOMAIN routes
          /\ \A id \in DOMAIN routes' : routes'[id] = routes[id]
      BY <1>8 DEF HangUp, CloseRoutes
    <2> QED
      BY <1>8, <2>1 DEF HangUp, linkVars, CallTypes, IdIsTheCall, AnswersAreOver,
         CallerGetsItsOwnAnswer, IsInjective
  <1>9. CASE DispatchCall
    <2> DEFINE asked == Head(inbound)
               n == [id |-> asked.id, call |-> asked.call]
    <2>1. asked \in Frames /\ asked.id = asked.call
      BY <1>9 DEF DispatchCall, CallTypes, IdIsTheCall
    <2>2. n \in Carried /\ n.id = n.call /\ SendTo(onGlass, n)
      BY <1>9, <2>1 DEF DispatchCall, Carried, Frames
    <2>3. /\ outbound' \in [Tokens -> Seq(Carried)]
          /\ \A t \in Tokens : \A i \in DOMAIN outbound'[t] : outbound'[t][i].id = outbound'[t][i].call
      <3> HIDE DEF n
      <3> QED
        BY <2>2, SendToKeeps
    <2>4. /\ inbound' \in Seq(Frames)
          /\ \A i \in DOMAIN inbound' : inbound'[i].id = inbound'[i].call
      BY <1>9 DEF DispatchCall, CallTypes, IdIsTheCall
    <2>5. DOMAIN routes' = DOMAIN routes
      BY <1>9 DEF DispatchCall
    <2>6. \A id \in DOMAIN routes' : routes'[id] \in [reply : Clients, dispatchedTo : Nat, call : {id}]
      <3>1. CASE routes' = routes
        BY <3>1 DEF IdIsTheCall
      <3>2. CASE asked.id \in DOMAIN routes /\ routes' = [routes EXCEPT ![asked.id].dispatchedTo = onGlass]
        <4>1. routes[asked.id] \in [reply : Clients, dispatchedTo : Nat, call : {asked.id}] /\ onGlass \in Nat
          BY <3>2 DEF IdIsTheCall, CallTypes
        <4>2. [routes[asked.id] EXCEPT !.dispatchedTo = onGlass]
                \in [reply : Clients, dispatchedTo : Nat, call : {asked.id}]
          BY <4>1
        <4>3. \A id \in DOMAIN routes : routes'[id] = IF id = asked.id
                THEN [routes[asked.id] EXCEPT !.dispatchedTo = onGlass] ELSE routes[id]
          BY <3>2
        <4> QED
          BY <2>5, <4>2, <4>3 DEF IdIsTheCall
      <3> QED
        BY <1>9, <3>1, <3>2 DEF DispatchCall
    <2> QED
      BY <1>9, <2>3, <2>4, <2>5, <2>6 DEF DispatchCall, CallTypes, IdIsTheCall, AnswersAreOver,
         CallerGetsItsOwnAnswer, IsInjective
  <1>10. CASE DispatchResult
    <2> DEFINE result == Head(inbound)
    <2>1. result \in Frames /\ result.id = result.call
      BY <1>10 DEF DispatchResult, CallTypes, IdIsTheCall
    <2>2. /\ inbound' \in Seq(Frames)
          /\ \A i \in DOMAIN inbound' : inbound'[i].id = inbound'[i].call
      BY <1>10 DEF DispatchResult, CallTypes, IdIsTheCall
    <2>3. UNCHANGED <<outbound, onGlass, links, lastId, callsMade>>
      BY <1>10 DEF DispatchResult, linkVars
    <2>4. CASE UNCHANGED <<answers, routes>>
      BY <2>2, <2>3, <2>4 DEF CallTypes, IdIsTheCall, AnswersAreOver, CallerGetsItsOwnAnswer, IsInjective
    <2>5. CASE MayAnswer(result)
      <3> DEFINE c == routes[result.id].reply
                 answer == [asked |-> routes[result.id].call, got |-> result.call]
      <3>1. result.id \in DOMAIN routes
        BY <2>5 DEF MayAnswer
      <3>2. c \in Clients /\ answer = [asked |-> result.id, got |-> result.id] /\ result.id \in Nat /\ result.id <= lastId
        BY <2>1, <3>1 DEF IdIsTheCall
      <3>3. /\ answers' = [answers EXCEPT ![c] = Append(@, answer)]
            /\ routes' = [id \in DOMAIN routes \ {result.id} |-> routes[id]]
        BY <1>10, <2>5 DEF DispatchResult
      <3> HIDE DEF c, answer, result
      <3>4. /\ answer \in Answered /\ answer.asked = answer.got
            /\ answer.asked <= lastId /\ answer.asked \notin DOMAIN routes'
        BY <3>2, <3>3 DEF Answered
      <3>5. \A d \in Clients : answers'[d] = IF d = c THEN Append(answers[d], answer) ELSE answers[d]
        BY <3>3 DEF CallTypes
      <3>6. ASSUME NEW d \in Clients
            PROVE  /\ answers'[d] \in Seq(Answered)
                   /\ \A i \in DOMAIN answers'[d] :
                        /\ answers'[d][i].asked = answers'[d][i].got
                        /\ answers'[d][i].asked <= lastId
                        /\ answers'[d][i].asked \notin DOMAIN routes'
                   /\ IsInjective(answers'[d])
        <4>1. /\ answers[d] \in Seq(Answered) /\ IsInjective(answers[d])
              /\ \A i \in DOMAIN answers[d] :
                   /\ answers[d][i].asked = answers[d][i].got
                   /\ answers[d][i].asked <= lastId
                   /\ answers[d][i].asked \notin DOMAIN routes
          BY DEF CallTypes, AnswersAreOver, CallerGetsItsOwnAnswer
        <4>2. CASE d # c
          BY <3>3, <3>5, <4>1, <4>2
        <4>3. CASE d = c
          <5>1. answers'[d] = Append(answers[d], answer)
            BY <3>5, <4>3
          <5>2. \A i \in DOMAIN answers[d] : answers[d][i] # answer
            BY <3>1, <3>2, <4>1
          <5> QED
            BY <3>3, <3>4, <4>1, <5>1, <5>2 DEF IsInjective
        <4> QED
          BY <4>2, <4>3
      <3>7. answers' = [d \in Clients |-> answers'[d]]
        BY <3>3 DEF CallTypes
      <3>8. \A id \in DOMAIN routes' : id \in DOMAIN routes /\ routes'[id] = routes[id]
        BY <3>3
      <3> QED
        BY <2>2, <2>3, <3>6, <3>7, <3>8 DEF CallTypes, IdIsTheCall, AnswersAreOver, CallerGetsItsOwnAnswer
    <2> QED
      BY <1>10, <2>4, <2>5 DEF DispatchResult
  <1> QED
    BY <1>2, <1>3, <1>4, <1>5, <1>6, <1>7, <1>8, <1>9, <1>10 DEF SocketNext

-----------------------------------------------------------------------------
(* Only the newest connection of a generation needs its entry, and keeps   *)
(* it.                                                                     *)
LEMMA LinkNext == LinkInv /\ [SocketNext]_socketVars => LinkInv'
  <1> SUFFICES ASSUME LinkInv, [SocketNext]_socketVars PROVE LinkInv'
    OBVIOUS
  <1>1. ASSUME UNCHANGED <<registry, nextToken, links, strays>> PROVE LinkInv'
    BY <1>1 DEF LinkInv, LiveLinkIsRegistered
  <1>2. CASE UNCHANGED socketVars \/ ExpectGeneration \/ RendererDies \/ Respawn \/ Handshake
    BY <1>1, <1>2 DEF socketVars, ExpectGeneration, RendererDies, Respawn, Handshake
  <1>3. CASE DispatchCall \/ DispatchResult \/ (\E t \in Tokens : RendererAnswers(t))
               \/ (\E c \in Clients : Call(c) \/ HangUp(c)) \/ (\E g \in Generations : ClaimTimesOut(g))
    BY <1>1, <1>3 DEF DispatchCall, DispatchResult, RendererAnswers, Call, HangUp, ClaimTimesOut, linkVars
  <1>4. ASSUME NEW g \in Generations, AwaitClaim(g) PROVE LinkInv'
    <2>1. /\ nextToken \in Tokens /\ nextToken' = nextToken + 1 /\ nextToken \in Nat /\ strays' = strays
          /\ links' = [links EXCEPT ![nextToken] = [task |-> "open", generation |-> g]]
          /\ registry' = [registry EXCEPT ![g] = nextToken]
          /\ g \in Nat
      BY <1>4, SocketAssumption DEF AwaitClaim, LinkInv, Tokens, Generations
    <2>2. /\ nextToken' \in Nat \ {0}
          /\ links' \in [Tokens -> [task : {"none", "open", "hangup", "closed"}, generation : Nat]]
          /\ registry' \in [Generations -> Nat]
      BY <2>1 DEF LinkInv
    <2>3. \A t \in Tokens : links'[t].task = "none" <=> t >= nextToken'
      BY <2>1, SocketAssumption DEF LinkInv, Tokens
    <2>4. ASSUME NEW t \in Tokens \ strays', links'[t].task = "open",
                 \A u \in Tokens : u > t /\ links'[u].generation = links'[t].generation
                                      => links'[u].task = "none"
          PROVE  registry'[links'[t].generation] = t
      <3>1. CASE t = nextToken
        BY <2>1, <3>1 DEF LinkInv
      <3>2. CASE t # nextToken
        <4>1. links'[t] = links[t] /\ t < nextToken
          BY <2>1, <2>3, <2>4, <3>2, SocketAssumption DEF LinkInv, Tokens
        <4>2. links[t].generation # g
          BY <2>1, <2>4, <4>1, SocketAssumption DEF LinkInv, Tokens
        <4>3. \A u \in Tokens : u > t /\ links[u].generation = links[t].generation => links[u].task = "none"
          BY <2>1, <2>4, <4>1, SocketAssumption DEF LinkInv, Tokens
        <4> QED
          BY <2>1, <2>4, <4>1, <4>2, <4>3 DEF LinkInv, LiveLinkIsRegistered
      <3> QED
        BY <3>1, <3>2
    <2> QED
      BY <2>2, <2>3, <2>4 DEF LinkInv, LiveLinkIsRegistered
  <1>5. ASSUME NEW s \in Tokens, ConnectionEnds(s) PROVE LinkInv'
    <2>1. /\ links[s].task \in {"open", "hangup"} /\ UNCHANGED <<nextToken, strays>>
          /\ links' = [links EXCEPT ![s].task = "closed"]
          /\ registry' = Unregister(registry, links[s].generation, s)
      BY <1>5 DEF ConnectionEnds
    <2>2. /\ links' \in [Tokens -> [task : {"none", "open", "hangup", "closed"}, generation : Nat]]
          /\ registry' \in [Generations -> Nat]
          /\ \A t \in Tokens : links'[t].generation = links[t].generation
                               /\ links'[t].task = IF t = s THEN "closed" ELSE links[t].task
      BY <2>1 DEF LinkInv, Unregister
    <2>3. \A g : registry[g] # s => registry'[g] = registry[g]
      BY <2>1 DEF LinkInv, Unregister
    <2>4. ASSUME NEW t \in Tokens \ strays', links'[t].task = "open",
                 \A u \in Tokens : u > t /\ links'[u].generation = links'[t].generation
                                      => links'[u].task = "none"
          PROVE  registry'[links'[t].generation] = t
      <3>1. t # s /\ links[t].task = "open"
        BY <2>2, <2>4
      <3>2. \A u \in Tokens : u > t /\ links[u].generation = links[t].generation => links[u].task = "none"
        BY <2>2, <2>4
      <3> QED
        BY <2>1, <2>2, <2>3, <3>1, <3>2 DEF LinkInv, LiveLinkIsRegistered
    <2> QED
      BY <2>1, <2>2, <2>4 DEF LinkInv, LiveLinkIsRegistered
  <1>6. CASE RemoveWedged
    <2> DEFINE g == wedged.generation
               s == wedged.token
    <2>1. /\ registry' = [registry EXCEPT ![g] = 0] /\ UNCHANGED nextToken
          /\ strays' = strays \cup ({registry[g]} \ {0, s})
          /\ links' = [links EXCEPT ![s].task = IF @ = "open" THEN "hangup" ELSE @]
      BY <1>6 DEF RemoveWedged
    <2>2. /\ links' \in [Tokens -> [task : {"none", "open", "hangup", "closed"}, generation : Nat]]
          /\ registry' \in [Generations -> Nat]
          /\ \A t \in Tokens : /\ links'[t].generation = links[t].generation
                               /\ links'[t].task = "none" <=> links[t].task = "none"
                               /\ links'[t].task = "open" <=> links[t].task = "open" /\ t # s
      BY <2>1 DEF LinkInv
    <2>3. ASSUME NEW t \in Tokens \ strays', links'[t].task = "open",
                 \A u \in Tokens : u > t /\ links'[u].generation = links'[t].generation
                                      => links'[u].task = "none"
          PROVE  registry'[links'[t].generation] = t
      <3>1. registry[links[t].generation] = t /\ t # s /\ t # 0
        BY <2>1, <2>2, <2>3, SocketAssumption DEF LinkInv, LiveLinkIsRegistered, Tokens
      <3>2. links[t].generation # g
        BY <2>1, <2>3, <3>1
      <3> QED
        BY <2>1, <2>2, <3>1, <3>2 DEF LinkInv
    <2> QED
      BY <2>1, <2>2, <2>3 DEF LinkInv, LiveLinkIsRegistered
  <1> QED
    BY <1>2, <1>3, <1>4, <1>5, <1>6 DEF SocketNext

-----------------------------------------------------------------------------
(* A client reads the answer of the call it made, and reads it once: what  *)
(* CallRoutes::open, answer and close promise `mantle call`.               *)
THEOREM AnswersAreTheCallersOwn == SocketSpec => []CallerGetsItsOwnAnswer
  <1>1. CallInv => CallerGetsItsOwnAnswer
    BY DEF CallInv
  <1> QED
    BY <1>1, SocketInitInv, CallNext, PTL DEF SocketSpec

(* The newest open connection of a generation stays registered, whichever  *)
(* of the older ones cleans up late: register, unregister and send_to of   *)
(* socket/mod.rs, but for the removal by id that checks no token.          *)
THEOREM LiveLinksAreRegistered == SocketSpec => []LiveLinkIsRegistered
  <1>1. LinkInv => LiveLinkIsRegistered
    BY DEF LinkInv
  <1> QED
    BY <1>1, SocketInitInv, LinkNext, PTL DEF SocketSpec

-----------------------------------------------------------------------------
(* One exit per `process.run`, for every set of runs and any number of       *)
(* generations.                                                              *)

(* Three hands may hold the Child whose exit is still to be reported.      *)
Tracks(r)   == r \in tracked
Detached(r) == r \in detached
Kills(r)    == reaping.run = r /\ reaping.report

Types ==
  /\ owner \in Nat /\ owner <= LastOwner
  /\ ~ownerUp => owner < LastOwner
  /\ spawnedBy \in [Runs -> Nat]
  /\ group \in [Runs -> {"none", "alive", "dead"}]
  /\ stuck \in [Runs -> BOOLEAN] /\ piped \in [Runs -> BOOLEAN]
  /\ tracked \subseteq Runs /\ detached \subseteq Runs /\ sweep \subseteq Runs
  /\ processDone \in Seq(Runs)
  /\ exits \in [Runs -> Nat]
  /\ reaping = NotReaping \/ reaping \in [run : Runs, signal : {"SIGTERM", "SIGKILL"}, report : BOOLEAN]

(* A run nobody sent has nothing to report.                                *)
Unsent ==
  \A r \in Runs : spawnedBy[r] = NoOne =>
    /\ group[r] = "none" /\ exits[r] = 0
    /\ ~Tracks(r) /\ ~Detached(r) /\ ~Kills(r)

(* One hand at most, and only while the exit is unreported.                *)
OneHand ==
  \A r \in Runs :
    /\ Tracks(r) => ~Detached(r) /\ ~Kills(r) /\ exits[r] = 0
    /\ Detached(r) => ~Kills(r) /\ exits[r] = 0
    /\ Kills(r) => exits[r] = 0

RegistryInv == Types /\ Unsent /\ OneHand /\ ExitIsReportedOnce

-----------------------------------------------------------------------------
(* No command has come.                                                    *)
LEMMA ProcessInitInv == ProcessInit => RegistryInv
  BY OwnerAssumption DEF ProcessInit, RegistryInv, Types, Unsent, OneHand, ExitIsReportedOnce,
     Tracks, Detached, Kills, NotReaping, NoOne

(* The end of a reap reports for the hand that held the run, which lets go. *)
LEMMA ReapEndsKeeps ==
  ASSUME RegistryInv, reaping # NotReaping, ReapEnds,
         group[reaping.run] = "dead" \/ stuck[reaping.run],
         UNCHANGED <<owner, ownerUp, spawnedBy, osVars, tracked, processDone, detached, sweep>>
  PROVE  RegistryInv'
  <1> DEFINE k == reaping.run
  <1>1. k \in Runs /\ reaping.report \in BOOLEAN
    BY DEF RegistryInv, Types
  <1>2. /\ \A r \in Runs : exits'[r] = IF Kills(r) THEN exits[r] + 1 ELSE exits[r]
        /\ exits' \in [Runs -> Nat]
    <2>1. exits \in [Runs -> Nat]
      BY DEF RegistryInv, Types
    <2>2. exits' = IF reaping.report THEN [exits EXCEPT ![k] = exits[k] + 1] ELSE exits
      BY DEF ReapEnds, ReportExit
    <2> QED
      BY <1>1, <2>1, <2>2 DEF Kills
  <1>3. \A r \in Runs : ~Kills(r)'
    BY DEF ReapEnds, Kills, NotReaping
  <1>4. Types'
    BY <1>2 DEF ReapEnds, RegistryInv, Types, osVars
  <1>5. Unsent'
    BY <1>2, <1>3 DEF RegistryInv, Unsent, osVars, Tracks, Detached
  <1>6. OneHand'
    BY <1>2, <1>3 DEF RegistryInv, OneHand, Tracks, Detached
  <1>7. ExitIsReportedOnce'
    BY <1>2 DEF RegistryInv, OneHand, ExitIsReportedOnce, Kills, osVars, Types
  <1> QED
    BY <1>4, <1>5, <1>6, <1>7 DEF RegistryInv

(* No step reports an exit twice, nor that of a live group.                *)
LEMMA ProcessNextInv == RegistryInv /\ [ProcessNext]_processVars => RegistryInv'
  <1> SUFFICES ASSUME RegistryInv, [ProcessNext]_processVars PROVE RegistryInv'
    OBVIOUS
  <1> USE DEF Tracks, Detached, Kills
  <1>1. CASE UNCHANGED processVars
    BY <1>1 DEF processVars, RegistryInv, Types, Unsent, OneHand, ExitIsReportedOnce
  <1>2. ASSUME NEW r \in Runs, Run(r) PROVE RegistryInv'
    <2>1. owner # NoOne /\ spawnedBy[r] = NoOne /\ reaping = NotReaping
      BY <1>2, OwnerAssumption DEF Run, LoopIsFree, RegistryInv, Types, NoOne
    <2>2. Types'
      BY <1>2 DEF Run, RegistryInv, Types
    <2>3. Unsent'
      BY <1>2, <2>1 DEF Run, RegistryInv, Types, Unsent
    <2>4. OneHand' /\ ExitIsReportedOnce'
      BY <1>2, <2>1 DEF Run, RegistryInv, Types, Unsent, OneHand, ExitIsReportedOnce, NotReaping
    <2> QED
      BY <2>2, <2>3, <2>4 DEF RegistryInv
  <1>3. ASSUME NEW r \in Runs, RunFails(r) PROVE RegistryInv'
    <2>1. owner # NoOne /\ spawnedBy[r] = NoOne
      BY <1>3, OwnerAssumption DEF RunFails, RegistryInv, Types, NoOne
    <2>2. exits' = [exits EXCEPT ![r] = exits[r] + 1]
      BY <1>3 DEF RunFails, ReportExit
    <2>3. Types'
      BY <1>3, <2>2 DEF RunFails, RegistryInv, Types, osVars
    <2>4. Unsent'
      BY <1>3, <2>1, <2>2 DEF RunFails, RegistryInv, Types, Unsent, osVars
    <2>5. OneHand' /\ ExitIsReportedOnce'
      BY <1>3, <2>1, <2>2 DEF RunFails, RegistryInv, Types, Unsent, OneHand, ExitIsReportedOnce, osVars
    <2> QED
      BY <2>3, <2>4, <2>5 DEF RegistryInv
  <1>4. ASSUME NEW r \in Runs, Kill(r) PROVE RegistryInv'
    <2>1. owner # NoOne /\ r \in tracked /\ tracked' = tracked \ {r} /\ spawnedBy[r] = owner
      BY <1>4, OwnerAssumption DEF Kill, TakeEntry, RegistryInv, Types, NoOne
    <2>2. Types'
      BY <1>4, <2>1 DEF Kill, RegistryInv, Types, osVars
    <2>3. Unsent' /\ OneHand' /\ ExitIsReportedOnce'
      BY <1>4, <2>1 DEF Kill, RegistryInv, Types, Unsent, OneHand, ExitIsReportedOnce, osVars
    <2> QED
      BY <2>2, <2>3 DEF RegistryInv
  <1>5. CASE ReapSeesExit \/ ReapFails
    <2>1. reaping # NotReaping
      BY <1>5 DEF ReapSeesExit, ReapFails, NotReaping
    <2> QED
      BY <1>5, <2>1, ReapEndsKeeps DEF ReapSeesExit, ReapFails
  <1>6. CASE GraceElapses
    <2>1. Types' /\ reaping'.run = reaping.run /\ reaping'.report = reaping.report
      <3>1. reaping \in [run : Runs, signal : {"SIGTERM", "SIGKILL"}, report : BOOLEAN]
        BY <1>6 DEF GraceElapses, RegistryInv, Types, NotReaping
      <3>2. /\ reaping' \in [run : Runs, signal : {"SIGTERM", "SIGKILL"}, report : BOOLEAN]
            /\ reaping'.run = reaping.run /\ reaping'.report = reaping.report
        BY <1>6, <3>1 DEF GraceElapses
      <3> QED
        BY <1>6, <3>2 DEF GraceElapses, RegistryInv, Types, osVars
    <2> QED
      BY <1>6, <2>1 DEF GraceElapses, RegistryInv, Unsent, OneHand, ExitIsReportedOnce, osVars
  <1>7. ASSUME NEW r \in Runs, GroupExits(r) PROVE RegistryInv'
    BY <1>7 DEF GroupExits, RegistryInv, Types, Unsent, OneHand, ExitIsReportedOnce
  <1>8. ASSUME NEW r \in Runs, StreamsClose(r) PROVE RegistryInv'
    BY <1>8 DEF StreamsClose, RegistryInv, Types, Unsent, OneHand, ExitIsReportedOnce
  <1>9. CASE ReapExited
    <2> DEFINE r == Head(processDone)
    <2>1. r \in Runs /\ Tail(processDone) \in Seq(Runs)
      BY <1>9 DEF ReapExited, RegistryInv, Types
    <2>2. CASE UNCHANGED <<tracked, detached>>
      BY <1>9, <2>1, <2>2 DEF ReapExited, RegistryInv, Types, Unsent, OneHand, ExitIsReportedOnce, osVars
    <2>3. CASE r \in tracked /\ tracked' = tracked \ {r} /\ detached' = detached \cup {r}
      <3> HIDE DEF r
      <3>1. UNCHANGED <<owner, ownerUp, spawnedBy, group, stuck, piped, reaping, sweep, exits>> /\ processDone' \in Seq(Runs)
        BY <1>9, <2>1 DEF ReapExited, osVars, r
      <3> QED
        BY <2>1, <2>3, <3>1 DEF RegistryInv, Types, Unsent, OneHand, ExitIsReportedOnce
    <2> QED
      BY <1>9, <2>2, <2>3 DEF ReapExited
  <1>10. ASSUME NEW r \in Runs, WaitReturns(r) PROVE RegistryInv'
    <2>1. exits' = [exits EXCEPT ![r] = exits[r] + 1] /\ r \in detached /\ detached' = detached \ {r}
      BY <1>10 DEF WaitReturns, ReportExit
    <2>2. Types'
      BY <1>10, <2>1 DEF WaitReturns, RegistryInv, Types, osVars
    <2>3. Unsent' /\ OneHand' /\ ExitIsReportedOnce'
      BY <1>10, <2>1 DEF WaitReturns, RegistryInv, Types, Unsent, OneHand, ExitIsReportedOnce, osVars
    <2> QED
      BY <2>2, <2>3 DEF RegistryInv
  <1>11. CASE OwnerDies
    BY <1>11 DEF OwnerDies, RegistryInv, Types, Unsent, OneHand, ExitIsReportedOnce, osVars
  <1>12. CASE ReplaceOwner
    BY <1>12, OwnerAssumption DEF ReplaceOwner, EntriesOfDeparted, RegistryInv, Types, Unsent, OneHand, ExitIsReportedOnce, osVars
  <1>13. ASSUME NEW r \in Runs, SweepOne(r) PROVE RegistryInv'
    <2>1. Types'
      BY <1>13 DEF SweepOne, RegistryInv, Types, osVars
    <2>2. Unsent' /\ OneHand' /\ ExitIsReportedOnce'
      BY <1>13 DEF SweepOne, RegistryInv, Types, Unsent, OneHand, ExitIsReportedOnce, osVars
    <2> QED
      BY <2>1, <2>2 DEF RegistryInv
  <1> QED
    BY <1>1, <1>2, <1>3, <1>4, <1>5, <1>6, <1>7, <1>8, <1>9, <1>10, <1>11, <1>12, <1>13 DEF ProcessNext

(* An exit_cb runs at most once and not before its group is gone: kill,    *)
(* the end of the streams and the exit itself hand the Child from one to   *)
(* the next (kill_registered_process, reap_exited_process).                *)
THEOREM ExitsAreReportedOnce == ProcessSpec => []ExitIsReportedOnce
  <1>1. RegistryInv => ExitIsReportedOnce
    BY DEF RegistryInv
  <1> QED
    BY <1>1, ProcessInitInv, ProcessNextInv, PTL DEF ProcessSpec

-----------------------------------------------------------------------------
(* The brake on respawns, for every limit, window and cooldown: the ages that *)
(* are recorded are those of the last restarts (Remembered), none of which    *)
(* but the oldest came out of a cooldown, and what came before them left the  *)
(* window or lies behind that cooldown (Parted).                              *)

Ages     == 0..RestartWindow
Restarts == [age : Ages, cooled : BOOLEAN]

BrakeTypes ==
  /\ recent \in Seq(Ages) /\ Len(recent) <= RestartLimit
  /\ restarts \in Seq(Restarts) /\ Len(restarts) <= RestartLimit + 1
  /\ respawnAt \in 0..Unset

(* Restarts that are no longer recorded.                                   *)
Forgotten == Len(restarts) - Len(recent)

Remembered ==
  /\ Forgotten >= 0
  /\ \A i \in 1..Len(recent) : recent[i] = restarts[Forgotten + i].age

OldestFirst ==
  \A i, j \in 1..Len(restarts) : i < j => restarts[j].age <= restarts[i].age

Parted ==
  Forgotten > 0 =>
    \/ restarts[Forgotten].age = RestartWindow
    \/ recent # <<>> /\ restarts[Forgotten + 1].cooled
    \/ recent = <<>> /\ respawnAt # Unset

(* A refusal forgets every restart, and the cooldown ends before the next. *)
ClearedToCool == respawnAt # Unset => recent = <<>>

BurstIsParted ==
  Len(restarts) > RestartLimit /\ restarts[Len(restarts)].age = 0 =>
    \/ restarts[1].age = RestartWindow
    \/ \E i \in 2..Len(restarts) : restarts[i].cooled

BrakeInv ==
  BrakeTypes /\ Remembered /\ OldestFirst /\ Parted /\ ClearedToCool /\ BurstIsParted

(* The n oldest ages have left the window and kept is what stays.          *)
Pops(n, kept) ==
  /\ n \in 0..Len(recent)
  /\ \A j \in 1..n : recent[j] = RestartWindow
  /\ kept = SubSeq(recent, n + 1, Len(recent))

LEMMA PoppedFromTheFront ==
  ASSUME BrakeTypes
  PROVE  \E n \in 0..Len(recent) : Pops(n, InWindow)
<1> USE BrakeAssumption
<1> DEFINE P(i) == /\ \A j \in 1..(i - 1) : recent[j] >= RestartWindow
                   /\ i <= Len(recent) => recent[i] < RestartWindow
           S == {i \in 1..(Len(recent) + 1) : i <= Len(recent) => recent[i] < RestartWindow}
           first == CHOOSE i \in 1..(Len(recent) + 1) : P(i)
<1>1. Len(recent) \in Nat /\ \A i \in 1..Len(recent) : recent[i] \in Ages
  BY DEF BrakeTypes
<1>2. S \in SUBSET Nat /\ Len(recent) + 1 \in S
  BY <1>1
<1>3. PICK i \in S : \A j \in S : i <= j
  BY <1>2, LeastNumber
<1>4. P(i) /\ i \in 1..(Len(recent) + 1)
  BY <1>1, <1>3 DEF Ages
<1>5. P(first) /\ first \in 1..(Len(recent) + 1)
  BY <1>4
<1>6. InWindow = SubSeq(recent, first, Len(recent))
  BY DEF InWindow
<1> HIDE DEF first
<1>7. first - 1 \in 0..Len(recent) /\ (first - 1) + 1 = first
  BY <1>1, <1>5
<1>8. \A j \in 1..(first - 1) : recent[j] = RestartWindow
  BY <1>1, <1>5 DEF Ages
<1> QED
  BY <1>6, <1>7, <1>8 DEF Pops

(* The window without its n oldest is as good a record as it was.          *)
LEMMA PoppingKeeps ==
  ASSUME BrakeTypes, Remembered, Parted, NEW n, NEW kept, Pops(n, kept)
  PROVE  /\ kept \in Seq(Ages) /\ Len(kept) = Len(recent) - n
         /\ Forgotten + n \in Nat /\ Forgotten + n = Len(restarts) - Len(kept)
         /\ \A i \in 1..Len(kept) : kept[i] = restarts[(Forgotten + n) + i].age
         /\ Forgotten + n > 0 =>
              \/ restarts[Forgotten + n].age = RestartWindow
              \/ kept # <<>> /\ restarts[(Forgotten + n) + 1].cooled
              \/ recent = <<>> /\ respawnAt # Unset
<1>1. Len(recent) \in Nat /\ Len(restarts) \in Nat /\ recent \in Seq(Ages)
  BY DEF BrakeTypes
<1>2. n \in Nat /\ n <= Len(recent)
  BY <1>1 DEF Pops
<1>3. /\ kept \in Seq(Ages) /\ Len(kept) = Len(recent) - n
      /\ \A i \in 1..Len(kept) : kept[i] = recent[n + i]
  BY <1>1, <1>2 DEF Pops
<1>4. Forgotten \in Nat
  BY <1>1 DEF Remembered, Forgotten
<1>5. Forgotten + n = Len(restarts) - Len(kept)
  BY <1>1, <1>2, <1>3 DEF Forgotten
<1>6. ASSUME NEW i \in 1..Len(kept)
      PROVE  kept[i] = restarts[(Forgotten + n) + i].age
  <2>1. i \in Nat /\ n + i \in 1..Len(recent)
    BY <1>1, <1>2, <1>3
  <2>2. Forgotten + (n + i) = (Forgotten + n) + i
    BY <1>2, <1>4, <2>1
  <2> QED
    BY <1>3, <2>1, <2>2 DEF Remembered
<1>7. CASE n = 0
  <2>1. Forgotten + n = Forgotten /\ (kept = <<>> <=> recent = <<>>)
    BY <1>1, <1>3, <1>4, <1>7
  <2> QED
    BY <1>3, <1>4, <1>5, <1>6, <2>1 DEF Parted
<1>8. CASE n # 0
  <2>1. n \in 1..Len(recent) /\ n \in 1..n
    BY <1>1, <1>2, <1>8
  <2>2. restarts[Forgotten + n].age = RestartWindow
    BY <2>1 DEF Remembered, Pops
  <2> QED
    BY <1>2, <1>3, <1>4, <1>5, <1>6, <2>2
<1> QED
  BY <1>7, <1>8

(* The history keeps one restart more than the limit.                      *)
LEMMA LastOnesOf ==
  ASSUME NEW s \in Seq(Restarts), Len(s) > 0, Len(s) <= RestartLimit + 2
  PROVE  \E d \in {0, 1} :
           /\ LastOnes(s) \in Seq(Restarts)
           /\ Len(LastOnes(s)) = Len(s) - d /\ Len(s) - d <= RestartLimit + 1
           /\ \A i \in 1..(Len(s) - d) : LastOnes(s)[i] = s[i + d]
           /\ d = 1 => Len(s) = RestartLimit + 2
<1> USE BrakeAssumption
<1>1. CASE Len(s) > RestartLimit + 1
  <2>1. LastOnes(s) = Tail(s) /\ Len(s) = RestartLimit + 2
    BY <1>1 DEF LastOnes
  <2> QED
    BY <2>1
<1>2. CASE ~ (Len(s) > RestartLimit + 1)
  <2>1. LastOnes(s) = s
    BY <1>2 DEF LastOnes
  <2> QED
    BY <1>2, <2>1
<1> QED
  BY <1>1, <1>2

(* A tick ages what is recorded and what is remembered alike.              *)
LEMMA TickKeepsBrakeInv ==
  ASSUME BrakeInv, BrakeTick
  PROVE  BrakeInv'
<1> USE BrakeAssumption
<1> DEFINE r == Len(recent)
           s == Len(restarts)
<1>1. /\ r \in Nat /\ s \in Nat /\ s <= RestartLimit + 1 /\ r <= RestartLimit
      /\ \A i \in 1..r : recent[i] \in Ages
      /\ \A i \in 1..s : restarts[i] \in Restarts
  BY DEF BrakeInv, BrakeTypes
<1>2. \A a \in Ages : Older(a) \in Ages /\ Older(a) >= a
  BY DEF Older, Ages
<1>3. \A a, b \in Ages : a <= b => Older(a) <= Older(b)
  BY DEF Older, Ages
<1>4. /\ recent' \in Seq(Ages) /\ Len(recent') = r
      /\ \A i \in 1..r : recent'[i] = Older(recent[i])
  <2>1. recent' = [i \in 1..r |-> Older(recent[i])]
    BY DEF BrakeTick, BrakeInv, BrakeTypes
  <2>2. recent' \in [1..r -> Ages]
    BY <1>1, <1>2, <2>1
  <2> QED
    BY <1>1, <2>1, <2>2, AsSequence
<1>5. /\ restarts' \in Seq(Restarts) /\ Len(restarts') = s
      /\ \A i \in 1..s : /\ restarts'[i].age = Older(restarts[i].age)
                         /\ restarts'[i].cooled = restarts[i].cooled
  <2>1. /\ DOMAIN restarts = 1..s
        /\ restarts' = [i \in 1..s |-> [restarts[i] EXCEPT !.age = Older(@)]]
    BY DEF BrakeTick, BrakeInv, BrakeTypes
  <2>2. ASSUME NEW i \in 1..s
        PROVE  /\ restarts'[i] \in Restarts
               /\ restarts'[i].age = Older(restarts[i].age)
               /\ restarts'[i].cooled = restarts[i].cooled
    BY <1>1, <1>2, <2>1 DEF Restarts
  <2>3. restarts' \in [1..s -> Restarts]
    BY <2>1, <2>2
  <2> QED
    BY <1>1, <2>2, <2>3, AsSequence
<1>6. /\ respawnAt \in 0..Unset /\ respawnAt' \in 0..Unset
      /\ respawnAt' # Unset <=> respawnAt # Unset
  BY DEF BrakeTick, BrakeInv, BrakeTypes, Unset
<1>7. recent' = <<>> <=> recent = <<>>
  <2>1. recent \in Seq(Ages)
    BY DEF BrakeInv, BrakeTypes
  <2> QED
    BY <1>4, <2>1
<1>8. Forgotten' = Forgotten /\ Forgotten = s - r /\ Forgotten \in Nat
  BY <1>1, <1>4, <1>5 DEF Forgotten, BrakeInv, Remembered
<1> HIDE DEF r, s
<1>9. BrakeTypes'
  BY <1>1, <1>4, <1>5, <1>6 DEF BrakeTypes, Unset
<1>10. Remembered'
  <2> SUFFICES ASSUME NEW i \in 1..r
               PROVE  recent'[i] = restarts'[Forgotten + i].age
    BY <1>4, <1>8 DEF Remembered
  <2>1. Forgotten + i \in 1..s
    BY <1>1, <1>8
  <2>2. recent[i] = restarts[Forgotten + i].age
    BY DEF BrakeInv, Remembered, r
  <2> QED
    BY <1>4, <1>5, <2>1, <2>2
<1>11. OldestFirst'
  <2> SUFFICES ASSUME NEW i \in 1..s, NEW j \in 1..s, i < j
               PROVE  restarts'[j].age <= restarts'[i].age
    BY <1>5 DEF OldestFirst
  <2>1. restarts[j].age <= restarts[i].age
    BY DEF BrakeInv, OldestFirst, s
  <2>2. restarts[i].age \in Ages /\ restarts[j].age \in Ages
    BY <1>1 DEF Restarts
  <2> QED
    BY <1>3, <1>5, <2>1, <2>2
<1>12. Parted'
  <2> SUFFICES ASSUME Forgotten > 0
               PROVE  \/ restarts'[Forgotten].age = RestartWindow
                      \/ recent # <<>> /\ restarts'[Forgotten + 1].cooled
                      \/ recent = <<>> /\ respawnAt # Unset
    BY <1>6, <1>7, <1>8 DEF Parted
  <2>1. Forgotten \in 1..s /\ restarts[Forgotten].age \in Ages
    BY <1>1, <1>8 DEF Restarts
  <2>2. recent # <<>> => Forgotten + 1 \in 1..s
    <3>1. recent # <<>> => r # 0
      BY DEF BrakeInv, BrakeTypes, r
    <3> QED
      BY <1>1, <1>8, <3>1
  <2>3. Older(RestartWindow) = RestartWindow
    BY DEF Older
  <2>4. Parted
    BY DEF BrakeInv
  <2> QED
    BY <1>5, <2>1, <2>2, <2>3, <2>4 DEF Parted
<1>13. ClearedToCool'
  BY <1>6, <1>7 DEF BrakeInv, ClearedToCool
<1>14. BurstIsParted'
  <2> SUFFICES ASSUME s > RestartLimit, restarts'[s].age = 0
               PROVE  restarts'[1].age = RestartWindow
    BY <1>5 DEF BurstIsParted
  <2>1. 1 \in 1..s /\ s \in 1..s
    BY <1>1
  <2>2. restarts[s].age \in Ages /\ Older(restarts[s].age) = 0
    BY <1>1, <1>5, <2>1 DEF Restarts
  <2>3. RestartWindow = 0
    BY <2>2 DEF Older, Ages
  <2>4. restarts'[1].age \in Ages
    BY <1>1, <1>2, <1>5, <2>1 DEF Restarts
  <2> QED
    BY <2>3, <2>4 DEF Ages
<1> QED
  BY <1>9, <1>10, <1>11, <1>12, <1>13, <1>14 DEF BrakeInv

(* A restart that is allowed joins the record and the history.             *)
LEMMA RestartKeepsBrakeInv ==
  ASSUME BrakeInv, Allow, RespawnOrDefer
  PROVE  BrakeInv'
<1> USE BrakeAssumption
<1> DEFINE s == Len(restarts)
           r == [age |-> 0, cooled |-> respawnAt # Unset]
           all == Append(restarts, r)
<1>1. /\ restarts \in Seq(Restarts) /\ s \in Nat /\ s <= RestartLimit + 1
      /\ respawnAt \in 0..Unset
      /\ \A i \in 1..s : restarts[i] \in Restarts /\ restarts[i].age \in Nat
  <2>1. restarts \in Seq(Restarts) /\ s <= RestartLimit + 1 /\ respawnAt \in 0..Unset
    BY DEF BrakeInv, BrakeTypes
  <2>2. \A i \in 1..s : restarts[i] \in Restarts
    BY <2>1
  <2>3. \A restart \in Restarts : restart.age \in Nat
    BY DEF Restarts, Ages
  <2> QED
    BY <2>1, <2>2, <2>3
<1>2. PICK n \in 0..Len(recent) : Pops(n, InWindow)
  BY PoppedFromTheFront DEF BrakeInv
<1>3. Len(InWindow) < RestartLimit
  BY DEF Allow
<1>4. /\ recent' = Append(InWindow, 0) /\ respawnAt' = Unset
      /\ restarts' = LastOnes(all)
  BY DEF RespawnOrDefer
<1> DEFINE k == Len(InWindow)
           m == Forgotten + n
<1>5. /\ InWindow \in Seq(Ages) /\ k = Len(recent) - n /\ k \in Nat
      /\ m \in Nat /\ m = s - k
      /\ \A i \in 1..k : InWindow[i] = restarts[m + i].age
      /\ m > 0 => \/ restarts[m].age = RestartWindow
                  \/ InWindow # <<>> /\ restarts[m + 1].cooled
                  \/ recent = <<>> /\ respawnAt # Unset
  BY <1>2, PoppingKeeps DEF BrakeInv
<1>6. InWindow # <<>> => k > 0
  BY <1>5
<1>7. recent = <<>> => k = 0
  BY <1>2, <1>5
<1> HIDE DEF k, m
<1>8. /\ recent' \in Seq(Ages) /\ Len(recent') = k + 1 /\ recent' # <<>>
      /\ \A i \in 1..k : recent'[i] = InWindow[i]
      /\ recent'[k + 1] = 0
  <2>1. 0 \in Ages
    BY DEF Ages
  <2>2. ASSUME NEW q \in Seq(Ages)
        PROVE  /\ Append(q, 0) \in Seq(Ages) /\ Len(Append(q, 0)) = Len(q) + 1
               /\ Append(q, 0) # <<>>
               /\ \A i \in 1..Len(q) : Append(q, 0)[i] = q[i]
               /\ Append(q, 0)[Len(q) + 1] = 0
    BY <2>1
  <2>3. InWindow \in Seq(Ages) /\ recent' = Append(InWindow, 0)
    BY <1>4, <1>5
  <2> QED
    BY <2>2, <2>3 DEF k
<1>9. /\ all \in Seq(Restarts) /\ Len(all) = s + 1
      /\ \A i \in 1..s : all[i] = restarts[i]
      /\ all[s + 1] = r
  <2>1. r \in Restarts
    BY DEF Restarts, Ages
  <2> QED
    BY <1>1, <2>1
<1>10. r.age = 0 /\ (respawnAt # Unset => r.cooled)
  OBVIOUS
<1> HIDE DEF s, r, all
<1>11. PICK d \in {0, 1} :
         /\ restarts' \in Seq(Restarts)
         /\ Len(restarts') = (s + 1) - d /\ (s + 1) - d <= RestartLimit + 1
         /\ \A i \in 1..((s + 1) - d) : restarts'[i] = all[i + d]
         /\ d = 1 => s + 1 = RestartLimit + 2
  <2>1. Len(all) > 0 /\ Len(all) <= RestartLimit + 2
    BY <1>1, <1>9
  <2> QED
    BY <1>4, <1>9, <2>1, LastOnesOf
<1>12. k < RestartLimit /\ d \in Nat /\ d <= 1 /\ m >= d
  <2>1. d = 1 => m > 1
    BY <1>1, <1>3, <1>5, <1>11 DEF k
  <2> QED
    BY <1>3, <1>5, <2>1 DEF k
<1>0. s \in Nat /\ k \in Nat /\ m \in Nat /\ m + k = s
  <2>1. s \in Nat /\ k \in Nat /\ m \in Nat /\ m = s - k
    BY <1>1, <1>5, Zenon
  <2> QED
    BY <2>1
<1>13. Forgotten' = m - d /\ m - d \in Nat
  <2>1. Len(restarts') = (s + 1) - d /\ Len(recent') = k + 1
    BY <1>8, <1>11
  <2> QED
    BY <1>0, <1>12, <2>1 DEF Forgotten
<1>14. BrakeTypes'
  BY <1>4, <1>8, <1>11, <1>12, <1>5 DEF BrakeTypes, Unset
<1>15. Remembered'
  <2> SUFFICES ASSUME NEW i \in 1..(k + 1)
               PROVE  recent'[i] = restarts'[(m - d) + i].age
    BY <1>8, <1>13 DEF Remembered
  <2>1. /\ (m - d) + i \in 1..((s + 1) - d) /\ ((m - d) + i) + d = m + i
        /\ m + i \in Nat /\ i \in Nat
    BY <1>0, <1>12
  <2>2. restarts'[(m - d) + i] = all[m + i]
    BY <1>11, <2>1
  <2>3. CASE i \in 1..k
    <3>1. m + i \in 1..s
      BY <1>0, <2>3
    <3>2. restarts'[(m - d) + i] = restarts[m + i]
      BY <1>9, <2>2, <3>1
    <3>3. recent'[i] = restarts[m + i].age
      BY <1>5, <1>8, <2>3
    <3> QED
      BY <3>2, <3>3
  <2>4. CASE i = k + 1
    <3>1. m + i = s + 1
      BY <1>0, <2>4
    <3> QED
      BY <1>8, <1>9, <1>10, <2>2, <2>4, <3>1
  <2> QED
    BY <1>0, <2>3, <2>4
<1>16. OldestFirst'
  <2>1. ASSUME NEW i \in 1..(s + 1), NEW j \in 1..(s + 1), i < j
        PROVE  all[j].age <= all[i].age
    <3>1. i \in 1..s
      BY <1>1, <2>1
    <3>2. CASE j \in 1..s
      <4>1. restarts[j].age <= restarts[i].age
        BY <2>1, <3>1, <3>2 DEF BrakeInv, OldestFirst, s
      <4> QED
        BY <1>9, <3>1, <3>2, <4>1
    <3>3. CASE j = s + 1
      <4>1. restarts[i].age \in Nat
        BY <1>1, <3>1
      <4> QED
        BY <1>9, <1>10, <3>1, <3>3, <4>1
    <3> QED
      BY <1>1, <3>2, <3>3
  <2> SUFFICES ASSUME NEW i \in 1..((s + 1) - d), NEW j \in 1..((s + 1) - d), i < j
               PROVE  restarts'[j].age <= restarts'[i].age
    BY <1>11 DEF OldestFirst
  <2>2. i + d \in 1..(s + 1) /\ j + d \in 1..(s + 1) /\ i + d < j + d
    BY <1>1, <1>12
  <2> QED
    BY <1>11, <2>1, <2>2
<1>17. m - d > 0 => \/ restarts'[m - d].age = RestartWindow
                    \/ restarts'[(m - d) + 1].cooled
  <2> SUFFICES ASSUME m - d > 0
               PROVE  \/ restarts'[m - d].age = RestartWindow
                      \/ restarts'[(m - d) + 1].cooled
    OBVIOUS
  <2>1. m \in 1..s /\ m > 0 /\ m + 1 \in 1..(s + 1)
    BY <1>0, <1>12
  <2>5. /\ m - d \in 1..((s + 1) - d) /\ (m - d) + d = m
        /\ (m - d) + 1 \in 1..((s + 1) - d) /\ ((m - d) + 1) + d = m + 1
    BY <1>0, <1>12
  <2>6. restarts'[m - d] = all[m] /\ restarts'[(m - d) + 1] = all[m + 1]
    BY <1>11, <2>5
  <2>2. restarts'[m - d] = restarts[m] /\ restarts'[(m - d) + 1] = all[m + 1]
    BY <1>9, <2>1, <2>6
  <2>3. CASE InWindow # <<>> /\ restarts[m + 1].cooled
    <3>1. m + 1 \in 1..s
      BY <1>1, <1>5, <1>6, <2>1, <2>3
    <3> QED
      BY <1>9, <2>2, <2>3, <3>1
  <2>4. CASE recent = <<>> /\ respawnAt # Unset
    <3>1. m + 1 = s + 1
      BY <1>1, <1>5, <1>7, <2>4
    <3> QED
      BY <1>9, <1>10, <2>2, <2>4, <3>1
  <2> QED
    BY <1>5, <2>1, <2>2, <2>3, <2>4
<1>18. Parted'
  BY <1>8, <1>13, <1>17 DEF Parted
<1>19. ClearedToCool'
  BY <1>4 DEF ClearedToCool
<1>20. BurstIsParted'
  <2> SUFFICES ASSUME Len(restarts') > RestartLimit
               PROVE  \/ restarts'[1].age = RestartWindow
                      \/ \E i \in 2..Len(restarts') : restarts'[i].cooled
    BY DEF BurstIsParted
  <2>1. /\ m - d > 0 /\ m - d \in 1..Len(restarts') /\ 1 \in 1..Len(restarts')
        /\ (m - d) + 1 \in 2..Len(restarts')
    <3>1. /\ s \in Nat /\ k \in Nat /\ d \in Nat /\ m = s - k
          /\ (s + 1) - d > RestartLimit /\ k < RestartLimit
      BY <1>1, <1>5, <1>11, <1>12
    <3>2. m - d > 0 /\ m - d <= s - d
      BY <3>1
    <3> QED
      BY <1>11, <1>13, <3>1, <3>2
  <2>2. CASE restarts'[m - d].age = RestartWindow
    <3>1. restarts'[m - d].age <= restarts'[1].age
      <4>1. CASE m - d = 1
        BY <1>11, <2>1, <2>2, <4>1
      <4>2. CASE m - d # 1
        <5>1. 1 < m - d
          BY <1>13, <2>1, <4>2
        <5> QED
          BY <1>16, <2>1, <5>1 DEF OldestFirst
      <4> QED
        BY <4>1, <4>2
    <3>2. restarts'[1] \in Restarts
      BY <1>11, <2>1
    <3>3. restarts'[1].age \in Ages
      BY <3>2 DEF Restarts
    <3> QED
      BY <2>2, <3>1, <3>3 DEF Ages
  <2> QED
    BY <1>17, <2>1, <2>2
<1> QED
  BY <1>14, <1>15, <1>16, <1>18, <1>19, <1>20 DEF BrakeInv

(* One restart more than the limit never fits in a window unless a         *)
(* cooldown lies between, and no cooldown is followed by another before a  *)
(* Renderer ran (generation.rs: RestartBrake::allow).                      *)
THEOREM BurstsAreCut == BrakeSpec => []BurstsAreBraked
<1> USE BrakeAssumption
<1>1. BrakeInit => BrakeInv
  BY DEF BrakeInit, BrakeInv, BrakeTypes, Remembered, Forgotten, OldestFirst, Parted,
         ClearedToCool, BurstIsParted, Unset
<1>2. ASSUME BrakeInv, [BrakeNext]_brakeVars
      PROVE  BrakeInv'
  <2>1. CASE BrakeTick
    BY <1>2, <2>1, TickKeepsBrakeInv
  <2>2. CASE RendererExits \/ UNCHANGED brakeVars
    BY <1>2, <2>2 DEF RendererExits, brakeVars, BrakeInv, BrakeTypes, Remembered,
       Forgotten, OldestFirst, Parted, ClearedToCool, BurstIsParted
  <2>3. CASE RespawnOrDefer
    <3>1. CASE Allow
      BY <1>2, <2>3, <3>1, RestartKeepsBrakeInv
    <3>2. CASE ~Allow
      <4>1. recent' = <<>> /\ respawnAt' = RestartCooldown /\ restarts' = restarts
        BY <2>3, <3>2 DEF RespawnOrDefer
      <4>2. Len(restarts) \in Nat
        BY <1>2 DEF BrakeInv, BrakeTypes
      <4>3. BrakeTypes'
        BY <1>2, <4>1 DEF BrakeInv, BrakeTypes, Unset
      <4>4. Remembered' /\ Parted' /\ ClearedToCool'
        BY <4>1, <4>2 DEF Remembered, Forgotten, Parted, ClearedToCool, Unset
      <4>5. OldestFirst' /\ BurstIsParted'
        BY <1>2, <4>1 DEF BrakeInv, OldestFirst, BurstIsParted
      <4> QED
        BY <4>3, <4>4, <4>5 DEF BrakeInv
    <3> QED
      BY <3>1, <3>2
  <2> QED
    BY <1>2, <2>1, <2>2, <2>3 DEF BrakeNext, DepartureArm, CooldownArm
<1>3. ASSUME BrakeInv
      PROVE  BurstsAreBraked
  <2>1. ASSUME respawnAt = 0
        PROVE  Allow
    <3>1. recent = <<>>
      BY <1>3, <2>1 DEF BrakeInv, ClearedToCool, Unset
    <3>2. PICK n \in 0..Len(recent) : Pops(n, InWindow)
      BY <1>3, PoppedFromTheFront DEF BrakeInv
    <3>3. InWindow = <<>>
      BY <3>1, <3>2 DEF Pops
    <3> QED
      BY <3>3 DEF Allow
  <2> QED
    BY <1>3, <2>1 DEF BrakeInv, BurstIsParted, BurstsAreBraked
<1> QED
  BY <1>1, <1>2, <1>3, PTL DEF BrakeSpec

-----------------------------------------------------------------------------
(* The reader of one output stream, for every maximum and any number of       *)
(* bytes: what was read of the text, parsed line by line, is what was         *)
(* delivered and what is in the line, cut at the maximum.                     *)

Symbols == Bytes \union {Newline}
Parsed  == [full : Seq(Seq(Symbols)), open : Seq(Symbols)]

(* The equation of the function that Parse is the last value of.           *)
Parses(f, text) ==
  f = [i \in 0..Len(text) |-> IF i = 0 THEN NothingRead ELSE Read(f[i - 1], text[i])]

LEMMA NothingIsParsed == NothingRead \in Parsed
<1>1. <<>> \in Seq(Seq(Symbols)) /\ <<>> \in Seq(Symbols)
  OBVIOUS
<1> QED
  BY <1>1 DEF NothingRead, Parsed

LEMMA Cuts ==
  ASSUME NEW s \in Seq(Symbols)
  PROVE  /\ CutLine(s) \in Seq(Symbols)
         /\ Len(s) <= MaxLineBytes => CutLine(s) = s
         /\ Len(CutLine(s)) = IF Len(s) < MaxLineBytes THEN Len(s) ELSE MaxLineBytes
<1> USE LineAssumption
<1> DEFINE m == IF Len(s) < MaxLineBytes THEN Len(s) ELSE MaxLineBytes
<1>1. Len(s) \in Nat /\ m \in 0..Len(s)
  OBVIOUS
<1>2. CutLine(s) = SubSeq(s, 1, m)
  BY DEF CutLine
<1>3. Len(s) <= MaxLineBytes => m = Len(s)
  BY <1>1
<1>4. SubSeq(s, 1, m) \in Seq(Symbols) /\ Len(SubSeq(s, 1, m)) = m
  <2> HIDE DEF m
  <2> QED
    BY <1>1
<1>5. m = Len(s) => SubSeq(s, 1, m) = s
  <2> HIDE DEF m
  <2> QED
    BY SubSeqFull
<1> QED
  BY <1>2, <1>3, <1>4, <1>5

LEMMA NothingIsCut == CutLine(<<>>) = <<>>
<1>1. <<>> \in Seq(Symbols) /\ Len(<<>>) = 0
  OBVIOUS
<1>2. 0 <= MaxLineBytes
  BY LineAssumption
<1> QED
  BY <1>1, <1>2, Cuts

LEMMA ReadIsParsed ==
  ASSUME NEW sofar \in Parsed, NEW byte \in Symbols
  PROVE  Read(sofar, byte) \in Parsed
<1>1. sofar.full \in Seq(Seq(Symbols)) /\ sofar.open \in Seq(Symbols)
  BY DEF Parsed
<1>2. CutLine(sofar.open) \in Seq(Symbols)
  BY <1>1, Cuts
<1>3. CASE byte = Newline
  <2>1. Read(sofar, byte) = [full |-> Append(sofar.full, CutLine(sofar.open)), open |-> <<>>]
    BY <1>3 DEF Read
  <2>2. Append(sofar.full, CutLine(sofar.open)) \in Seq(Seq(Symbols))
    BY <1>1, <1>2
  <2>3. <<>> \in Seq(Symbols)
    OBVIOUS
  <2> QED
    BY <2>1, <2>2, <2>3 DEF Parsed
<1>4. CASE byte # Newline
  <2>1. Read(sofar, byte) = [sofar EXCEPT !.open = Append(sofar.open, byte)]
    BY <1>4 DEF Read
  <2>2. Append(sofar.open, byte) \in Seq(Symbols)
    BY <1>1
  <2> HIDE DEF Symbols
  <2> QED
    BY <2>1, <2>2 DEF Parsed
<1> QED
  BY <1>3, <1>4

LEMMA ParseRec ==
  ASSUME NEW text \in Seq(Symbols)
  PROVE  \E f \in [0..Len(text) -> Parsed] :
           Parses(f, text) /\ Parse(text) = f[Len(text)]
<1> DEFINE n == Len(text)
           Is(f) == Parses(f, text)
           step == [i \in Nat |-> [p \in Parsed |-> IF i \in 1..n THEN Read(p, text[i]) ELSE p]]
<1>0. n \in Nat /\ \A i \in 1..n : text[i] \in Symbols
  OBVIOUS
<1>1. \A i \in 1..n, p \in Parsed : Read(p, text[i]) \in Parsed
  BY <1>0, ReadIsParsed
<1>2. step \in [Nat -> [Parsed -> Parsed]]
  BY <1>1
<1>3. \A i \in 1..n, p \in Parsed : step[i][p] = Read(p, text[i])
  BY <1>0
<1> HIDE DEF step, n
<1>4. PICK f \in [0..n -> Parsed] : f[0] = NothingRead /\ \A i \in 1..n : f[i] = step[i][f[i - 1]]
  <2> DEFINE base == NothingRead
  <2>1. base \in Parsed /\ step \in [Nat -> [Parsed -> Parsed]] /\ n \in Nat
    BY <1>0, <1>2, NothingIsParsed
  <2> HIDE DEF base
  <2>2. Computes(Parsed, base, step, n)
    BY <2>1, Recursion
  <2> QED
    BY <2>2 DEF base, Computes
<1>5. Is(f)
  <2>1. ASSUME NEW i \in 0..n
        PROVE  f[i] = IF i = 0 THEN NothingRead ELSE Read(f[i - 1], text[i])
    <3>1. i = 0 \/ (i \in 1..n /\ i - 1 \in 0..n /\ i # 0)
      BY <1>0
    <3>2. ASSUME i \in 1..n, i - 1 \in 0..n
          PROVE  f[i] = Read(f[i - 1], text[i])
      <4>1. f[i - 1] \in Parsed /\ f[i] = step[i][f[i - 1]]
        BY <1>4, <3>2
      <4> QED
        BY <1>3, <3>2, <4>1
    <3> QED
      BY <1>4, <3>1, <3>2
  <2> QED
    BY <1>4, <2>1 DEF n, Parses
<1>6. Parse(text) = (CHOOSE g : Is(g))[n]
  BY DEF Parse, n, Parses
<1>7. Is(CHOOSE g : Is(g))
  BY <1>5
<1> DEFINE h == CHOOSE g : Is(g)
<1>8. h = [i \in 0..n |-> IF i = 0 THEN NothingRead ELSE Read(h[i - 1], text[i])]
  BY <1>7 DEF n, Parses
<1> HIDE DEF h
<1> DEFINE S == {i \in Nat : i <= n => h[i] \in Parsed}
<1>9. 0 \in S
  BY <1>0, <1>8, NothingIsParsed
<1>10. ASSUME NEW i \in Nat, i \in S PROVE i + 1 \in S
  <2> SUFFICES ASSUME i + 1 <= n PROVE h[i + 1] \in Parsed
    OBVIOUS
  <2>1. i + 1 \in 0..n /\ i + 1 # 0 /\ i + 1 \in 1..n /\ (i + 1) - 1 = i /\ i <= n
    BY <1>0
  <2>2. h[i + 1] = Read(h[i], text[i + 1])
    BY <1>8, <2>1
  <2> QED
    BY <1>1, <1>10, <2>1, <2>2
<1> HIDE DEF S
<1>11. Nat \subseteq S
  BY <1>9, <1>10, SetInduction
<1>12. \A i \in 0..n : h[i] \in Parsed
  BY <1>0, <1>11 DEF S
<1>13. h \in [0..n -> Parsed]
  <2>1. h = [i \in 0..n |-> h[i]]
    BY <1>8, Zenon
  <2> QED
    BY <1>12, <2>1
<1> QED
  BY <1>6, <1>7, <1>13 DEF h, n

(* A text is parsed byte by byte.                                          *)
LEMMA ParseOfNothing == Parse(<<>>) = NothingRead
<1>1. <<>> \in Seq(Symbols) /\ Len(<<>>) = 0
  OBVIOUS
<1>2. PICK f \in [0..0 -> Parsed] : Parses(f, <<>>) /\ Parse(<<>>) = f[0]
  BY <1>1, ParseRec
<1> QED
  BY <1>1, <1>2 DEF Parses

LEMMA ParseOfMore ==
  ASSUME NEW text \in Seq(Symbols), NEW byte \in Symbols
  PROVE  Parse(Append(text, byte)) = Read(Parse(text), byte) /\ Parse(text) \in Parsed
<1> DEFINE n == Len(text)
           more == Append(text, byte)
<1>1. /\ n \in Nat /\ more \in Seq(Symbols) /\ Len(more) = n + 1
      /\ \A i \in 1..n : more[i] = text[i]
      /\ more[n + 1] = byte
  OBVIOUS
<1>2. PICK f \in [0..n -> Parsed] : Parses(f, text) /\ Parse(text) = f[n]
  BY ParseRec
<1>3. PICK g \in [0..(n + 1) -> Parsed] : Parses(g, more) /\ Parse(more) = g[n + 1]
  BY <1>1, ParseRec
<1>4. f[0] = NothingRead /\ \A i \in 1..n : f[i] = Read(f[i - 1], text[i])
  <2>1. f = [i \in 0..n |-> IF i = 0 THEN NothingRead ELSE Read(f[i - 1], text[i])]
    BY <1>2 DEF Parses
  <2>2. n \in Nat
    BY <1>1
  <2> HIDE DEF n, more
  <2> QED
    BY <2>1, <2>2
<1> HIDE DEF more
<1>5. g[0] = NothingRead /\ \A i \in 1..(n + 1) : g[i] = Read(g[i - 1], more[i])
  <2>1. g = [i \in 0..(n + 1) |-> IF i = 0 THEN NothingRead ELSE Read(g[i - 1], more[i])]
    BY <1>1, <1>3 DEF Parses
  <2> HIDE DEF n
  <2> QED
    BY <1>1, <2>1
<1> HIDE DEF n
<1> DEFINE S == {i \in Nat : i <= n => g[i] = f[i]}
<1>6. 0 \in S
  BY <1>4, <1>5
<1>7. ASSUME NEW i \in Nat, i \in S PROVE i + 1 \in S
  <2> SUFFICES ASSUME i + 1 <= n PROVE g[i + 1] = f[i + 1]
    OBVIOUS
  <2>1. i + 1 \in 1..n /\ i + 1 \in 1..(n + 1) /\ (i + 1) - 1 = i /\ i <= n
    BY <1>1
  <2>2. g[i] = f[i] /\ more[i + 1] = text[i + 1]
    BY <1>1, <1>7, <2>1
  <2> QED
    BY <1>4, <1>5, <2>1, <2>2
<1> HIDE DEF S
<1>8. g[n] = f[n]
  <2>1. n \in S
    BY <1>1, <1>6, <1>7, SetInduction
  <2> QED
    BY <1>1, <2>1 DEF S
<1>9. g[n + 1] = Read(g[n], byte)
  <2>1. n + 1 \in 1..(n + 1) /\ (n + 1) - 1 = n
    BY <1>1
  <2> QED
    BY <1>1, <1>5, <2>1
<1>10. f[n] \in Parsed
  BY <1>1, <1>2
<1> QED
  BY <1>2, <1>3, <1>8, <1>9, <1>10 DEF n, more

(* What is delivered is what was parsed, but that the end of the stream    *)
(* delivers the line the text left open.                                   *)
LineTypes ==
  /\ written \in Seq(Symbols) /\ taken \in 0..Len(written)
  /\ line \in Seq(Symbols) /\ lines \in Seq(Seq(Symbols))

Sofar == Parse(SubSeq(written, 1, taken))

InTheText == lines = Sofar.full /\ line = CutLine(Sofar.open)

AtTheEnd ==
  /\ closed /\ taken = Len(written)
  /\ Sofar.open # <<>> /\ line = <<>>
  /\ lines = Append(Sofar.full, CutLine(Sofar.open))

(* The rest of a line is dropped only when the line is full.               *)
LineInv ==
  /\ LineTypes /\ (InTheText \/ AtTheEnd)
  /\ discarding => Len(line) = MaxLineBytes

LEMMA SofarIsParsed ==
  ASSUME LineTypes
  PROVE  Sofar \in Parsed /\ Sofar.full \in Seq(Seq(Symbols)) /\ Sofar.open \in Seq(Symbols)
<1> DEFINE text == SubSeq(written, 1, taken)
<1>1. text \in Seq(Symbols)
  BY DEF LineTypes
<1> HIDE DEF text
<1>2. PICK f \in [0..Len(text) -> Parsed] : Parses(f, text) /\ Parse(text) = f[Len(text)]
  BY <1>1, ParseRec
<1>3. Parse(text) \in Parsed
  BY <1>1, <1>2
<1> QED
  BY <1>3 DEF Sofar, Parsed, text

(* Bytes of one line are added to the open one.                            *)
LEMMA ParseOfChunk ==
  ASSUME LineTypes, NEW k \in Nat, taken + k <= Len(written),
         \A i \in 1..k : written[taken + i] # Newline
  PROVE  Parse(SubSeq(written, 1, taken + k)) =
           [full |-> Sofar.full, open |-> Sofar.open \o SubSeq(written, taken + 1, taken + k)]
<1> DEFINE Chunk(i) == SubSeq(written, taken + 1, taken + i)
           Text(i)  == SubSeq(written, 1, taken + i)
           With(i)  == [full |-> Sofar.full, open |-> Sofar.open \o Chunk(i)]
           S == {i \in Nat : i <= k => Parse(Text(i)) = With(i)}
<1>1. written \in Seq(Symbols) /\ Len(written) \in Nat /\ taken \in Nat
  BY DEF LineTypes
<1>2. Sofar \in Parsed /\ Sofar.full \in Seq(Seq(Symbols)) /\ Sofar.open \in Seq(Symbols)
  BY SofarIsParsed
<1>3. 0 \in S
  <2>1. Chunk(0) = <<>> /\ Text(0) = SubSeq(written, 1, taken)
    BY <1>1
  <2>2. Sofar.open \o <<>> = Sofar.open
    BY <1>2, ConcatEmptySeq
  <2>3. Sofar = [full |-> Sofar.full, open |-> Sofar.open]
    BY <1>2 DEF Parsed
  <2>4. With(0) = Sofar
    BY <2>1, <2>2, <2>3
  <2> QED
    BY <2>1, <2>4 DEF Sofar
<1>4. ASSUME NEW i \in Nat, i \in S PROVE i + 1 \in S
  <2> SUFFICES ASSUME i + 1 <= k PROVE Parse(Text(i + 1)) = With(i + 1)
    OBVIOUS
  <2> DEFINE t == taken + i
             byte == written[t + 1]
  <2>1. /\ t \in Nat /\ t + 1 <= Len(written) /\ taken + (i + 1) = t + 1 /\ t + 1 \in 1..Len(written)
        /\ t + 1 = taken + (i + 1) /\ i + 1 \in 1..k
    BY <1>1
  <2>2. byte \in Symbols /\ byte # Newline
    <3>1. byte \in Symbols
      BY <1>1, <2>1
    <3>2. written[taken + (i + 1)] # Newline
      BY <2>1
    <3> QED
      BY <2>1, <3>1, <3>2
  <2>3. Text(i) \in Seq(Symbols) /\ Chunk(i) \in Seq(Symbols)
    BY <1>1, <2>1
  <2>4. Text(i + 1) = Append(Text(i), byte)
    <3>1. 1 \in 1..Len(written) /\ t + 1 \in 1..Len(written) /\ (t + 1) - 1 = t
      BY <1>1, <2>1
    <3>2. SubSeq(written, 1, t + 1) = SubSeq(written, 1, t) \o <<byte>>
      BY <1>1, <3>1, SubSeqRecursiveSecond
    <3> QED
      BY <2>1, <2>2, <2>3, <3>2, AppendIsConcat
  <2>5. Chunk(i + 1) = Chunk(i) \o <<byte>>
    <3>1. taken + 1 \in 1..Len(written) /\ t + 1 \in (taken + 1)..Len(written) /\ (t + 1) - 1 = t
      BY <1>1, <2>1
    <3>2. SubSeq(written, taken + 1, t + 1) = SubSeq(written, taken + 1, t) \o <<byte>>
      BY <1>1, <3>1, SubSeqRecursiveSecond
    <3> QED
      BY <2>1, <3>2
  <2>6. Parse(Text(i)) = With(i)
    BY <1>4, <2>1
  <2> HIDE DEF Text, Chunk, byte
  <2>7. Parse(Text(i + 1)) = Read(Parse(Text(i)), byte)
    BY <2>2, <2>3, <2>4, ParseOfMore
  <2>8. Read(With(i), byte) = [With(i) EXCEPT !.open = Append(With(i).open, byte)]
    BY <2>2 DEF Read
  <2>9. With(i).open = Sofar.open \o Chunk(i)
    OBVIOUS
  <2>10. Append(Sofar.open \o Chunk(i), byte) = Sofar.open \o Chunk(i + 1)
    <3> DEFINE a == Sofar.open
               c == Chunk(i)
               b == <<byte>>
    <3>1. a \in Seq(Symbols) /\ c \in Seq(Symbols) /\ b \in Seq(Symbols) /\ a \o c \in Seq(Symbols)
      BY <1>2, <2>2, <2>3
    <3>2. Append(a \o c, byte) = (a \o c) \o b
      BY <2>2, <3>1, AppendIsConcat
    <3> HIDE DEF a, b, c
    <3>3. (a \o c) \o b = a \o (c \o b)
      BY <3>1, ConcatAssociative
    <3> QED
      BY <2>5, <3>2, <3>3 DEF a, b, c
  <2> QED
    BY <2>6, <2>7, <2>8, <2>9, <2>10
<1> HIDE DEF S
<1>5. k \in S
  BY <1>3, <1>4, SetInduction
<1> QED
  BY <1>5 DEF S

(* A chunk of the text that ends no line, but perhaps with its last byte.  *)
LEMMA ParseOfRead ==
  ASSUME LineTypes, NEW limit, NEW k \in Chunks(limit)
  PROVE  /\ k \in 1..Len(Available) /\ k <= limit /\ taken + k \in 0..Len(written)
         /\ SubSeq(Available, 1, k) \in Seq(Symbols) /\ Len(SubSeq(Available, 1, k)) = k
         /\ SubSeq(Available, 1, k - 1) \in Seq(Symbols) /\ Len(SubSeq(Available, 1, k - 1)) = k - 1
         /\ Available[k] # Newline =>
              Parse(SubSeq(written, 1, taken + k)) =
                [full |-> Sofar.full, open |-> Sofar.open \o SubSeq(Available, 1, k)]
         /\ Available[k] = Newline =>
              Parse(SubSeq(written, 1, taken + k)) =
                [full |-> Append(Sofar.full, CutLine(Sofar.open \o SubSeq(Available, 1, k - 1))),
                 open |-> <<>>]
<1> DEFINE n == Len(written)
           a == Available
<1>1. written \in Seq(Symbols) /\ n \in Nat /\ taken \in Nat /\ taken <= n
  BY DEF LineTypes
<1>2. /\ a \in Seq(Symbols) /\ Len(a) = n - taken
      /\ \A i \in 1..(n - taken) : a[i] = written[taken + i]
  <2>1. /\ Available \in Seq(Symbols) /\ Len(Available) = n - taken
        /\ \A i \in 1..(n - taken) : Available[i] = written[i + taken]
    BY <1>1 DEF Available
  <2> QED
    BY <1>1, <2>1
<1>3. k \in 1..Len(a) /\ k <= limit /\ \A i \in 1..(k - 1) : a[i] # Newline
  BY DEF Chunks
<1> HIDE DEF n, a
<1>4. k \in Nat /\ k >= 1 /\ taken + k \in 0..n /\ taken + k <= n /\ k - 1 \in Nat /\ taken + (k - 1) <= n
  BY <1>1, <1>2, <1>3
<1>5. ASSUME NEW j \in 0..k
      PROVE  /\ SubSeq(a, 1, j) \in Seq(Symbols) /\ Len(SubSeq(a, 1, j)) = j
             /\ SubSeq(a, 1, j) = SubSeq(written, taken + 1, taken + j)
  <2> DEFINE s == SubSeq(a, 1, j)
             t == SubSeq(written, taken + 1, taken + j)
  <2>1. s \in Seq(Symbols) /\ Len(s) = j /\ \A i \in 1..j : s[i] = a[i]
    BY <1>2, <1>3, <1>4
  <2>2. t \in Seq(Symbols) /\ Len(t) = j /\ \A i \in 1..j : t[i] = written[i + taken]
    <3>1. j \in Nat /\ taken + j <= n /\ (taken + j) - (taken + 1) + 1 = j
      BY <1>1, <1>4
    <3> QED
      BY <1>1, <3>1 DEF n
  <2> HIDE DEF s, t
  <2>3. \A i \in 1..j : i + taken = taken + i /\ i \in 1..(n - taken)
    BY <1>1, <1>2, <1>3, <1>4
  <2>4. \A i \in 1..j : s[i] = t[i]
    BY <1>2, <2>1, <2>2, <2>3
  <2>5. s = t
    BY <2>1, <2>2, <2>4, SeqEqual
  <2> QED
    BY <2>1, <2>5 DEF s, t
<1>6. k \in 0..k /\ k - 1 \in 0..k
  BY <1>4
<1>7. \A i \in 1..(k - 1) : written[taken + i] # Newline
  BY <1>2, <1>3, <1>4
<1>8. a[k] = written[taken + k]
  BY <1>2, <1>3
<1>9. ASSUME a[k] # Newline
      PROVE  Parse(SubSeq(written, 1, taken + k)) =
               [full |-> Sofar.full, open |-> Sofar.open \o SubSeq(a, 1, k)]
  <2>1. \A i \in 1..k : written[taken + i] # Newline
    BY <1>4, <1>7, <1>8, <1>9
  <2>2. Parse(SubSeq(written, 1, taken + k)) =
          [full |-> Sofar.full, open |-> Sofar.open \o SubSeq(written, taken + 1, taken + k)]
    BY <1>4, <2>1, ParseOfChunk DEF n
  <2> QED
    BY <1>5, <1>6, <2>2
<1>10. ASSUME a[k] = Newline
       PROVE  Parse(SubSeq(written, 1, taken + k)) =
                [full |-> Append(Sofar.full, CutLine(Sofar.open \o SubSeq(a, 1, k - 1))),
                 open |-> <<>>]
  <2> DEFINE t == taken + (k - 1)
             text == SubSeq(written, 1, t)
             p == [full |-> Sofar.full, open |-> Sofar.open \o SubSeq(a, 1, k - 1)]
  <2>1. Parse(text) = [full |-> Sofar.full, open |-> Sofar.open \o SubSeq(written, taken + 1, t)]
    BY <1>4, <1>7, ParseOfChunk DEF n
  <2>2. Parse(text) = p
    BY <1>5, <1>6, <2>1
  <2>3. SubSeq(written, 1, taken + k) = Append(text, Newline)
    <3>1. /\ 1 \in 1..n /\ taken + k \in 1..n /\ (taken + k) - 1 = t /\ written[taken + k] = Newline
          /\ t \in 0..n
      BY <1>1, <1>4, <1>8, <1>10
    <3>2. SubSeq(written, 1, taken + k) = SubSeq(written, 1, t) \o <<written[taken + k]>>
      BY <1>1, <3>1, SubSeqRecursiveSecond DEF n
    <3>3. text \in Seq(Symbols) /\ Newline \in Symbols
      BY <1>1, <3>1 DEF n, Symbols
    <3> QED
      BY <3>1, <3>2, <3>3, AppendIsConcat
  <2>4. text \in Seq(Symbols) /\ Newline \in Symbols
    BY <1>1, <1>4 DEF n, Symbols
  <2> HIDE DEF text, p
  <2>5. Parse(SubSeq(written, 1, taken + k)) = Read(p, Newline)
    BY <2>2, <2>3, <2>4, ParseOfMore
  <2>6. p.full = Sofar.full /\ p.open = Sofar.open \o SubSeq(a, 1, k - 1)
    BY DEF p
  <2> QED
    BY <2>5, <2>6 DEF Read
<1> QED
  BY <1>2, <1>3, <1>4, <1>5, <1>6, <1>9, <1>10 DEF n, a

LEMMA StartsInTheText == LinesInit => LineInv
<1> SUFFICES ASSUME LinesInit PROVE LineInv
  OBVIOUS
<1>1. written = <<>> /\ taken = 0 /\ line = <<>> /\ lines = <<>> /\ ~discarding
  BY DEF LinesInit
<1>2. /\ <<>> \in Seq(Symbols) /\ <<>> \in Seq(Seq(Symbols)) /\ Len(<<>>) = 0
      /\ SubSeq(<<>>, 1, 0) = <<>>
  OBVIOUS
<1>3. LineTypes
  BY <1>1, <1>2 DEF LineTypes
<1>4. Sofar = NothingRead
  BY <1>1, <1>2, ParseOfNothing DEF Sofar
<1>5. Sofar.full = <<>> /\ Sofar.open = <<>>
  BY <1>4 DEF NothingRead
<1>6. CutLine(<<>>) = <<>>
  BY NothingIsCut
<1> QED
  BY <1>1, <1>3, <1>5, <1>6 DEF LineInv, InTheText

(* A step that takes no byte leaves what was parsed.                       *)
LEMMA SofarStays ==
  ASSUME LineTypes, UNCHANGED taken, NEW rest \in Seq(Symbols), written' = written \o rest
  PROVE  Sofar' = Sofar
<1>1. written \in Seq(Symbols) /\ taken \in 0..Len(written)
  BY DEF LineTypes
<1>2. SubSeq(written', 1, taken) = SubSeq(written, 1, taken)
  <2>1. CASE taken = 0
    <3>1. SubSeq(written', 1, 0) = <<>> /\ SubSeq(written, 1, 0) = <<>>
      BY SubSeqEmpty
    <3> QED
      BY <2>1, <3>1
  <2>2. CASE taken # 0
    <3>1. 1 \in 1..Len(written) /\ taken \in 1..Len(written)
      BY <1>1, <2>2
    <3> QED
      BY <1>1, <3>1, SubSeqOfConcat1
  <2> QED
    BY <2>1, <2>2
<1> QED
  BY <1>2 DEF Sofar

(* While the line is not full it is the open line of the text.             *)
LEMMA OpenIsTheLine ==
  ASSUME LineTypes, InTheText
  PROVE  /\ Len(line) <= MaxLineBytes
         /\ Len(line) < MaxLineBytes => Sofar.open = line
         /\ Len(line) = MaxLineBytes => Len(Sofar.open) >= MaxLineBytes
         /\ line = <<>> <=> Sofar.open = <<>>
<1> DEFINE s == Sofar.open
<1>1. s \in Seq(Symbols) /\ Len(s) \in Nat
  <2>1. s \in Seq(Symbols)
    BY SofarIsParsed
  <2> QED
    BY <2>1, LenProperties
<1>2. line = CutLine(s)
  BY DEF InTheText
<1> HIDE DEF s
<1>3. /\ Len(s) <= MaxLineBytes => CutLine(s) = s
      /\ Len(CutLine(s)) = IF Len(s) < MaxLineBytes THEN Len(s) ELSE MaxLineBytes
  BY <1>1, Cuts
<1>4. /\ Len(line) <= MaxLineBytes
      /\ Len(line) < MaxLineBytes => s = line
      /\ Len(line) = MaxLineBytes => Len(s) >= MaxLineBytes
  BY <1>1, <1>2, <1>3, LineAssumption
<1>5. s = <<>> => line = <<>>
  BY <1>1, <1>2, <1>3, <1>4, LineAssumption, EmptySeq
<1>6. line = <<>> => s = <<>>
  <2>1. Len(<<>>) = 0
    OBVIOUS
  <2> QED
    BY <1>4, <2>1, LineAssumption
<1> QED
  BY <1>4, <1>5, <1>6 DEF s

(* Nothing is added to a line that is cut.                                 *)
LEMMA CutStays ==
  ASSUME NEW s \in Seq(Symbols), NEW t \in Seq(Symbols), Len(s) >= MaxLineBytes
  PROVE  CutLine(s \o t) = CutLine(s)
<1> USE LineAssumption
<1> DEFINE u == s \o t
           m == MaxLineBytes
<1>1. Len(s) \in Nat /\ Len(t) \in Nat /\ u \in Seq(Symbols) /\ Len(u) = Len(s) + Len(t)
  BY ConcatProperties, LenProperties
<1>2. m \in Nat /\ 1 \in 1..Len(s) /\ m \in 1..Len(s) /\ ~ (Len(s) < m /\ Len(s) # m)
  BY <1>1
<1>3. SubSeq(u, 1, m) = SubSeq(s, 1, m)
  BY <1>2, SubSeqOfConcat1
<1> HIDE DEF u
<1>4. CutLine(u) = SubSeq(u, 1, m) /\ CutLine(s) = SubSeq(s, 1, m)
  BY <1>1, <1>2 DEF CutLine
<1> QED
  BY <1>3, <1>4 DEF u

LEMMA LinesStepKeeps == LineInv /\ [LinesNext]_linesVars => LineInv'
<1> SUFFICES ASSUME LineInv, [LinesNext]_linesVars
             PROVE  LineInv'
  OBVIOUS
<1>0. LineTypes /\ Sofar \in Parsed /\ Sofar.full \in Seq(Seq(Symbols)) /\ Sofar.open \in Seq(Symbols)
  BY SofarIsParsed DEF LineInv
<1>1. /\ written \in Seq(Symbols) /\ Len(written) \in Nat /\ taken \in 0..Len(written)
      /\ line \in Seq(Symbols) /\ lines \in Seq(Seq(Symbols)) /\ Len(line) \in Nat
  BY <1>0, LenProperties DEF LineTypes
<1>2. <<>> \in Seq(Symbols) /\ Len(<<>>) = 0 /\ written \o <<>> = written
  BY <1>1, ConcatEmptySeq, EmptySeq
<1>3. UNCHANGED <<written, taken>> => Sofar' = Sofar
  BY DEF Sofar
<1>4. CASE UNCHANGED linesVars
  BY <1>4 DEF linesVars, LineInv, LineTypes, InTheText, AtTheEnd, Sofar
<1>5. ASSUME NEW byte \in Bytes \union {Newline}, Write(byte)
      PROVE  LineInv'
  <2>1. ~closed /\ written' = Append(written, byte)
        /\ UNCHANGED <<closed, taken, line, discarding, lines, streamDone>>
    BY <1>5 DEF Write
  <2>2. byte \in Symbols /\ <<byte>> \in Seq(Symbols)
    BY DEF Symbols
  <2>3. written' = written \o <<byte>>
    BY <1>1, <2>1, <2>2, AppendIsConcat
  <2>4. Sofar' = Sofar
    BY <1>0, <2>1, <2>2, <2>3, SofarStays
  <2>5. written' \in Seq(Symbols) /\ Len(written') = Len(written) + 1
    BY <1>1, <2>1, <2>2, AppendProperties
  <2>6. LineTypes'
    BY <1>1, <2>1, <2>5 DEF LineTypes
  <2>7. InTheText'
    BY <2>1, <2>4 DEF LineInv, InTheText, AtTheEnd
  <2> QED
    BY <2>1, <2>6, <2>7 DEF LineInv
<1>6. CASE CloseOutput
  <2>1. closed' = TRUE /\ UNCHANGED <<written, taken, line, discarding, lines>>
    BY <1>6 DEF CloseOutput
  <2> QED
    BY <1>3, <2>1 DEF LineInv, LineTypes, InTheText, AtTheEnd
<1>7. ASSUME NEW limit, NEW k \in Chunks(limit)
      PROVE  ~AtTheEnd
  <2>1. k \in 1..Len(Available) /\ taken + k \in 0..Len(written)
    BY <1>0, ParseOfRead
  <2> QED
    BY <1>1, <2>1 DEF AtTheEnd
<1>8. ASSUME NEW k \in 1..MaxLineBytes, ReadLine(k)
      PROVE  LineInv'
  <2> DEFINE chunk == SubSeq(Available, 1, k)
             start == SubSeq(Available, 1, k - 1)
             byte  == Available[k]
  <2>1. /\ ~discarding /\ k \in Chunks(Room) /\ taken' = taken + k
        /\ IF byte = Newline
             THEN lines' = Append(lines, line \o start) /\ line' = <<>>
             ELSE line' = line \o chunk /\ lines' = lines
        /\ UNCHANGED <<written, closed, discarding, streamDone>>
    BY <1>8 DEF ReadLine, TakeLine
  <2>2. InTheText
    BY <1>7, <2>1 DEF LineInv
  <2>3. /\ k <= Room /\ taken + k \in 0..Len(written)
        /\ chunk \in Seq(Symbols) /\ Len(chunk) = k
        /\ start \in Seq(Symbols) /\ Len(start) = k - 1
        /\ byte # Newline =>
             Parse(SubSeq(written, 1, taken + k)) = [full |-> Sofar.full, open |-> Sofar.open \o chunk]
        /\ byte = Newline =>
             Parse(SubSeq(written, 1, taken + k)) =
               [full |-> Append(Sofar.full, CutLine(Sofar.open \o start)), open |-> <<>>]
    BY <1>0, <2>1, ParseOfRead
  <2>4. Len(line) < MaxLineBytes /\ Len(line) + k <= MaxLineBytes /\ Len(line) + (k - 1) <= MaxLineBytes
    BY <1>1, <2>3, LineAssumption DEF Room
  <2>5. Sofar.open = line
    BY <1>0, <2>2, <2>4, OpenIsTheLine
  <2>6. Sofar' = Parse(SubSeq(written, 1, taken + k))
    BY <2>1 DEF Sofar
  <2> HIDE DEF chunk, start, byte
  <2>7. lines = Sofar.full
    BY <2>2 DEF InTheText
  <2>8. ASSUME NEW t \in Seq(Symbols), Len(line) + Len(t) <= MaxLineBytes
        PROVE  line \o t \in Seq(Symbols) /\ CutLine(line \o t) = line \o t
    <3>1. line \o t \in Seq(Symbols) /\ Len(line \o t) = Len(line) + Len(t)
      BY <1>1, ConcatProperties
    <3> QED
      BY <2>8, <3>1, Cuts
  <2>9. CASE byte = Newline
    <3>1. line \o start \in Seq(Symbols) /\ CutLine(line \o start) = line \o start
      BY <2>3, <2>4, <2>8
    <3>2. Sofar' = [full |-> Append(lines, line \o start), open |-> <<>>]
      BY <2>3, <2>5, <2>6, <2>7, <2>9, <3>1
    <3>3. lines' = Append(lines, line \o start) /\ line' = <<>>
      BY <2>1, <2>9
    <3>4. lines' \in Seq(Seq(Symbols))
      BY <1>1, <3>1, <3>3, AppendProperties
    <3>5. CutLine(<<>>) = <<>>
      BY NothingIsCut
    <3>6. InTheText'
      BY <3>2, <3>3, <3>5 DEF InTheText
    <3>7. LineTypes'
      BY <1>1, <1>2, <2>1, <2>3, <3>3, <3>4 DEF LineTypes
    <3> QED
      BY <2>1, <3>6, <3>7 DEF LineInv
  <2>10. CASE byte # Newline
    <3>1. line \o chunk \in Seq(Symbols) /\ CutLine(line \o chunk) = line \o chunk
      BY <2>3, <2>4, <2>8
    <3>2. Sofar' = [full |-> lines, open |-> line \o chunk]
      BY <2>3, <2>5, <2>6, <2>7, <2>10
    <3>3. lines' = lines /\ line' = line \o chunk
      BY <2>1, <2>10
    <3>4. InTheText'
      BY <3>1, <3>2, <3>3 DEF InTheText
    <3>5. LineTypes'
      BY <1>1, <2>1, <2>3, <3>1, <3>3 DEF LineTypes
    <3> QED
      BY <2>1, <3>4, <3>5 DEF LineInv
  <2> QED
    BY <2>9, <2>10
<1>9. CASE BeginDiscard
  <2>1. Room = 0 /\ UNCHANGED <<written, closed, taken, line, lines>>
    BY <1>9 DEF BeginDiscard
  <2>2. Len(line') = MaxLineBytes
    BY <1>1, <2>1, LineAssumption DEF Room
  <2> QED
    BY <1>3, <2>1, <2>2 DEF LineInv, LineTypes, InTheText, AtTheEnd
<1>10. ASSUME NEW k \in 1..MaxLineBytes, SkipToNewline(k)
       PROVE  LineInv'
  <2> DEFINE chunk == SubSeq(Available, 1, k)
             start == SubSeq(Available, 1, k - 1)
             byte  == Available[k]
  <2>1. /\ discarding /\ k \in Chunks(MaxLineBytes) /\ taken' = taken + k
        /\ IF byte = Newline
             THEN lines' = Append(lines, line) /\ line' = <<>> /\ discarding' = FALSE
             ELSE UNCHANGED <<line, lines, discarding>>
        /\ UNCHANGED <<written, closed, streamDone>>
    BY <1>10 DEF SkipToNewline, TakeLine
  <2>2. InTheText /\ Len(line) = MaxLineBytes
    BY <1>7, <2>1 DEF LineInv
  <2>3. /\ taken + k \in 0..Len(written)
        /\ chunk \in Seq(Symbols) /\ start \in Seq(Symbols)
        /\ byte # Newline =>
             Parse(SubSeq(written, 1, taken + k)) = [full |-> Sofar.full, open |-> Sofar.open \o chunk]
        /\ byte = Newline =>
             Parse(SubSeq(written, 1, taken + k)) =
               [full |-> Append(Sofar.full, CutLine(Sofar.open \o start)), open |-> <<>>]
    BY <1>0, <2>1, ParseOfRead
  <2>4. Len(Sofar.open) >= MaxLineBytes
    BY <1>0, <2>2, OpenIsTheLine
  <2> HIDE DEF chunk, start, byte
  <2>5. CutLine(Sofar.open \o chunk) = CutLine(Sofar.open) /\ CutLine(Sofar.open \o start) = CutLine(Sofar.open)
    BY <1>0, <2>3, <2>4, CutStays
  <2>6. lines = Sofar.full /\ line = CutLine(Sofar.open)
    BY <2>2 DEF InTheText
  <2>7. Sofar' = Parse(SubSeq(written, 1, taken + k))
    BY <2>1 DEF Sofar
  <2>8. CASE byte = Newline
    <3>1. Sofar' = [full |-> Append(lines, line), open |-> <<>>]
      BY <2>3, <2>5, <2>6, <2>7, <2>8
    <3>2. lines' = Append(lines, line) /\ line' = <<>> /\ ~discarding'
      BY <2>1, <2>8
    <3>3. lines' \in Seq(Seq(Symbols))
      BY <1>1, <3>2, AppendProperties
    <3>4. CutLine(<<>>) = <<>>
      BY NothingIsCut
    <3>5. InTheText'
      BY <3>1, <3>2, <3>4 DEF InTheText
    <3>6. LineTypes'
      BY <1>1, <1>2, <2>1, <2>3, <3>2, <3>3 DEF LineTypes
    <3> QED
      BY <3>2, <3>5, <3>6 DEF LineInv
  <2>9. CASE byte # Newline
    <3>1. Sofar' = [full |-> lines, open |-> Sofar.open \o chunk]
      BY <2>3, <2>6, <2>7, <2>9
    <3>2. UNCHANGED <<line, lines, discarding>>
      BY <2>1, <2>9
    <3>3. InTheText'
      BY <2>5, <2>6, <3>1, <3>2 DEF InTheText
    <3>4. LineTypes'
      BY <1>1, <2>1, <2>3, <3>2 DEF LineTypes
    <3> QED
      BY <2>2, <3>2, <3>3, <3>4 DEF LineInv
  <2> QED
    BY <2>8, <2>9
<1>11. CASE ReadEnd
  <2>1. /\ closed /\ Available = <<>> /\ closed' = closed
        /\ IF line = <<>> THEN UNCHANGED <<line, lines>>
                          ELSE lines' = Append(lines, line) /\ line' = <<>>
        /\ ~discarding' /\ UNCHANGED <<written, taken>>
    BY <1>11 DEF ReadEnd, TakeLine
  <2>2. Sofar' = Sofar
    BY <1>3, <2>1
  <2>3. CASE line = <<>>
    BY <2>1, <2>2, <2>3 DEF LineInv, LineTypes, InTheText, AtTheEnd
  <2>4. CASE line # <<>>
    <3>1. InTheText
      BY <2>4 DEF LineInv, AtTheEnd
    <3>2. lines = Sofar.full /\ line = CutLine(Sofar.open) /\ Sofar.open # <<>>
      BY <1>0, <2>4, <3>1, OpenIsTheLine DEF InTheText
    <3>3. taken = Len(written)
      <4>1. Len(Available) = IF taken + 1 <= Len(written) THEN Len(written) - (taken + 1) + 1 ELSE 0
        BY <1>1 DEF Available
      <4>2. Len(Available) = 0
        BY <1>2, <2>1
      <4> QED
        BY <1>1, <4>1, <4>2
    <3>4. lines' = Append(lines, line) /\ line' = <<>>
      BY <2>1, <2>4
    <3>5. lines' \in Seq(Seq(Symbols))
      BY <1>1, <3>4, AppendProperties
    <3>6. AtTheEnd'
      BY <2>1, <2>2, <3>2, <3>3, <3>4 DEF AtTheEnd
    <3>7. LineTypes'
      BY <1>1, <1>2, <2>1, <3>4, <3>5 DEF LineTypes
    <3> QED
      BY <2>1, <3>6, <3>7 DEF LineInv
  <2> QED
    BY <2>3, <2>4
<1>12. CASE OtherStreamWins
  <2>1. ~discarding' /\ UNCHANGED <<written, closed, taken, line, lines>>
    BY <1>12 DEF OtherStreamWins, KeepsLine
  <2> QED
    BY <1>3, <2>1 DEF LineInv, LineTypes, InTheText, AtTheEnd
<1> QED
  BY <1>4, <1>5, <1>6, <1>8, <1>9, <1>10, <1>11, <1>12 DEF LinesNext

(* LinesAreWhole of OutputLines: the lines delivered are those of the      *)
(* text, in order, none lost, split or joined, for every maximum, however  *)
(* the bytes come and wherever the other stream interrupts (registry.rs:   *)
(* BoundedLines::next_line, discard_to_newline).                           *)
THEOREM LinesComeWhole == LinesSpec => []LinesAreWhole
<1>1. ASSUME LineInv
      PROVE  LinesAreWhole
  <2>1. LineTypes
    BY <1>1 DEF LineInv
  <2>2. LinesOf(SubSeq(written, 1, taken)) =
          IF Sofar.open = <<>> THEN Sofar.full ELSE Append(Sofar.full, CutLine(Sofar.open))
    BY DEF LinesOf, Sofar
  <2>3. CASE InTheText
    <3>1. line = <<>> <=> Sofar.open = <<>>
      BY <2>1, <2>3, OpenIsTheLine
    <3> QED
      BY <2>2, <2>3, <3>1 DEF InTheText, LinesAreWhole
  <2>4. CASE AtTheEnd
    BY <2>2, <2>4 DEF AtTheEnd, LinesAreWhole
  <2> QED
    BY <1>1, <2>3, <2>4 DEF LineInv
<1>2. LineInv /\ [LinesNext]_linesVars => LineInv'
  BY LinesStepKeeps
<1> QED
  BY <1>1, <1>2, StartsInTheText, PTL DEF LinesSpec
=============================================================================
