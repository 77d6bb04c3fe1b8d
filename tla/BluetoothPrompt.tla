-------------------------- MODULE BluetoothPrompt --------------------------
(* The pairing agent: the one slot for a request on screen, the BlueZ calls  *)
(* that wait for its answer, and the grace in which a new card ignores a     *)
(* yes (capabilities/bluetooth/agent.rs, the prompt half of controller.rs).  *)
(*                                                                           *)
(* n numbers the requests as BlueZ makes them, which the frames do not.      *)
(* Whether a device is invited is BlueZ's and the user's, a free choice.     *)
EXTENDS Naturals

CONSTANTS Macs,            \* devices
          AcceptGrace,     \* ACCEPT_GRACE, in ticks
          Transit,         \* ticks a change takes to the screen, and a click from it
          LastRequest      \* bound: requests made

\* The grace outlasts both ways.
ASSUME TransitAssumption ==
  /\ Transit \in Nat /\ AcceptGrace \in Nat /\ 2 * Transit < AcceptGrace
  /\ LastRequest \in Nat

VARIABLES asking,          \* requests whose device is being looked up: [n, mac, waits]
          requested,       \* requests made so far
          prompt,          \* PromptSlot: the request shown, and for how long
          answered,        \* n -> where the call stands, and the card whose click settled it
          changed,         \* ticks left for PairingChanged to be shown, Quiet without one
          card,            \* the request the screen shows
          click            \* a click on its way: what was shown, its answer, ticks left

promptVars == <<asking, requested, prompt, answered, changed, card, click>>

Requests == 1..LastRequest
Quiet    == Transit + 1
NoCard   == [n |-> 0, mac |-> "none"]
NoPrompt == [n |-> 0, mac |-> "none", waits |-> FALSE, age |-> 0]
Unasked  == [is |-> "unasked", card |-> 0]
Waiting  == [is |-> "waiting", card |-> 0]
Rejected == [is |-> "rejected", card |-> 0]
Allowed(n) == [is |-> "allowed", card |-> n]
NoClick  == [card |-> NoCard, accept |-> FALSE, left |-> Quiet]

PromptInit ==
  /\ asking = {} /\ requested = 0
  /\ prompt = NoPrompt
  /\ answered = [n \in Requests |-> Unasked]
  /\ changed = Quiet /\ card = NoCard /\ click = NoClick

PairingChanged == changed' = IF changed = Quiet THEN Transit ELSE changed

\* The slot's sender is used or dropped; the call that waits is told either way.
TakeDown(verdict) ==
  /\ prompt' = NoPrompt
  /\ answered' = IF prompt.waits THEN [answered EXCEPT ![prompt.n] = verdict] ELSE answered
  /\ PairingChanged

Reject(request) ==
  answered' = IF request.waits THEN [answered EXCEPT ![request.n] = Rejected] ELSE answered

-----------------------------------------------------------------------------
\* RequestConfirmation, RequestAuthorization, AuthorizeService wait; a Display* does not.
BluezAsks(mac, waits) ==
  /\ requested < LastRequest /\ requested' = requested + 1
  /\ asking' = asking \cup {[n |-> requested', mac |-> mac, waits |-> waits]}
  /\ answered' = IF waits THEN [answered EXCEPT ![requested'] = Waiting] ELSE answered
  /\ UNCHANGED <<prompt, changed, card, click>>

IsFree(request) == prompt.n = 0 \/ (~prompt.waits /\ request.waits)

Show(request) ==
  /\ request \in asking /\ asking' = asking \ {request}
  /\ IF IsFree(request)
       THEN /\ prompt' = [n |-> request.n, mac |-> request.mac, waits |-> request.waits, age |-> 0]
            /\ PairingChanged
            /\ UNCHANGED answered
       ELSE /\ Reject(request)
            /\ UNCHANGED <<prompt, changed>>
  /\ UNCHANGED <<requested, card, click>>

\* Its device was not invited.
Refuse(request) ==
  /\ request \in asking /\ asking' = asking \ {request}
  /\ Reject(request)
  /\ UNCHANGED <<requested, prompt, changed, card, click>>

\* Agent1.Cancel answers no to whatever is showing.
BluezCancels ==
  /\ prompt.n # 0 /\ TakeDown(Rejected)
  /\ UNCHANGED <<asking, requested, card, click>>

\* The pairing call ended, or the device reads Paired: a code display comes down.
ClearDisplay(mac) ==
  /\ prompt.n # 0 /\ ~prompt.waits /\ prompt.mac = mac
  /\ TakeDown(Rejected)
  /\ UNCHANGED <<asking, requested, card, click>>

-----------------------------------------------------------------------------
\* The signal's handler reads the slot; the card is drawn.
ShowCard ==
  /\ changed # Quiet /\ changed' = Quiet
  /\ card' = [n |-> prompt.n, mac |-> prompt.mac]
  /\ UNCHANGED <<asking, requested, prompt, answered, click>>

UserClicks(accept) ==
  /\ card # NoCard /\ click = NoClick
  /\ click' = [card |-> card, accept |-> accept, left |-> Transit]
  /\ UNCHANGED <<asking, requested, prompt, answered, changed, card>>

\* Wrong on purpose, for mutation: a fresh card takes a yes like any other.
NeverTooSoon == FALSE
TooSoon == click.accept /\ prompt.age < AcceptGrace

AnswerPairing ==
  /\ click # NoClick /\ click' = NoClick
  /\ IF prompt.n # 0 /\ prompt.mac = click.card.mac /\ ~TooSoon
       THEN TakeDown(IF click.accept THEN Allowed(click.card.n) ELSE Rejected)
       ELSE UNCHANGED <<prompt, answered, changed>>
  /\ UNCHANGED <<asking, requested, card>>

PromptTick ==
  /\ changed # 0 /\ click.left # 0
  /\ prompt' = [prompt EXCEPT !.age = IF prompt.n # 0 /\ @ < AcceptGrace THEN @ + 1 ELSE @]
  /\ changed' = IF changed = Quiet THEN Quiet ELSE changed - 1
  /\ click' = [click EXCEPT !.left = IF @ = Quiet THEN Quiet ELSE @ - 1]
  /\ UNCHANGED <<asking, requested, answered, card>>

PromptNext ==
  \/ \E mac \in Macs, waits \in BOOLEAN : BluezAsks(mac, waits)
  \/ \E request \in asking : Show(request) \/ Refuse(request)
  \/ BluezCancels
  \/ \E mac \in Macs : ClearDisplay(mac)
  \/ ShowCard \/ PromptTick \/ AnswerPairing
  \/ \E accept \in BOOLEAN : UserClicks(accept)

PromptSpec == PromptInit /\ [][PromptNext]_promptVars

-----------------------------------------------------------------------------
(* A call BlueZ waits on is on screen, or on its way there, until it is      *)
(* answered, and a yes it gets was clicked on its own card, though another   *)
(* request of the same device may have stood there when the click was made   *)
(* (agent.rs: show, answer, ACCEPT_GRACE).                                   *)
YesIsForTheCardSeen ==
  \A n \in 1..requested :
    /\ answered[n] = Waiting => prompt.n = n \/ n \in {request.n : request \in asking}
    /\ answered[n].is = "allowed" => answered[n].card = n
=============================================================================
