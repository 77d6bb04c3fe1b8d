-------------------------- MODULE PolkitChallenge --------------------------
(***************************************************************************)
(* mantle.polkit: polkitd's authentication calls (external), the agent     *)
(* that forwards each from a D-Bus task of its own, the controller that    *)
(* admits one challenge at a time, the root helper's conversations         *)
(* (external) and the dialog on a Renderer that may be replaced, composed  *)
(* with the channel its state is published over.                           *)
(***************************************************************************)
EXTENDS SnapshotChannel

CONSTANTS
  Cookies,          (* polkitd names each call with a cookie of its own     *)
  Polkit,           (* the capability                                       *)
  NoCookie,
  MaxFrames         (* bound: frames the dialog ever sends                  *)

ASSUME PolkitAssumption ==
  /\ Polkit \in Capabilities
  /\ NoCookie \notin Cookies
  /\ MaxFrames \in Nat

Requests == [kind: {"begin", "cancel"}, cookie: Cookies]

VARIABLES
  call,             (* polkitd's view of each BeginAuthentication call      *)
  requests,         (* calls on their way to the loop.  Each is forwarded   *)
                    (* by a D-Bus task of its own, so agent_requests holds  *)
                    (* them in no particular order                          *)
  pending,          (* PolkitController.pending's cookie                    *)
  authenticating,   (* PolkitState.authenticating                           *)
  failed,           (* PolkitState.error is not empty                       *)
  helpers,          (* helper conversations still running                   *)
  outcomes,         (* answers on their way to the loop, likewise           *)
  frames,           (* inbound frames from the dialog                       *)
  sent,             (* frames sent so far                                   *)
  withdrawn,        (* history: calls polkitd cancelled                     *)
  overtaken,        (* history: cancels read before the begin they withdraw *)
  vouched           (* history: cookies the helper told polkitd to accept   *)

agentVars      == <<call, requests, withdrawn, overtaken>>
controllerVars == <<pending, authenticating, failed>>
helperVars     == <<helpers, outcomes, vouched>>
dialogVars     == <<frames, sent>>

vars == <<channelVars, agentVars, controllerVars, helperVars, dialogVars>>

(* PolkitState: the cookie stands for the message and the action.          *)
State(cookie, checking, error) ==
  [active |-> cookie # NoCookie, cookie |-> cookie,
   authenticating |-> checking, failed |-> error]

(* The type invariant.                                                     *)
TypeOK ==
  /\ authoritative \in 1..MaxGenerations /\ link \in Links
  /\ Len(pipe) <= MaxOutbound
  /\ call \in [Cookies -> {"fresh", "asked", "ok", "cancelled"}]
  /\ requests \subseteq Requests
  /\ pending \in Cookies \union {NoCookie}
  /\ authenticating \in BOOLEAN /\ failed \in BOOLEAN
  /\ helpers \subseteq [cookie: Cookies, id: Nat]
  /\ outcomes \subseteq [cookie: Cookies, id: Nat, success: BOOLEAN]
  /\ frames \in Seq([generation: 1..MaxGenerations,
                     kind: {"submit", "cancel"}, id: Nat])
  /\ sent \in Nat
  /\ withdrawn \subseteq Cookies /\ overtaken \subseteq Cookies
  /\ vouched \subseteq Cookies

Init ==
  /\ ChannelInit
  /\ call = [c \in Cookies |-> "fresh"]
  /\ requests = {}
  /\ pending = NoCookie /\ authenticating = FALSE /\ failed = FALSE
  /\ helpers = {} /\ outcomes = {}
  /\ frames = <<>> /\ sent = 0
  /\ withdrawn = {} /\ overtaken = {} /\ vouched = {}

-----------------------------------------------------------------------------
(* polkitd (external) calls the agent object, which forwards.              *)

PolkitdBegins(c) ==
  /\ call[c] = "fresh"
  /\ call' = [call EXCEPT ![c] = "asked"]
  /\ requests' = requests \union {[kind |-> "begin", cookie |-> c]}
  /\ UNCHANGED <<channelVars, withdrawn, overtaken, controllerVars,
                 helperVars, dialogVars>>

PolkitdCancels(c) ==
  /\ call[c] = "asked" /\ c \notin withdrawn
  /\ withdrawn' = withdrawn \union {c}
  /\ requests' = requests \union {[kind |-> "cancel", cookie |-> c]}
  /\ UNCHANGED <<channelVars, call, overtaken, controllerVars, helperVars,
                 dialogVars>>

-----------------------------------------------------------------------------
(* The Supervisor's select! loop.  Every state change ends in one push.    *)

Becomes(cookie, checking, error) ==
  /\ pending' = cookie /\ authenticating' = checking /\ failed' = error
  /\ Push(Polkit, State(cookie, checking, error))

Unchanged == UNCHANGED <<channelVars, controllerVars>>

Receives(kind, c) ==
  /\ [kind |-> kind, cookie |-> c] \in requests
  /\ requests' = requests \ {[kind |-> kind, cookie |-> c]}
  /\ UNCHANGED <<withdrawn, helperVars, dialogVars>>

(* Wrong on purpose, for mutation: the newer challenge replaces the older. *)
BeginReplaces(c) ==
  /\ Receives("begin", c) /\ UNCHANGED overtaken
  /\ Becomes(c, FALSE, FALSE) /\ UNCHANGED call

(* PolkitController::begin; a call with no unix-user identity and a second *)
(* call are both answered Cancelled.                                       *)
Begin(c) ==
  /\ Receives("begin", c) /\ UNCHANGED overtaken
  /\ \/ pending = NoCookie /\ Becomes(c, FALSE, FALSE) /\ UNCHANGED call
     \/ call' = [call EXCEPT ![c] = "cancelled"] /\ Unchanged

(* PolkitController::cancel, which ends the challenge it is given.         *)
EndsCancelled(c) ==
  /\ call' = [call EXCEPT ![c] = "cancelled"]
  /\ Becomes(NoCookie, FALSE, FALSE)

ReceivesCancel(c) ==
  /\ Receives("cancel", c)
  /\ overtaken' = IF [kind |-> "begin", cookie |-> c] \in requests
                  THEN overtaken \union {c} ELSE overtaken

(* Wrong on purpose, for mutation: a checked password shields the dialog.  *)
CancelUnlessChecking(c) ==
  /\ ReceivesCancel(c)
  /\ \/ pending = c /\ ~authenticating /\ EndsCancelled(c)
     \/ (pending # c \/ authenticating) /\ Unchanged /\ UNCHANGED call

Cancel(c) ==
  /\ ReceivesCancel(c)
  /\ \/ pending = c /\ EndsCancelled(c)
     \/ pending # c /\ Unchanged /\ UNCHANGED call

(* An inbound frame: only the authoritative generation is heard, and       *)
(* nobody during a cooldown.                                               *)
Live == frames # <<>> /\ Head(frames).generation = authoritative
        /\ link # "cooldown"

Reads(kind) ==
  /\ Live /\ Head(frames).kind = kind
  /\ frames' = Tail(frames)
  /\ UNCHANGED <<sent, requests, withdrawn, overtaken, outcomes,
                 vouched>>

DropStaleFrame ==
  /\ frames # <<>> /\ ~Live
  /\ frames' = Tail(frames)
  /\ UNCHANGED <<channelVars, agentVars, controllerVars, helperVars, sent>>

(* mantle.polkit:invoke("cancel").                                         *)
DispatchCancel ==
  /\ Reads("cancel") /\ UNCHANGED helpers
  /\ \/ pending # NoCookie /\ EndsCancelled(pending)
     \/ pending = NoCookie /\ Unchanged /\ UNCHANGED call

MayAuthenticateAgain == pending # NoCookie    (* wrong, for mutation        *)

MayAuthenticate == pending # NoCookie /\ ~authenticating

(* secure_submit(polkit, authenticate): the challenge on screen when the   *)
(* frame is read, not when it was typed.                                   *)
BeginAuthentication ==
  /\ Reads("submit") /\ UNCHANGED call
  /\ \/ /\ MayAuthenticate
        /\ helpers' = helpers \union {[cookie |-> pending, id |-> Head(frames).id]}
        /\ Becomes(pending, TRUE, failed)
     \/ ~MayAuthenticate /\ Unchanged /\ UNCHANGED helpers

(* Wrong on purpose, for mutation: an answer is not matched to its cookie; *)
(* a failed one is taken for stale.                                        *)
AnyAnswerIsCurrent(answer) == pending # NoCookie
FailureIsStale(answer) == pending = answer.cookie /\ answer.success

IsCurrent(answer) == pending = answer.cookie

(* PolkitController::record_outcome.                                       *)
RecordOutcome(answer) ==
  /\ outcomes' = outcomes \ {answer}
  /\ \/ ~IsCurrent(answer) /\ Unchanged /\ UNCHANGED call
     \/ /\ IsCurrent(answer) /\ ~answer.success
        /\ Becomes(pending, FALSE, TRUE) /\ UNCHANGED call
     \/ /\ IsCurrent(answer) /\ answer.success
        /\ call' = [call EXCEPT ![pending] = "ok"]
        /\ Becomes(NoCookie, FALSE, FALSE)
  /\ UNCHANGED <<requests, withdrawn, overtaken, helpers, vouched,
                 dialogVars>>

-----------------------------------------------------------------------------
(* run_polkit_helper: the helper (external) tells polkitd before it tells  *)
(* the Supervisor.  A task that fails, times out or is dropped reports a   *)
(* failure, whether or not the helper had told polkitd by then.            *)
HelperAnswers(h, success) ==
  /\ helpers' = helpers \ {h}
  /\ outcomes' = outcomes \union
                   {[cookie |-> h.cookie, id |-> h.id, success |-> success]}
  /\ \/ vouched' = vouched \union {h.cookie}
     \/ ~success /\ UNCHANGED vouched
  /\ UNCHANGED <<channelVars, agentVars, controllerVars, dialogVars>>

(* The dialog: a config may keep its field and its button on screen, so    *)
(* either frame may come at any time.                                      *)
DialogSends(kind) ==
  /\ InRegistry /\ sent < MaxFrames
  /\ sent' = sent + 1
  /\ frames' = Append(frames, [generation |-> authoritative, kind |-> kind,
                               id |-> sent + 1])
  /\ UNCHANGED <<channelVars, agentVars, controllerVars, helperVars>>

Channel ==
  /\ ChannelStep
  /\ UNCHANGED <<agentVars, controllerVars, helperVars, dialogVars>>

-----------------------------------------------------------------------------
HandleRequest == \E c \in Cookies : Begin(c) \/ Cancel(c)

ReadFrame == DispatchCancel \/ BeginAuthentication \/ DropStaleFrame

Next ==
  \/ \E c \in Cookies : PolkitdBegins(c) \/ PolkitdCancels(c)
  \/ HandleRequest
  \/ ReadFrame
  \/ \E answer \in outcomes : RecordOutcome(answer)
  \/ \E h \in helpers, success \in BOOLEAN : HelperAnswers(h, success)
  \/ \E kind \in {"submit", "cancel"} : DialogSends(kind)
  \/ Channel

Spec == Init /\ [][Next]_vars

(* Every ready arm of select! is eventually taken, every D-Bus task and    *)
(* helper conversation ends (PAM_EXCHANGE_TIMEOUT, ReportOnDrop).          *)
Fairness ==
  /\ \A c \in Cookies : WF_vars(Begin(c)) /\ WF_vars(Cancel(c))
  /\ WF_vars(ReadFrame)
  /\ \A c \in Cookies : WF_vars(\E answer \in outcomes :
                              answer.cookie = c /\ RecordOutcome(answer))
  /\ \A c \in Cookies : WF_vars(\E h \in helpers, success \in BOOLEAN :
                              h.cookie = c /\ HelperAnswers(h, success))

FairSpec == Spec /\ Fairness

-----------------------------------------------------------------------------
(* Properties *)

(* No caller is forgotten: a call polkitd is waiting on is on its way to   *)
(* the controller or is the challenge on screen, and the challenge on      *)
(* screen is a call polkitd is still waiting on.                           *)
NoCallerIsForgotten ==
  /\ \A c \in Cookies :
       call[c] = "asked" =>
         pending = c \/ [kind |-> "begin", cookie |-> c] \in requests
  /\ pending # NoCookie => call[pending] = "asked"

(* A caller is told yes only after the helper vouched for that very call.  *)
OkMeansVouched == \A c \in Cookies : call[c] = "ok" => c \in vouched

(* The latch that refuses the next password is set exactly while one       *)
(* conversation about the challenge on screen is owed an answer.           *)
Owed ==
  {h.id : h \in {h \in helpers : h.cookie = pending}} \union
  {answer.id : answer \in {answer \in outcomes : answer.cookie = pending}}

LatchIsOwed == Cardinality(Owed) = IF authenticating THEN 1 ELSE 0

(* The dialog on a drained Renderer is the controller's state.             *)
DialogIsCurrent ==
  (link = "hydrated" /\ pipe = <<>>) =>
    \/ shown[Polkit] = Unset /\ pending = NoCookie
    \/ /\ shown[Polkit] # Unset
       /\ shown[Polkit].payload = State(pending, authenticating, failed)

(* Liveness.  A call polkitd withdraws is answered, whatever the user and  *)
(* PAM do, unless its cancel overtook it on the way in.                    *)
WithdrawnIsAnswered ==
  \A c \in Cookies :
    c \in withdrawn ~> (call[c] # "asked" \/ c \in overtaken)

(* A submitted password is eventually answered.                            *)
PasswordIsAnswered == authenticating ~> ~authenticating
=============================================================================
