---------------------------- MODULE IdleInhibit ----------------------------
(* What holds the session awake: a refcount per config generation and one    *)
(* for every ScreenSaver client together, and the one logind fd they share   *)
(* (capabilities/idle/inhibit.rs, the inhibit half of controller.rs).        *)
(* The `state` lock is held across the D-Bus call: a section under it is one *)
(* action.                                                                   *)
EXTENDS Naturals, FiniteSets, Functions

CONSTANTS Peers,            \* bus names of ScreenSaver clients
          LastHolder,       \* bound: config generations 1..LastHolder
          LastCookie,       \* bound in place of u32::MAX: cookies wrap to 1
          MaxAsked          \* bound: requests made in a run

ASSUME InhibitAssumption == LastHolder \in Nat \ {0} /\ LastCookie \in Nat \ {0}

VARIABLES counts,           \* holder -> its refcount
          cookies,          \* standing ScreenSaver holds: cookie -> peer
          nextCookie,
          fd,               \* the logind inhibitor is held
          spawned,          \* requests of a config, each in a task: <<kind, generation>> -> how many
          calling,          \* peers whose Inhibit call is on its way
          left,             \* peers off the bus
          departures,       \* those whose NameOwnerChanged is still to be read
          holder,           \* the generation on the glass
          toClear,          \* the generation reset_registrations is to clear, 0 for none
          asked,            \* requests made so far
          refused           \* cookies handed out although login1 refused the fd

inhibitVars == <<counts, cookies, nextCookie, fd, spawned, calling, left, departures,
                 holder, toClear, asked, refused>>
stateVars == <<counts, cookies, nextCookie, fd, refused>>
peerVars  == <<calling, left, departures>>

ScreenSaver == 0                       \* SCREENSAVER_HOLDER
Configs     == 1..LastHolder

\* `total` of the counts is only ever compared with zero.
Held(c) == \E h \in DOMAIN c : c[h] > 0

InhibitInit ==
  /\ counts = [h \in Configs \cup {ScreenSaver} |-> 0]
  /\ cookies = <<>> /\ nextCookie = 1
  /\ fd = FALSE
  /\ spawned = [t \in {"inhibit", "release"} \X Configs |-> 0]
  /\ calling = {} /\ left = {} /\ departures = {}
  /\ holder = 1 /\ toClear = 0
  /\ asked = 0 /\ refused = {}

-----------------------------------------------------------------------------
(* The refcount.                                                             *)

\* apply_inhibit and open_shared_fd: a refused fd gives its count back and leaves what is held.
Inhibit(h, granted) ==
  IF Held(counts)
    THEN counts' = [counts EXCEPT ![h] = @ + 1] /\ UNCHANGED fd
    ELSE /\ counts' = IF granted THEN [counts EXCEPT ![h] = 1] ELSE counts
         /\ fd' = (fd \/ granted)

Minus(n, k) == IF n > k THEN n - k ELSE 0

\* should_close_fd: the global total comes to zero, and was not there.
Closes(before, after) == Held(before) /\ ~Held(after)

\* Wrong on purpose, for mutation: the holder's own zero closes the fd.
ReleaseOwnZero(h, n) ==
  /\ counts' = [counts EXCEPT ![h] = Minus(@, n)]
  /\ fd' = (fd /\ counts'[h] > 0)

\* apply_release_inhibit, or cleanup_generation_inhibit of all n: only the global zero closes the fd.
Release(h, n) ==
  /\ counts' = [counts EXCEPT ![h] = Minus(@, n)]
  /\ fd' = (fd /\ ~Closes(counts, counts'))

-----------------------------------------------------------------------------
(* A config's holds.                                                         *)

\* dispatch spawns a task for each request: two of them run in either order.
ConfigAsks(kind) ==
  /\ asked < MaxAsked /\ toClear = 0
  /\ asked' = asked + 1
  /\ spawned' = [spawned EXCEPT ![<<kind, holder>>] = @ + 1]
  /\ UNCHANGED <<stateVars, peerVars, holder, toClear>>

ConfigInhibits(g, granted) ==
  /\ spawned[<<"inhibit", g>>] > 0
  /\ spawned' = [spawned EXCEPT ![<<"inhibit", g>>] = @ - 1]
  /\ Inhibit(g, granted)
  /\ UNCHANGED <<cookies, nextCookie, refused, peerVars, holder, toClear, asked>>

ConfigReleases(g) ==
  /\ spawned[<<"release", g>>] > 0
  /\ spawned' = [spawned EXCEPT ![<<"release", g>>] = @ - 1]
  /\ Release(g, 1)
  /\ UNCHANGED <<cookies, nextCookie, refused, peerVars, holder, toClear, asked>>

RendererReplaced ==
  /\ toClear = 0 /\ holder < LastHolder
  /\ toClear' = holder /\ holder' = holder + 1
  /\ UNCHANGED <<stateVars, peerVars, spawned, asked>>

\* cleanup_generation_inhibit, when reset_registrations gets the lock.
ReapHolds ==
  /\ toClear # 0
  /\ Release(toClear, counts[toClear])
  /\ toClear' = 0
  /\ UNCHANGED <<cookies, nextCookie, refused, peerVars, spawned, holder, asked>>

-----------------------------------------------------------------------------
(* ScreenSaver holds.                                                        *)

PeerCalls(p) ==
  /\ asked < MaxAsked /\ p \notin left \cup calling
  /\ asked' = asked + 1
  /\ calling' = calling \cup {p}
  /\ UNCHANGED <<stateVars, left, departures, spawned, holder, toClear>>

\* The cookie stands whether or not login1 gave the fd; an older hold of that number is overwritten.
ScreenSaverInhibit(p, granted) ==
  /\ p \in calling
  /\ calling' = calling \ {p}
  /\ cookies' = [c \in DOMAIN cookies \cup {nextCookie} |-> IF c = nextCookie THEN p ELSE cookies[c]]
  /\ nextCookie' = IF nextCookie = LastCookie THEN 1 ELSE nextCookie + 1
  /\ Inhibit(ScreenSaver, granted)
  /\ refused' = IF counts' = counts THEN refused \cup {nextCookie} ELSE refused
  /\ UNCHANGED <<left, departures, spawned, holder, toClear, asked>>

\* Cookie by cookie, but the last release alone has a say in the fd.
Drop(gone) ==
  LET released(n)   == [counts EXCEPT ![ScreenSaver] = Minus(@, n)]
      beforeTheLast == released(Cardinality(gone) - 1) IN
  /\ cookies' = Restrict(cookies, DOMAIN cookies \ gone)
  /\ counts' = released(Cardinality(gone))
  /\ fd' = (fd /\ ~Closes(beforeTheLast, counts'))

\* UnInhibit: an unknown cookie is an error and moves nothing.
ScreenSaverRelease(cookie) ==
  /\ cookie \in DOMAIN cookies /\ cookies[cookie] \notin left
  /\ Drop({cookie})
  /\ UNCHANGED <<nextCookie, refused, peerVars, spawned, holder, toClear, asked>>

PeerLeaves(p) ==
  /\ p \in (calling \cup Range(cookies)) \ left
  /\ left' = left \cup {p} /\ departures' = departures \cup {p}
  /\ UNCHANGED <<stateVars, calling, spawned, holder, toClear, asked>>

\* drop_screensaver_peer: nothing to do for a peer without a hold.
PeerLeft(p) ==
  /\ p \in departures
  /\ departures' = departures \ {p}
  /\ LET gone == {c \in DOMAIN cookies : cookies[c] = p} IN
       IF gone = {} THEN UNCHANGED <<counts, cookies, fd>> ELSE Drop(gone)
  /\ UNCHANGED <<nextCookie, refused, calling, left, spawned, holder, toClear, asked>>

InhibitNext ==
  \/ \E kind \in {"inhibit", "release"} : ConfigAsks(kind)
  \/ \E g \in Configs : ConfigReleases(g) \/ \E granted \in BOOLEAN : ConfigInhibits(g, granted)
  \/ RendererReplaced \/ ReapHolds
  \/ \E p \in Peers :
       \/ PeerCalls(p) \/ PeerLeaves(p) \/ PeerLeft(p)
       \/ \E granted \in BOOLEAN : ScreenSaverInhibit(p, granted)
  \/ \E cookie \in 1..LastCookie : ScreenSaverRelease(cookie)

InhibitSpec == InhibitInit /\ [][InhibitNext]_inhibitVars

-----------------------------------------------------------------------------
(* The fd is held while anybody's count stands, whoever else releases, is    *)
(* reaped or departs.  Unless login1 refused one, it is held only then, and  *)
(* no ScreenSaver hold stands uncounted, cookies that wrapped onto a         *)
(* standing hold included (inhibit.rs: apply_inhibit, apply_release_inhibit, *)
(* drop_screensaver_peer, cleanup_generation_inhibit; controller.rs:         *)
(* open_shared_fd).                                                          *)
FdFollowsHolds ==
  /\ Held(counts) => fd
  /\ refused = {} => /\ fd => Held(counts)
                     /\ counts[ScreenSaver] >= Cardinality(DOMAIN cookies)
=============================================================================
