------------------------------ MODULE WebConsole ------------------------------
(***************************************************************************)
(* One tab of the web console: the session it holds (and keeps in          *)
(* localStorage), the keepalive hook, the stream of the screen view, and   *)
(* the requests under way.  Answers come late and in any order; what an    *)
(* answer does depends on the closure that waits for it: those of the      *)
(* hooks are not heeded once their effect was cleaned up (isActive), those *)
(* of the buttons act on whatever session there is by then.                *)
(***************************************************************************)
EXTENDS FarmApi

CONSTANTS
  IdleLimit,    \* keepalive intervals without input after which none is sent
  MaxRequests,  \* bound: requests under way
  MaxLosses     \* bound: requests and connections that are lost

ASSUME WebAssumption ==
  /\ IdleLimit \in Nat /\ MaxRequests \in Nat \ {0} /\ MaxLosses \in Nat

NoSession == [dev |-> "none", id |-> Nobody]
Sessions == [dev : Devices, id : Ids]
Kinds == {"occupy", "release", "keepalive", "action"}

VARIABLES
  session,    \* occupation, NoSession for null
  connected,  \* isConnected
  due,        \* the hook's interval has elapsed
  idle,       \* intervals since lastActivityAt
  steady,     \* the tab has kept the session alive ever since it was occupied
  stream,     \* "off", "connecting", "open", "waiting" to reconnect, "ended"
  requests,
  losses

webVars == <<session, connected, due, idle, steady, stream, requests, losses>>
hookVars == <<due, idle, steady, stream>>

Requests == [kind : Kinds, dev : Devices, id : Ids \union {Nobody}, answer : Answers,
             heeded : BOOLEAN]

WebTypeOK ==
  /\ session \in Sessions \union {NoSession} /\ connected \in BOOLEAN
  /\ due \in BOOLEAN /\ idle \in 0..IdleLimit + 1 /\ steady \in BOOLEAN
  /\ stream \in {"off", "connecting", "open", "waiting", "ended"}
  /\ requests \subseteq Requests /\ losses \in 0..MaxLosses

WebInit ==
  /\ session = NoSession /\ connected = FALSE
  /\ due = FALSE /\ idle = 0 /\ steady = FALSE /\ stream = "off"
  /\ requests = {} /\ losses = 0

-------------------------------------------------------------------------------
HasHooks == session # NoSession /\ connected
Holds(s) == s # NoSession /\ owner[s.dev] = s.id

Fresh(kind, d, id) ==
  [kind |-> kind, dev |-> d, id |-> id, answer |-> Pending, heeded |-> TRUE]

(* The keepalive hook of an earlier session is cleaned up: isActive = false. *)
Unheard(R) == {[r EXCEPT !.heeded = (r.kind # "keepalive")] : r \in R}

(* The effects run for session s, or there is none: a new keepalive        *)
(* interval, which counts as activity, and a stream.                       *)
Effects(s, R) ==
  /\ due' = FALSE /\ idle' = 0
  /\ stream' = IF s = NoSession THEN "off" ELSE "connecting"
  /\ requests' = Unheard(R)

NoEffects(R) ==
  due' = FALSE /\ idle' = 0 /\ steady' = FALSE /\ stream' = "off" /\ requests' = Unheard(R)

(* setOccupation(s) *)
SetSession(s, R) ==
  /\ session' = s
  /\ \/ connected /\ Effects(s, R) /\ steady' = (s # NoSession)
     \/ ~connected /\ NoEffects(R)
  /\ UNCHANGED <<connected, losses>>

-------------------------------------------------------------------------------
(* The buttons *)

Connect ==
  /\ ~connected /\ connected' = TRUE
  /\ Effects(session, requests)
  /\ UNCHANGED <<session, steady, losses>>

Disconnect ==
  /\ connected /\ connected' = FALSE
  /\ NoEffects(requests)
  /\ UNCHANGED <<session, losses>>

(* The page is loaded again: only localStorage survives. *)
Reload ==
  /\ connected' = FALSE
  /\ NoEffects({})
  /\ UNCHANGED <<session, losses>>

Requested(kind, d, id) ==
  /\ Cardinality(requests) < MaxRequests
  /\ requests' = requests \union {Fresh(kind, d, id)}

(* mutant: the callback of the hook is a new function in every render *)
PolledAndRestarted ==
  connected /\ due' = FALSE /\ UNCHANGED <<session, connected, idle, steady, stream, requests, losses>>

(* The list is polled, the components render again, and no effect restarts. *)
Polled ==
  connected /\ UNCHANGED webVars

(* The card of any device: the list it shows is that of an earlier poll. *)
CanOccupy(d) == connected /\ session = NoSession

ClickOccupy(d) ==
  /\ CanOccupy(d)
  /\ Requested("occupy", d, Nobody)
  /\ UNCHANGED <<session, connected, hookVars, losses>>

ClickRelease ==
  /\ session # NoSession /\ connected
  /\ Requested("release", session.dev, session.id)
  /\ idle' = 0
  /\ UNCHANGED <<session, connected, due, steady, stream, losses>>

(* A tap, a swipe, text or a button: recordActivity, and a command. *)
Act ==
  /\ HasHooks
  /\ idle' = 0
  /\ \/ Requested("action", session.dev, session.id)
     \/ UNCHANGED requests
  /\ UNCHANGED <<session, connected, due, steady, stream, losses>>

-------------------------------------------------------------------------------
(* The keepalive hook *)

(* mutant: an idle tab sends it, too *)
FiresAlways ==
  /\ HasHooks /\ due /\ due' = FALSE
  /\ requests' = requests \union {Fresh("keepalive", session.dev, session.id)}
  /\ UNCHANGED <<session, connected, idle, steady, stream, losses>>

KeepaliveFires ==
  /\ HasHooks /\ due
  /\ due' = FALSE
  /\ \/ /\ idle > IdleLimit /\ steady' = FALSE /\ UNCHANGED requests
     \/ /\ idle <= IdleLimit /\ UNCHANGED steady
        /\ requests' = requests \union {Fresh("keepalive", session.dev, session.id)}
  /\ UNCHANGED <<session, connected, idle, stream, losses>>

(* mutant: an occupation that expired (409) is not one that was lost *)
Forbidden == {403}

OccupationLostStatuses == {403, 404, 409}

-------------------------------------------------------------------------------
(* Requests *)

Served(r) ==
  /\ r.answer = Pending
  /\ \E answer \in Answers :
       /\ Serve(r.kind, r.dev, r.id, answer)
       /\ requests' = (requests \ {r}) \union {[r EXCEPT !.answer = answer]}
  /\ UNCHANGED <<session, connected, hookVars, losses>>

(* The request or its answer is lost: AbortSignal.timeout. *)
TimesOut(r) ==
  /\ losses < MaxLosses /\ losses' = losses + 1
  /\ requests' = requests \ {r}
  /\ UNCHANGED <<session, connected, hookVars>>

Ignored(r) ==
  requests' = requests \ {r} /\ UNCHANGED <<session, connected, hookVars, losses>>

OccupyAnswered(r) ==
  \/ r.answer.status = 200 /\ SetSession([dev |-> r.dev, id |-> r.answer.id], requests \ {r})
  \/ r.answer.status # 200 /\ Ignored(r)

ReleaseAnswered(r) ==
  \/ /\ r.answer.status \in {200} \union OccupationLostStatuses
     /\ SetSession(NoSession, requests \ {r})
  \/ r.answer.status \notin {200} \union OccupationLostStatuses /\ Ignored(r)

KeepaliveAnswered(r) ==
  \/ /\ r.heeded /\ r.answer.status \in OccupationLostStatuses
     /\ SetSession(NoSession, requests \ {r})
  \/ ~(r.heeded /\ r.answer.status \in OccupationLostStatuses) /\ Ignored(r)

ActionAnswered(r) ==
  \/ r.answer.status = 403 /\ SetSession(NoSession, requests \ {r})
  \/ r.answer.status # 403 /\ Ignored(r)

Answered(r) ==
  /\ r.answer # Pending
  /\ \/ r.kind = "occupy" /\ OccupyAnswered(r)
     \/ r.kind = "release" /\ ReleaseAnswered(r)
     \/ r.kind = "keepalive" /\ KeepaliveAnswered(r)
     \/ r.kind = "action" /\ ActionAnswered(r)
  /\ UNCHANGED apiVars

-------------------------------------------------------------------------------
(* The stream: a session the server does not honour is refused with 4403   *)
(* and closed with 4408; other terminal codes only end the stream.         *)

StreamLost == SetSession(NoSession, requests)

StreamConnects ==
  /\ stream = "connecting"
  /\ \/ /\ Holds(session) /\ stream' = "open"
        /\ UNCHANGED <<session, connected, due, idle, steady, requests, losses>>
     \/ ~Holds(session) /\ StreamLost

StreamRevoked == stream = "open" /\ ~Holds(session) /\ StreamLost

StreamRefused ==
  /\ stream = "connecting" /\ stream' = "ended"
  /\ losses < MaxLosses /\ losses' = losses + 1
  /\ UNCHANGED <<session, connected, due, idle, steady, requests>>

StreamBreaks ==
  /\ stream \in {"connecting", "open"} /\ stream' = "waiting"
  /\ losses < MaxLosses /\ losses' = losses + 1
  /\ UNCHANGED <<session, connected, due, idle, steady, requests>>

StreamRetries ==
  /\ stream = "waiting" /\ stream' = "connecting"
  /\ UNCHANGED <<session, connected, due, idle, steady, requests, losses>>

-------------------------------------------------------------------------------
(* A tick is the keepalive interval.  It is longer than the client's       *)
(* timeout, so that no request outlives the tick it was sent in.           *)
WebTick ==
  /\ requests = {} /\ ~due
  /\ due' = HasHooks
  /\ idle' = IF HasHooks /\ idle <= IdleLimit THEN idle + 1 ELSE idle
  /\ UNCHANGED <<session, connected, steady, stream, requests, losses>>

UserClicks ==
  \/ Connect \/ Disconnect \/ Reload \/ ClickRelease \/ Act
  \/ \E d \in Devices : ClickOccupy(d)

WebStep ==
  \/ UserClicks \/ Polled \/ KeepaliveFires
  \/ StreamConnects \/ StreamRevoked \/ StreamRefused \/ StreamBreaks \/ StreamRetries
  \/ \E r \in requests : TimesOut(r)
===============================================================================
