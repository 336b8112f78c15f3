--------------------------- MODULE RealtimeClient ---------------------------
(***************************************************************************)
(* The connection of packages/client/src/realtime.ts (RealtimeClient): the *)
(* one WebSocket every channel of a client shares, the connect in flight,  *)
(* the reconnect timers, re-authentication when the signed-in user         *)
(* changes, and what each channel's status callback is told.               *)
(*                                                                         *)
(* JavaScript runs one callback at a time, so an action is a callback: a   *)
(* call of the public API, the continuation of an await, a timer or a      *)
(* WebSocket event.  Two things that happen between callbacks belong to    *)
(* the outside: the server and the network (MaxFaults bounds how often     *)
(* they fail) and the user signing in and out (MaxSwitches).               *)
(*                                                                         *)
(* The frames of one channel (refs, rejoins, rows) are abstracted: here a  *)
(* join is only sent, acknowledged or refused.                             *)
(***************************************************************************)
EXTENDS Naturals

CONSTANTS
    Channels,               \* channel names
    Sockets,                \* WebSocket objects; one closed and let go may stand for a new one
    Tokens,                 \* what the headers provider hands out, one per identity
    NoSocket, NoToken,      \* null and undefined
    MaxReconnectAttempts,   \* maxReconnectAttempts (10 in the code)
    MaxFaults,              \* bound: closes, failed connects, refusals and failed token lookups
    MaxSwitches             \* bound: sign-ins and sign-outs

ASSUME ClientAssumption ==
    /\ NoSocket \notin Sockets
    /\ NoToken \notin Tokens
    /\ MaxReconnectAttempts \in Nat
    /\ MaxFaults \in Nat
    /\ MaxSwitches \in Nat

VARIABLES
    registered,         \* keys of `channels`
    join,               \* per channel: joinSent and subscribed
    joinSocket,         \* the socket that join frame went out on
    status,             \* what the status callbacks were last told
    ws,                 \* this.ws
    readyState,         \* of every socket; CLOSED is also a socket not created yet
    attached,           \* sockets whose onopen/onmessage/onclose handlers are in place
    openedWith,         \* the token in the URL a socket was opened with
    currentToken,       \* this.currentToken
    attempt,            \* this.attempt # null
    known,              \* the token passed to that attempt, NoToken when it must resolve one
    heldTimer,          \* the timer in this.reconnectTimer has yet to fire
    strayTimers,        \* timers yet to fire that this.reconnectTimer no longer names
    reconnectAttempts,  \* this.reconnectAttempts
    identity,           \* the token the headers provider would hand out now
    reauths,            \* reauthenticate() calls awaiting their token
    (***********************************************************************)
    (* Observations, read by no action of the client                       *)
    (***********************************************************************)
    waiting,            \* channels that asked, or were told SUBSCRIBING, and heard nothing since
    hungUp,             \* disconnect() was called and subscribe() was not called since
    gaveUp,             \* a reauthenticate() could not resolve its token, none has since
    overtaken,          \* a socket was opened while the one held had yet to report its close
    faults, switches    \* used up so far

channelVars == <<registered, join, joinSocket, status, waiting>>
socketVars  == <<ws, readyState, attached, openedWith>>
connectVars == <<attempt, known>>
timerVars   == <<heldTimer, strayTimers, reconnectAttempts>>
authVars    == <<identity, reauths, gaveUp>>
vars == <<channelVars, socketVars, currentToken, connectVars, timerVars, authVars,
          hungUp, overtaken, faults, switches>>

Statuses == {"unheard", "SUBSCRIBED", "SUBSCRIBING", "CLOSED", "CHANNEL_ERROR", "TIMED_OUT"}

FlagsOK ==
    /\ attempt \in BOOLEAN /\ heldTimer \in BOOLEAN
    /\ hungUp \in BOOLEAN /\ gaveUp \in BOOLEAN /\ overtaken \in BOOLEAN

DataOK ==
    /\ registered \subseteq Channels
    /\ join \in [Channels -> {"none", "sent", "acked"}]
    /\ joinSocket \in [Channels -> Sockets \cup {NoSocket}]
    /\ status \in [Channels -> Statuses]
    /\ waiting \subseteq Channels
    /\ ws \in Sockets \cup {NoSocket}
    /\ readyState \in [Sockets -> {"CONNECTING", "OPEN", "CLOSING", "CLOSED"}]
    /\ attached \subseteq Sockets
    /\ openedWith \in [Sockets -> Tokens \cup {NoToken}]
    /\ currentToken \in Tokens \cup {NoToken}
    /\ known \in Tokens \cup {NoToken}
    /\ strayTimers \in Nat
    /\ reconnectAttempts \in 0 .. MaxReconnectAttempts
    /\ identity \in Tokens
    /\ reauths \in Nat
    /\ faults \in 0 .. MaxFaults
    /\ switches \in 0 .. MaxSwitches

(* The type invariant, in two parts because flags and numbers are proved apart. *)
TypeOK == FlagsOK /\ DataOK

Init ==
    /\ registered = {}
    /\ join = [c \in Channels |-> "none"]
    /\ joinSocket = [c \in Channels |-> NoSocket]
    /\ status = [c \in Channels |-> "unheard"]
    /\ waiting = {}
    /\ ws = NoSocket
    /\ readyState = [s \in Sockets |-> "CLOSED"]
    /\ attached = {}
    /\ openedWith = [s \in Sockets |-> NoToken]
    /\ currentToken = NoToken
    /\ attempt = FALSE
    /\ known = NoToken
    /\ heldTimer = FALSE
    /\ strayTimers = 0
    /\ reconnectAttempts = 0
    /\ identity \in Tokens
    /\ reauths = 0
    /\ hungUp = FALSE
    /\ gaveUp = FALSE
    /\ overtaken = FALSE
    /\ faults = 0
    /\ switches = 0

-----------------------------------------------------------------------------
(* Parts of the handlers.                                                  *)

isLive    == ws # NoSocket /\ readyState[ws] \in {"CONNECTING", "OPEN"}
isClosing == ws # NoSocket /\ readyState[ws] = "CLOSING"

(* notifyChannels: every channel in cs hears s. *)
notifyChannels(cs, s) ==
    /\ status' = [c \in Channels |-> IF c \in cs THEN s ELSE status[c]]
    /\ waiting' = IF s = "SUBSCRIBING" THEN waiting \cup cs ELSE waiting \ cs

(* Mutant: the joins of the socket that went away are kept. *)
forgetJoinsKept == UNCHANGED <<join, joinSocket>>

forgetJoins ==
    /\ join' = [c \in Channels |-> "none"]
    /\ joinSocket' = [c \in Channels |-> NoSocket]

(* sendSubscribe for each channel of cs whose join is not out, through socket s. *)
sendSubscribe(cs, s) ==
    LET joining == {c \in cs : join[c] = "none"}
    IN  /\ join' = [c \in Channels |-> IF c \in joining THEN "sent" ELSE join[c]]
        /\ joinSocket' = [c \in Channels |-> IF c \in joining THEN s ELSE joinSocket[c]]

ensureConnection ==
    IF isLive \/ attempt
    THEN UNCHANGED connectVars
    ELSE attempt' = TRUE /\ known' = NoToken

(* Mutant: one attempt past the limit. *)
scheduleReconnectPastLimit ==
    IF reconnectAttempts > MaxReconnectAttempts
    THEN /\ notifyChannels(registered, "TIMED_OUT")
         /\ UNCHANGED timerVars
    ELSE /\ notifyChannels(registered, "SUBSCRIBING")
         /\ reconnectAttempts' = reconnectAttempts + 1
         /\ heldTimer' = TRUE
         /\ strayTimers' = IF heldTimer THEN strayTimers + 1 ELSE strayTimers

(* A timer already named by this.reconnectTimer is overwritten, not cleared. *)
scheduleReconnect ==
    IF reconnectAttempts >= MaxReconnectAttempts
    THEN /\ notifyChannels(registered, "TIMED_OUT")
         /\ UNCHANGED timerVars
    ELSE /\ notifyChannels(registered, "SUBSCRIBING")
         /\ reconnectAttempts' = reconnectAttempts + 1
         /\ heldTimer' = TRUE
         /\ strayTimers' = IF heldTimer THEN strayTimers + 1 ELSE strayTimers

reconnectIfUsed ==
    IF registered = {}
    THEN UNCHANGED <<status, waiting, timerVars>>
    ELSE scheduleReconnect

(* Mutant: the handlers of the abandoned socket stay in place. *)
abandonSocketAttached ==
    /\ heldTimer' = FALSE
    /\ ws' = NoSocket
    /\ currentToken' = NoToken
    /\ readyState' = [s \in Sockets |-> IF s = ws /\ readyState[s] # "CLOSED"
                                        THEN "CLOSING" ELSE readyState[s]]
    /\ reconnectAttempts' = 0
    /\ forgetJoins
    /\ UNCHANGED <<strayTimers, attached, openedWith>>

(* Everything abandonSocket does, this.attempt apart: its callers set that. *)
abandonSocket ==
    /\ heldTimer' = FALSE
    /\ UNCHANGED strayTimers
    /\ ws' = NoSocket
    /\ currentToken' = NoToken
    /\ attached' = attached \ {ws}
    /\ readyState' = [s \in Sockets |-> IF s = ws /\ readyState[s] # "CLOSED"
                                        THEN "CLOSING" ELSE readyState[s]]
    /\ UNCHANGED openedWith
    /\ reconnectAttempts' = 0
    /\ forgetJoins

spendFault == faults < MaxFaults /\ faults' = faults + 1

-----------------------------------------------------------------------------
(* Calls of the public API.                                                *)

(* channel(name): a handle on a name nobody held. *)
Channel(c) ==
    /\ c \notin registered
    /\ registered' = registered \cup {c}
    /\ UNCHANGED <<join, joinSocket, status, waiting, socketVars, currentToken, connectVars,
                   timerVars, authVars, hungUp, faults, switches, overtaken>>

(* subscribe() on a handle of c. *)
Subscribe(c) ==
    /\ c \in registered
    /\ IF join[c] = "acked"
       THEN notifyChannels({c}, "SUBSCRIBED")
       ELSE waiting' = waiting \cup {c} /\ UNCHANGED status
    /\ ensureConnection
    /\ IF ws # NoSocket /\ readyState[ws] = "OPEN"
       THEN sendSubscribe({c}, ws)
       ELSE UNCHANGED <<join, joinSocket>>
    /\ hungUp' = FALSE
    /\ UNCHANGED <<registered, socketVars, currentToken, timerVars, authVars, faults, switches, overtaken>>

Disconnect ==
    /\ abandonSocket
    /\ attempt' = FALSE
    /\ known' = NoToken
    /\ notifyChannels(registered, "CLOSED")
    /\ hungUp' = TRUE
    /\ UNCHANGED <<registered, authVars, faults, switches, overtaken>>

(* removeChannel, also the unsubscribe() of a channel's last handle: with no channel left, *)
(* and so also for a name nobody holds, it disconnects.                                    *)
RemoveChannel(c) ==
    /\ registered' = registered \ {c}
    /\ status' = [status EXCEPT ![c] = "unheard"]
    /\ waiting' = waiting \ {c}
    /\ IF registered' = {}
       THEN /\ abandonSocket
            /\ attempt' = FALSE
            /\ known' = NoToken
            /\ hungUp' = TRUE
       ELSE /\ join' = [join EXCEPT ![c] = "none"]
            /\ joinSocket' = [joinSocket EXCEPT ![c] = NoSocket]
            /\ UNCHANGED <<socketVars, currentToken, connectVars, timerVars, hungUp>>
    /\ UNCHANGED <<authVars, faults, switches, overtaken>>

(* Mutant: reauthenticate() looks for an open socket only, not for one connecting. *)
SwitchIdentityOpenOnly(t) ==
    /\ t # identity
    /\ switches < MaxSwitches
    /\ switches' = switches + 1
    /\ identity' = t
    /\ reauths' = IF ws # NoSocket /\ readyState[ws] = "OPEN" THEN reauths + 1 ELSE reauths
    /\ UNCHANGED <<channelVars, socketVars, currentToken, connectVars, timerVars, gaveUp,
                   hungUp, faults, overtaken>>

(* Someone signs in or out; createClient calls reauthenticate(), which returns *)
(* at once with neither a socket nor a connect in flight.                      *)
SwitchIdentity(t) ==
    /\ t # identity
    /\ switches < MaxSwitches
    /\ switches' = switches + 1
    /\ identity' = t
    /\ reauths' = IF ws = NoSocket /\ ~attempt THEN reauths ELSE reauths + 1
    /\ UNCHANGED <<channelVars, socketVars, currentToken, connectVars, timerVars, gaveUp,
                   hungUp, faults, overtaken>>

-----------------------------------------------------------------------------
(* Continuations and timers.                                               *)

(* Mutant: the swap says nothing to the channels whose joins it drops. *)
ReauthResolvesQuietly ==
    /\ reauths > 0
    /\ reauths' = reauths - 1
    /\ gaveUp' = FALSE
    /\ IF identity = currentToken
       THEN UNCHANGED <<join, joinSocket, socketVars, currentToken, connectVars, timerVars>>
       ELSE abandonSocket /\ attempt' = TRUE /\ known' = identity
    /\ UNCHANGED <<registered, status, waiting, identity, hungUp, faults, switches, overtaken>>

(* Mutant: a connect in flight is abandoned, and blocks the one meant to replace it. *)
ReauthResolvesBlocked ==
    /\ reauths > 0
    /\ reauths' = reauths - 1
    /\ gaveUp' = FALSE
    /\ IF identity = currentToken
       THEN UNCHANGED <<status, waiting, join, joinSocket, socketVars, currentToken,
                        connectVars, timerVars>>
       ELSE /\ abandonSocket
            /\ notifyChannels(registered, "SUBSCRIBING")
            /\ attempt' = ~attempt
            /\ known' = IF attempt THEN NoToken ELSE identity
    /\ UNCHANGED <<registered, identity, hungUp, faults, switches, overtaken>>

(* reauthenticate() has its token: cycleConnection unless it is the socket's. *)
ReauthResolves ==
    /\ reauths > 0
    /\ reauths' = reauths - 1
    /\ gaveUp' = FALSE
    /\ IF identity = currentToken
       THEN UNCHANGED <<status, waiting, join, joinSocket, socketVars, currentToken,
                        connectVars, timerVars>>
       ELSE /\ abandonSocket
            /\ notifyChannels(registered, "SUBSCRIBING")
            /\ attempt' = TRUE
            /\ known' = identity
    /\ UNCHANGED <<registered, identity, hungUp, faults, switches, overtaken>>

ReauthFails ==
    /\ reauths > 0
    /\ spendFault
    /\ reauths' = reauths - 1
    /\ gaveUp' = TRUE
    /\ UNCHANGED <<channelVars, socketVars, currentToken, connectVars, timerVars, identity,
                   hungUp, switches, overtaken>>

(* openSocket with its token: a new socket takes this.ws, whatever was there. *)
OpenSocket(s) ==
    /\ attempt
    /\ readyState[s] = "CLOSED" /\ s \notin attached /\ s # ws
    /\ LET token == IF known = NoToken THEN identity ELSE known
       IN  /\ currentToken' = token
           /\ openedWith' = [openedWith EXCEPT ![s] = token]
    /\ gaveUp' = IF known = NoToken THEN FALSE ELSE gaveUp
    /\ overtaken' = (overtaken \/ isClosing)
    /\ ws' = s
    /\ readyState' = [readyState EXCEPT ![s] = "CONNECTING"]
    /\ attached' = attached \cup {s}
    /\ attempt' = FALSE
    /\ known' = NoToken
    /\ UNCHANGED <<channelVars, timerVars, identity, reauths, hungUp, faults, switches>>

(* openSocket whose token would not resolve. *)
TokenFails ==
    /\ attempt
    /\ known = NoToken
    /\ spendFault
    /\ reconnectIfUsed
    /\ attempt' = FALSE
    /\ UNCHANGED <<registered, join, joinSocket, socketVars, currentToken, known, authVars,
                   hungUp, switches, overtaken>>

TimerFires ==
    /\ \/ heldTimer /\ heldTimer' = FALSE /\ UNCHANGED strayTimers
       \/ strayTimers > 0 /\ strayTimers' = strayTimers - 1 /\ UNCHANGED heldTimer
    /\ ensureConnection
    /\ UNCHANGED <<channelVars, socketVars, currentToken, reconnectAttempts, authVars,
                   hungUp, faults, switches, overtaken>>

-----------------------------------------------------------------------------
(* WebSocket events.                                                       *)

(* onopen: every channel not yet subscribed joins, over this.ws if it is open. *)
SocketOpens(s) ==
    /\ readyState[s] = "CONNECTING"
    /\ readyState' = [readyState EXCEPT ![s] = "OPEN"]
    /\ reconnectAttempts' = 0
    /\ IF ws # NoSocket /\ readyState'[ws] = "OPEN"
       THEN sendSubscribe(registered, ws)
       ELSE UNCHANGED <<join, joinSocket>>
    /\ UNCHANGED <<registered, status, waiting, ws, attached, openedWith, currentToken,
                   connectVars, heldTimer, strayTimers, authVars, hungUp, faults, switches, overtaken>>

(* The server's close frame has arrived, the close event has not. *)
ServerStartsClose(s) ==
    /\ s \in attached /\ readyState[s] = "OPEN"
    /\ spendFault
    /\ readyState' = [readyState EXCEPT ![s] = "CLOSING"]
    /\ UNCHANGED <<channelVars, ws, attached, openedWith, currentToken, connectVars, timerVars,
                   authVars, hungUp, switches, overtaken>>

(* onclose of a socket still attached, which sets this.ws to null whichever socket that is. *)
SocketCloses(s) ==
    /\ s \in attached
    /\ IF readyState[s] = "CLOSING" THEN UNCHANGED faults ELSE spendFault
    /\ readyState' = [readyState EXCEPT ![s] = "CLOSED"]
    /\ attached' = attached \ {s}
    /\ ws' = NoSocket
    /\ forgetJoins
    /\ reconnectIfUsed
    /\ UNCHANGED <<registered, openedWith, currentToken, connectVars, authVars, hungUp, switches, overtaken>>

(* The close abandonSocket asked for; nothing hears it. *)
DetachedCloses(s) ==
    /\ s \notin attached /\ readyState[s] = "CLOSING"
    /\ readyState' = [readyState EXCEPT ![s] = "CLOSED"]
    /\ UNCHANGED <<channelVars, ws, attached, openedWith, currentToken, connectVars, timerVars,
                   authVars, hungUp, faults, switches, overtaken>>

(* The reply to the join c awaits arrives on the socket that join was sent on. *)
joinAnswered(c) ==
    /\ join[c] = "sent"
    /\ joinSocket[c] \in attached
    /\ readyState[joinSocket[c]] = "OPEN"
    /\ UNCHANGED <<registered, joinSocket, socketVars, currentToken, connectVars, timerVars,
                   authVars, hungUp, switches, overtaken>>

JoinAcked(c) ==
    /\ joinAnswered(c)
    /\ join' = [join EXCEPT ![c] = "acked"]
    /\ notifyChannels({c}, "SUBSCRIBED")
    /\ UNCHANGED faults

JoinRefused(c) ==
    /\ joinAnswered(c)
    /\ spendFault
    /\ join' = [join EXCEPT ![c] = "none"]
    /\ notifyChannels({c}, "CHANNEL_ERROR")

-----------------------------------------------------------------------------

Caller ==
    \/ \E c \in Channels : Channel(c) \/ Subscribe(c) \/ RemoveChannel(c)
    \/ Disconnect
    \/ \E t \in Tokens : SwitchIdentity(t)

Runtime ==
    \/ ReauthResolves
    \/ ReauthFails
    \/ TokenFails
    \/ TimerFires
    \/ \E s \in Sockets : \/ OpenSocket(s) \/ SocketOpens(s) \/ ServerStartsClose(s)
                          \/ SocketCloses(s) \/ DetachedCloses(s)
    \/ \E c \in Channels : JoinAcked(c) \/ JoinRefused(c)

Next == Caller \/ Runtime

Spec == Init /\ [][Next]_vars

(***************************************************************************)
(* The event loop runs what it is handed: a pending promise settles, a     *)
(* timer fires, a connecting socket opens or fails, a closing one closes,  *)
(* and the server answers each join it is sent.  Nothing makes a caller    *)
(* call, and nothing makes the network fail.                               *)
(***************************************************************************)
Fairness ==
    /\ WF_vars(ReauthResolves)
    /\ WF_vars(\E s \in Sockets : OpenSocket(s))
    /\ WF_vars(TimerFires)
    /\ \A s \in Sockets : /\ WF_vars(SocketOpens(s))
                          /\ WF_vars(readyState[s] = "CLOSING" /\ SocketCloses(s))
                          /\ WF_vars(DetachedCloses(s))
    /\ \A c \in Channels : WF_vars(JoinAcked(c) \/ JoinRefused(c))

FairSpec == Spec /\ Fairness

-----------------------------------------------------------------------------
(* Properties.                                                             *)

(* One connection per client: a socket whose events the client still hears, *)
(* and that is not on its way out, is the one the client holds.  A second   *)
(* one would hand every channel its messages twice.  Not so once a connect  *)
(* has opened a socket over one that was CLOSING: then onclose of the old   *)
(* one nulls this.ws, which names the new one.                              *)
OneLiveSocket ==
    ~overtaken => \A s \in attached : readyState[s] \in {"CONNECTING", "OPEN"} => s = ws

(* The same without the exception, as openSocket has it: one connect at a   *)
(* time, and a caller that finds a live socket or a connect never starts    *)
(* another.                                                                 *)
NoSecondSocket == \A s \in attached : readyState[s] \in {"CONNECTING", "OPEN"} => s = ws

(* A channel that reads SUBSCRIBED has its join on the socket the client    *)
(* holds now, and that socket has not closed: the status survives no        *)
(* reconnect, re-authentication or disconnect its join did not survive.     *)
SubscribedIsJoined ==
    ~overtaken => \A c \in registered : status[c] = "SUBSCRIBED" =>
        /\ join[c] = "acked"
        /\ ws # NoSocket
        /\ joinSocket[c] = ws
        /\ readyState[ws] \in {"OPEN", "CLOSING"}

(* Once every pending re-authentication has settled, and unless one could   *)
(* not resolve a token, the socket was opened as the user signed in now.    *)
SocketIsCurrentUser ==
    ws # NoSocket /\ reauths = 0 /\ ~gaveUp => openedWith[ws] = identity

(* Something will still act for a channel that waits for its SUBSCRIBED: a  *)
(* connect, a timer, a socket about to open or close, or a join the server  *)
(* has yet to answer.                                                       *)
someoneActsFor(c) ==
    \/ attempt \/ heldTimer \/ strayTimers > 0
    \/ \E s \in attached : readyState[s] = "CLOSING"
    \/ ws # NoSocket /\ readyState[ws] = "CONNECTING"
    \/ join[c] = "sent" /\ joinSocket[c] \in attached

NoStrandedChannel == \A c \in registered \cap waiting : someoneActsFor(c)

(* A channel that asked for its rows is told an outcome, once the network   *)
(* has run out of ways to fail and users have stopped signing in and out.   *)
WaitingChannelIsTold == \A c \in Channels : c \in waiting ~> c \notin waiting

(* disconnect() is final until somebody subscribes again: no socket, and no *)
(* connect on its way to one.                                               *)
DisconnectIsFinal == hungUp => ws = NoSocket /\ ~attempt

=============================================================================
