------------------------ MODULE RealtimeClientProofs ------------------------
(***************************************************************************)
(* What holds of RealtimeClient for every set of channels, sockets and     *)
(* tokens and every bound.                                                 *)
(***************************************************************************)
EXTENDS RealtimeClient, TLAPS

(* No step takes a number, set or function of the client out of its type. *)
LEMMA DataPreserved == DataOK /\ [Next]_vars => DataOK'
<1> USE ClientAssumption DEF ClientAssumption
<1> SUFFICES ASSUME DataOK, [Next]_vars PROVE DataOK'
  OBVIOUS
<1> USE DEF DataOK, Statuses
<1>1. ASSUME NEW c \in Channels, Channel(c) PROVE DataOK'
  BY <1>1 DEF Channel, socketVars, connectVars, timerVars, authVars
<1>2. ASSUME NEW c \in Channels, Subscribe(c) PROVE DataOK'
  BY <1>2 DEF Subscribe, notifyChannels, ensureConnection, sendSubscribe, isLive,
              socketVars, connectVars, timerVars, authVars
<1>3. ASSUME NEW c \in Channels, RemoveChannel(c) PROVE DataOK'
  BY <1>3 DEF RemoveChannel, abandonSocket, forgetJoins, socketVars, connectVars,
              timerVars, authVars
<1>4. ASSUME Disconnect PROVE DataOK'
  BY <1>4 DEF Disconnect, abandonSocket, forgetJoins, notifyChannels, authVars
<1>5. ASSUME NEW t \in Tokens, SwitchIdentity(t) PROVE DataOK'
  BY <1>5 DEF SwitchIdentity, channelVars, socketVars, connectVars, timerVars
<1>6. ASSUME ReauthResolves PROVE DataOK'
  BY <1>6 DEF ReauthResolves, abandonSocket, forgetJoins, notifyChannels, socketVars,
              connectVars, timerVars
<1>7. ASSUME ReauthFails PROVE DataOK'
  BY <1>7 DEF ReauthFails, spendFault, channelVars, socketVars, connectVars, timerVars
<1>8. ASSUME TokenFails PROVE DataOK'
  BY <1>8 DEF TokenFails, spendFault, reconnectIfUsed, scheduleReconnect, notifyChannels,
              socketVars, timerVars, authVars
<1>9. ASSUME TimerFires PROVE DataOK'
  BY <1>9 DEF TimerFires, ensureConnection, isLive, channelVars, socketVars, connectVars,
              authVars
<1>10. ASSUME NEW s \in Sockets, OpenSocket(s) PROVE DataOK'
  BY <1>10 DEF OpenSocket, channelVars, timerVars
<1>11. ASSUME NEW s \in Sockets, SocketOpens(s) PROVE DataOK'
  BY <1>11 DEF SocketOpens, sendSubscribe, connectVars, authVars
<1>12. ASSUME NEW s \in Sockets, ServerStartsClose(s) PROVE DataOK'
  BY <1>12 DEF ServerStartsClose, spendFault, channelVars, connectVars, timerVars, authVars
<1>13. ASSUME NEW s \in Sockets, SocketCloses(s) PROVE DataOK'
  BY <1>13 DEF SocketCloses, spendFault, forgetJoins, reconnectIfUsed, scheduleReconnect,
               notifyChannels, connectVars, timerVars, authVars
<1>14. ASSUME NEW s \in Sockets, DetachedCloses(s) PROVE DataOK'
  BY <1>14 DEF DetachedCloses, channelVars, connectVars, timerVars, authVars
<1>15. ASSUME NEW c \in Channels, JoinAcked(c) PROVE DataOK'
  BY <1>15 DEF JoinAcked, joinAnswered, notifyChannels, socketVars, connectVars, timerVars,
               authVars
<1>16. ASSUME NEW c \in Channels, JoinRefused(c) PROVE DataOK'
  BY <1>16 DEF JoinRefused, joinAnswered, spendFault, notifyChannels, socketVars,
               connectVars, timerVars, authVars
<1>17. CASE UNCHANGED vars
  BY <1>17 DEF vars, channelVars, socketVars, connectVars, timerVars, authVars
<1> QED
  BY <1>1, <1>2, <1>3, <1>4, <1>5, <1>6, <1>7, <1>8, <1>9, <1>10, <1>11, <1>12, <1>13,
     <1>14, <1>15, <1>16, <1>17 DEF Next, Caller, Runtime

(* Nor a flag. *)
LEMMA FlagsPreserved == FlagsOK /\ [Next]_vars => FlagsOK'
<1> SUFFICES ASSUME FlagsOK, [Next]_vars PROVE FlagsOK'
  OBVIOUS
<1> USE DEF FlagsOK
<1>1. ASSUME Caller PROVE FlagsOK'
  BY <1>1, Zenon DEF Caller, Channel, Subscribe, RemoveChannel, Disconnect, SwitchIdentity,
              ensureConnection, abandonSocket, socketVars, connectVars, timerVars, authVars
<1>2. ASSUME NEW s \in Sockets, OpenSocket(s) PROVE FlagsOK'
  BY <1>2, Zenon DEF OpenSocket, timerVars
<1>3. ASSUME ReauthResolves \/ ReauthFails \/ TokenFails \/ TimerFires PROVE FlagsOK'
  BY <1>3, Zenon DEF ReauthResolves, ReauthFails, TokenFails, TimerFires, ensureConnection, reconnectIfUsed,
              scheduleReconnect, abandonSocket, connectVars, timerVars, authVars
<1>4. ASSUME NEW s \in Sockets, SocketOpens(s) \/ ServerStartsClose(s) \/ SocketCloses(s) \/ DetachedCloses(s)
      PROVE  FlagsOK'
  BY <1>4, Zenon DEF SocketOpens, ServerStartsClose, SocketCloses, DetachedCloses, reconnectIfUsed,
              scheduleReconnect, connectVars, timerVars, authVars
<1>5. ASSUME NEW c \in Channels, JoinAcked(c) \/ JoinRefused(c) PROVE FlagsOK'
  BY <1>5, Zenon DEF JoinAcked, JoinRefused, joinAnswered, connectVars, timerVars, authVars
<1>6. CASE UNCHANGED vars
  BY <1>6 DEF vars, connectVars, timerVars, authVars
<1> QED
  BY <1>1, <1>2, <1>3, <1>4, <1>5, <1>6 DEF Next, Runtime

(* The variables of RealtimeClient keep their types. *)
THEOREM TypeCorrect == Spec => []TypeOK
<1>1. Init => FlagsOK
  BY DEF Init, FlagsOK
<1>2. Init => DataOK
  BY ClientAssumption DEF ClientAssumption, Init, DataOK, Statuses
<1>3. TypeOK /\ [Next]_vars => TypeOK'
  BY DataPreserved, FlagsPreserved DEF TypeOK
<1> QED
  BY <1>1, <1>2, <1>3, PTL DEF Spec, TypeOK

-----------------------------------------------------------------------------
(* Whose token the socket carries.  A cycle in flight (known) matters as much *)
(* as the socket: it is what the next socket opens with, and until it does    *)
(* currentToken is undefined, so a later reauthenticate() cannot mistake the  *)
(* connect in flight for one with the token it resolved.                      *)
TokenInv ==
    /\ ws # NoSocket => openedWith[ws] = currentToken
    /\ known # NoToken => attempt /\ currentToken = NoToken
    /\ reauths = 0 /\ ~gaveUp => /\ ws # NoSocket => currentToken = identity
                                 /\ known # NoToken => known = identity

(* No step lets go of the link between the signed-in user, the connect in flight and the socket. *)
LEMMA TokenInvPreserved == TypeOK /\ TokenInv /\ [Next]_vars => TokenInv'
<1> SUFFICES ASSUME TypeOK, TokenInv, [Next]_vars PROVE TokenInv'
  OBVIOUS
<1> USE ClientAssumption DEF ClientAssumption, TypeOK, DataOK, FlagsOK, TokenInv
<1>1. ASSUME NEW c \in Channels, Channel(c) PROVE TokenInv'
  BY <1>1 DEF Channel, socketVars, connectVars, timerVars, authVars
<1>2. ASSUME NEW c \in Channels, Subscribe(c) PROVE TokenInv'
  BY <1>2 DEF Subscribe, notifyChannels, ensureConnection, sendSubscribe, isLive,
          socketVars, connectVars, timerVars, authVars
<1>3. ASSUME NEW c \in Channels, RemoveChannel(c) PROVE TokenInv'
  BY <1>3 DEF RemoveChannel, abandonSocket, forgetJoins, socketVars, connectVars,
          timerVars, authVars
<1>4. ASSUME Disconnect PROVE TokenInv'
  BY <1>4 DEF Disconnect, abandonSocket, forgetJoins, notifyChannels, authVars
<1>5. ASSUME NEW t \in Tokens, SwitchIdentity(t) PROVE TokenInv'
  BY <1>5 DEF SwitchIdentity, channelVars, socketVars, connectVars, timerVars
<1>6. ASSUME ReauthResolves PROVE TokenInv'
  BY <1>6 DEF ReauthResolves, abandonSocket, forgetJoins, notifyChannels, socketVars,
          connectVars, timerVars
<1>7. ASSUME ReauthFails PROVE TokenInv'
  BY <1>7 DEF ReauthFails, spendFault, channelVars, socketVars, connectVars, timerVars
<1>8. ASSUME TokenFails PROVE TokenInv'
  BY <1>8 DEF TokenFails, spendFault, reconnectIfUsed, scheduleReconnect,
          notifyChannels, socketVars, timerVars, authVars
<1>9. ASSUME TimerFires PROVE TokenInv'
  BY <1>9 DEF TimerFires, ensureConnection, isLive, channelVars, socketVars,
          connectVars, authVars
<1>10. ASSUME NEW s \in Sockets, OpenSocket(s) PROVE TokenInv'
  BY <1>10 DEF OpenSocket, channelVars, timerVars
<1>11. ASSUME NEW s \in Sockets, SocketOpens(s) PROVE TokenInv'
  BY <1>11 DEF SocketOpens, sendSubscribe, connectVars, authVars
<1>12. ASSUME NEW s \in Sockets, ServerStartsClose(s) PROVE TokenInv'
  BY <1>12 DEF ServerStartsClose, spendFault, channelVars, connectVars, timerVars,
          authVars
<1>13. ASSUME NEW s \in Sockets, SocketCloses(s) PROVE TokenInv'
  BY <1>13 DEF SocketCloses, spendFault, forgetJoins, reconnectIfUsed,
          scheduleReconnect, notifyChannels, connectVars, timerVars, authVars
<1>14. ASSUME NEW s \in Sockets, DetachedCloses(s) PROVE TokenInv'
  BY <1>14 DEF DetachedCloses, channelVars, connectVars, timerVars, authVars
<1>15. ASSUME NEW c \in Channels, JoinAcked(c) PROVE TokenInv'
  BY <1>15 DEF JoinAcked, joinAnswered, notifyChannels, socketVars, connectVars,
          timerVars, authVars
<1>16. ASSUME NEW c \in Channels, JoinRefused(c) PROVE TokenInv'
  BY <1>16 DEF JoinRefused, joinAnswered, spendFault, notifyChannels, socketVars,
          connectVars, timerVars, authVars
<1>17. CASE UNCHANGED vars
  BY <1>17 DEF vars, channelVars, socketVars, connectVars, timerVars, authVars
<1> QED
  BY <1>1, <1>2, <1>3, <1>4, <1>5, <1>6, <1>7, <1>8, <1>9, <1>10, <1>11, <1>12, <1>13,
          <1>14, <1>15, <1>16, <1>17 DEF Next, Caller, Runtime

(* After every settled sign-in or sign-out the socket carries the user signed in. *)
THEOREM SocketCarriesCurrentUser == Spec => []SocketIsCurrentUser
<1>1. Init => TokenInv
  BY ClientAssumption DEF ClientAssumption, Init, TokenInv
<1>2. TokenInv => SocketIsCurrentUser
  BY DEF TokenInv, SocketIsCurrentUser
<1> QED
  BY TypeCorrect, TokenInvPreserved, <1>1, <1>2, PTL DEF Spec

-----------------------------------------------------------------------------
(* One socket, and joins only on it, until a connect overtakes a close.  A    *)
(* connect in flight means there is no live socket, so the socket it opens    *)
(* either is the only one or takes the place of one that is CLOSING.          *)
ConnectionInv ==
    ~overtaken =>
    /\ attached = IF ws = NoSocket THEN {} ELSE {ws}
    /\ ws # NoSocket => readyState[ws] # "CLOSED"
    /\ attempt => ~isLive
    /\ \A c \in Channels :
          /\ join[c] # "none" => /\ c \in registered
                                 /\ ws # NoSocket
                                 /\ joinSocket[c] = ws
                                 /\ readyState[ws] \in {"OPEN", "CLOSING"}
          /\ status[c] = "SUBSCRIBED" => join[c] = "acked"

(* Every step but that keeps a connect and a live socket apart. *)
LEMMA ConnectionInvPreserved == TypeOK /\ ConnectionInv /\ [Next]_vars => ConnectionInv'
<1> SUFFICES ASSUME TypeOK, ConnectionInv, [Next]_vars PROVE ConnectionInv'
  OBVIOUS
<1> USE ClientAssumption DEF ClientAssumption, TypeOK, DataOK, FlagsOK, Statuses,
          ConnectionInv, isLive, isClosing
<1>1. ASSUME NEW c \in Channels, Channel(c) PROVE ConnectionInv'
  BY <1>1 DEF Channel, socketVars, connectVars, timerVars, authVars
<1>2. ASSUME NEW c \in Channels, Subscribe(c) PROVE ConnectionInv'
  BY <1>2 DEF Subscribe, notifyChannels, ensureConnection, sendSubscribe, isLive,
          socketVars, connectVars, timerVars, authVars
<1>3. ASSUME NEW c \in Channels, RemoveChannel(c) PROVE ConnectionInv'
  BY <1>3 DEF RemoveChannel, abandonSocket, forgetJoins, socketVars, connectVars,
          timerVars, authVars
<1>4. ASSUME Disconnect PROVE ConnectionInv'
  BY <1>4 DEF Disconnect, abandonSocket, forgetJoins, notifyChannels, authVars
<1>5. ASSUME NEW t \in Tokens, SwitchIdentity(t) PROVE ConnectionInv'
  BY <1>5 DEF SwitchIdentity, channelVars, socketVars, connectVars, timerVars
<1>6. ASSUME ReauthResolves PROVE ConnectionInv'
  BY <1>6 DEF ReauthResolves, abandonSocket, forgetJoins, notifyChannels, socketVars,
          connectVars, timerVars
<1>7. ASSUME ReauthFails PROVE ConnectionInv'
  BY <1>7 DEF ReauthFails, spendFault, channelVars, socketVars, connectVars, timerVars
<1>8. ASSUME TokenFails PROVE ConnectionInv'
  BY <1>8 DEF TokenFails, spendFault, reconnectIfUsed, scheduleReconnect,
          notifyChannels, socketVars, timerVars, authVars
<1>9. ASSUME TimerFires PROVE ConnectionInv'
  BY <1>9 DEF TimerFires, ensureConnection, isLive, channelVars, socketVars,
          connectVars, authVars
<1>10. ASSUME NEW s \in Sockets, OpenSocket(s) PROVE ConnectionInv'
  BY <1>10 DEF OpenSocket, channelVars, timerVars
<1>11. ASSUME NEW s \in Sockets, SocketOpens(s) PROVE ConnectionInv'
  BY <1>11 DEF SocketOpens, sendSubscribe, connectVars, authVars
<1>12. ASSUME NEW s \in Sockets, ServerStartsClose(s) PROVE ConnectionInv'
  BY <1>12 DEF ServerStartsClose, spendFault, channelVars, connectVars, timerVars,
          authVars
<1>13. ASSUME NEW s \in Sockets, SocketCloses(s) PROVE ConnectionInv'
  BY <1>13 DEF SocketCloses, spendFault, forgetJoins, reconnectIfUsed,
          scheduleReconnect, notifyChannels, connectVars, timerVars, authVars
<1>14. ASSUME NEW s \in Sockets, DetachedCloses(s) PROVE ConnectionInv'
  BY <1>14 DEF DetachedCloses, channelVars, connectVars, timerVars, authVars
<1>15. ASSUME NEW c \in Channels, JoinAcked(c) PROVE ConnectionInv'
  BY <1>15 DEF JoinAcked, joinAnswered, notifyChannels, socketVars, connectVars,
          timerVars, authVars
<1>16. ASSUME NEW c \in Channels, JoinRefused(c) PROVE ConnectionInv'
  BY <1>16 DEF JoinRefused, joinAnswered, spendFault, notifyChannels, socketVars,
          connectVars, timerVars, authVars
<1>17. CASE UNCHANGED vars
  BY <1>17 DEF vars, channelVars, socketVars, connectVars, timerVars, authVars
<1> QED
  BY <1>1, <1>2, <1>3, <1>4, <1>5, <1>6, <1>7, <1>8, <1>9, <1>10, <1>11, <1>12, <1>13,
          <1>14, <1>15, <1>16, <1>17 DEF Next, Caller, Runtime

(* ConnectionInv is an invariant of the client. *)
LEMMA ConnectionInvHolds == Spec => []ConnectionInv
<1>1. Init => ConnectionInv
  BY ClientAssumption DEF ClientAssumption, Init, ConnectionInv
<1>2. TypeOK /\ ConnectionInv /\ [Next]_vars => ConnectionInv'
  BY ConnectionInvPreserved
<1> QED
  BY TypeCorrect, <1>1, <1>2, PTL DEF Spec

(* The client has one connection until a connect opens a socket over one that *)
(* is CLOSING: nothing else, no timer, subscribe(), reauthenticate() or close *)
(* in whatever order, opens a second socket beside a live one.                *)
THEOREM OneConnection == Spec => []OneLiveSocket
<1>1. ConnectionInv => OneLiveSocket
  BY DEF ConnectionInv, OneLiveSocket
<1> QED
  BY ConnectionInvHolds, <1>1, PTL

(* And until then a channel whose callbacks were last told SUBSCRIBED is      *)
(* joined, over the socket the client holds.                                  *)
THEOREM SubscribedMeansJoined == Spec => []SubscribedIsJoined
<1>1. TypeOK /\ ConnectionInv => SubscribedIsJoined
  BY DEF TypeOK, DataOK, ConnectionInv, SubscribedIsJoined
<1> QED
  BY TypeCorrect, ConnectionInvHolds, <1>1, PTL

-----------------------------------------------------------------------------
(* No lost wakeup, with sockets CLOSING and overtaken or not.                 *)
someSocketCloses == \E s \in attached : readyState[s] = "CLOSING"

SocketsInv ==
    /\ ws # NoSocket => ws \in attached
    /\ \A s \in attached : readyState[s] # "CLOSED"
    /\ attempt => ~isLive
    /\ \A c \in Channels : join[c] # "none" =>
          /\ joinSocket[c] \in attached
          /\ joinSocket[c] = ws \/ readyState[joinSocket[c]] = "CLOSING"

WakeupInv ==
    /\ waiting \subseteq registered
    /\ \A c \in waiting :
          /\ ws # NoSocket /\ readyState[ws] = "OPEN" => join[c] = "sent" \/ someSocketCloses
          /\ ~isLive => attempt \/ heldTimer \/ strayTimers > 0 \/ someSocketCloses
          /\ join[c] = "acked" => someSocketCloses

(* Every step leaves the sockets still listened to in a state an event will end. *)
LEMMA SocketsInvPreserved == TypeOK /\ SocketsInv /\ [Next]_vars => SocketsInv'
<1> SUFFICES ASSUME TypeOK, SocketsInv, [Next]_vars PROVE SocketsInv'
  OBVIOUS
<1> USE ClientAssumption DEF ClientAssumption, TypeOK, DataOK, FlagsOK, SocketsInv,
          isLive
<1>1. ASSUME NEW c \in Channels, Channel(c) PROVE SocketsInv'
  BY <1>1 DEF Channel, socketVars, connectVars, timerVars, authVars
<1>2. ASSUME NEW c \in Channels, Subscribe(c) PROVE SocketsInv'
  BY <1>2 DEF Subscribe, notifyChannels, ensureConnection, sendSubscribe, isLive,
          socketVars, connectVars, timerVars, authVars
<1>3. ASSUME NEW c \in Channels, RemoveChannel(c) PROVE SocketsInv'
  BY <1>3 DEF RemoveChannel, abandonSocket, forgetJoins, socketVars, connectVars,
          timerVars, authVars
<1>4. ASSUME Disconnect PROVE SocketsInv'
  BY <1>4 DEF Disconnect, abandonSocket, forgetJoins, notifyChannels, authVars
<1>5. ASSUME NEW t \in Tokens, SwitchIdentity(t) PROVE SocketsInv'
  BY <1>5 DEF SwitchIdentity, channelVars, socketVars, connectVars, timerVars
<1>6. ASSUME ReauthResolves PROVE SocketsInv'
  BY <1>6 DEF ReauthResolves, abandonSocket, forgetJoins, notifyChannels, socketVars,
          connectVars, timerVars
<1>7. ASSUME ReauthFails PROVE SocketsInv'
  BY <1>7 DEF ReauthFails, spendFault, channelVars, socketVars, connectVars, timerVars
<1>8. ASSUME TokenFails PROVE SocketsInv'
  BY <1>8 DEF TokenFails, spendFault, reconnectIfUsed, scheduleReconnect,
          notifyChannels, socketVars, timerVars, authVars
<1>9. ASSUME TimerFires PROVE SocketsInv'
  BY <1>9 DEF TimerFires, ensureConnection, isLive, channelVars, socketVars,
          connectVars, authVars
<1>10. ASSUME NEW s \in Sockets, OpenSocket(s) PROVE SocketsInv'
  BY <1>10 DEF OpenSocket, channelVars, timerVars
<1>11. ASSUME NEW s \in Sockets, SocketOpens(s) PROVE SocketsInv'
  BY <1>11 DEF SocketOpens, sendSubscribe, connectVars, authVars
<1>12. ASSUME NEW s \in Sockets, ServerStartsClose(s) PROVE SocketsInv'
  BY <1>12 DEF ServerStartsClose, spendFault, channelVars, connectVars, timerVars,
          authVars
<1>13. ASSUME NEW s \in Sockets, SocketCloses(s) PROVE SocketsInv'
  BY <1>13 DEF SocketCloses, spendFault, forgetJoins, reconnectIfUsed,
          scheduleReconnect, notifyChannels, connectVars, timerVars, authVars
<1>14. ASSUME NEW s \in Sockets, DetachedCloses(s) PROVE SocketsInv'
  BY <1>14 DEF DetachedCloses, channelVars, connectVars, timerVars, authVars
<1>15. ASSUME NEW c \in Channels, JoinAcked(c) PROVE SocketsInv'
  BY <1>15 DEF JoinAcked, joinAnswered, notifyChannels, socketVars, connectVars,
          timerVars, authVars
<1>16. ASSUME NEW c \in Channels, JoinRefused(c) PROVE SocketsInv'
  BY <1>16 DEF JoinRefused, joinAnswered, spendFault, notifyChannels, socketVars,
          connectVars, timerVars, authVars
<1>17. CASE UNCHANGED vars
  BY <1>17 DEF vars, channelVars, socketVars, connectVars, timerVars, authVars
<1> QED
  BY <1>1, <1>2, <1>3, <1>4, <1>5, <1>6, <1>7, <1>8, <1>9, <1>10, <1>11, <1>12, <1>13,
          <1>14, <1>15, <1>16, <1>17 DEF Next, Caller, Runtime

(* Every step that takes a waiting channel's last hope leaves it another. *)
LEMMA WakeupInvPreserved == TypeOK /\ SocketsInv /\ WakeupInv /\ [Next]_vars => WakeupInv'
<1> SUFFICES ASSUME TypeOK, SocketsInv, WakeupInv, [Next]_vars PROVE WakeupInv'
  OBVIOUS
<1> USE ClientAssumption DEF ClientAssumption, TypeOK, DataOK, FlagsOK, SocketsInv,
          WakeupInv, isLive, someSocketCloses
<1>1. ASSUME NEW c \in Channels, Channel(c) PROVE WakeupInv'
  BY <1>1 DEF Channel, socketVars, connectVars, timerVars, authVars
<1>2. ASSUME NEW c \in Channels, Subscribe(c) PROVE WakeupInv'
  BY <1>2 DEF Subscribe, notifyChannels, ensureConnection, sendSubscribe, isLive,
          socketVars, connectVars, timerVars, authVars
<1>3. ASSUME NEW c \in Channels, RemoveChannel(c) PROVE WakeupInv'
  BY <1>3 DEF RemoveChannel, abandonSocket, forgetJoins, socketVars, connectVars,
          timerVars, authVars
<1>4. ASSUME Disconnect PROVE WakeupInv'
  BY <1>4 DEF Disconnect, abandonSocket, forgetJoins, notifyChannels, authVars
<1>5. ASSUME NEW t \in Tokens, SwitchIdentity(t) PROVE WakeupInv'
  BY <1>5 DEF SwitchIdentity, channelVars, socketVars, connectVars, timerVars
<1>6. ASSUME ReauthResolves PROVE WakeupInv'
  BY <1>6 DEF ReauthResolves, abandonSocket, forgetJoins, notifyChannels, socketVars,
          connectVars, timerVars
<1>7. ASSUME ReauthFails PROVE WakeupInv'
  BY <1>7 DEF ReauthFails, spendFault, channelVars, socketVars, connectVars, timerVars
<1>8. ASSUME TokenFails PROVE WakeupInv'
  BY <1>8 DEF TokenFails, spendFault, reconnectIfUsed, scheduleReconnect,
          notifyChannels, socketVars, timerVars, authVars
<1>9. ASSUME TimerFires PROVE WakeupInv'
  BY <1>9 DEF TimerFires, ensureConnection, isLive, channelVars, socketVars,
          connectVars, authVars
<1>10. ASSUME NEW s \in Sockets, OpenSocket(s) PROVE WakeupInv'
  BY <1>10 DEF OpenSocket, channelVars, timerVars
<1>11. ASSUME NEW s \in Sockets, SocketOpens(s) PROVE WakeupInv'
  BY <1>11 DEF SocketOpens, sendSubscribe, connectVars, authVars
<1>12. ASSUME NEW s \in Sockets, ServerStartsClose(s) PROVE WakeupInv'
  BY <1>12 DEF ServerStartsClose, spendFault, channelVars, connectVars, timerVars,
          authVars
<1>13. ASSUME NEW s \in Sockets, SocketCloses(s) PROVE WakeupInv'
  BY <1>13 DEF SocketCloses, spendFault, forgetJoins, reconnectIfUsed,
          scheduleReconnect, notifyChannels, connectVars, timerVars, authVars
<1>14. ASSUME NEW s \in Sockets, DetachedCloses(s) PROVE WakeupInv'
  BY <1>14 DEF DetachedCloses, channelVars, connectVars, timerVars, authVars
<1>15. ASSUME NEW c \in Channels, JoinAcked(c) PROVE WakeupInv'
  BY <1>15 DEF JoinAcked, joinAnswered, notifyChannels, socketVars, connectVars,
          timerVars, authVars
<1>16. ASSUME NEW c \in Channels, JoinRefused(c) PROVE WakeupInv'
  BY <1>16 DEF JoinRefused, joinAnswered, spendFault, notifyChannels, socketVars,
          connectVars, timerVars, authVars
<1>17. CASE UNCHANGED vars
  BY <1>17 DEF vars, channelVars, socketVars, connectVars, timerVars, authVars
<1> QED
  BY <1>1, <1>2, <1>3, <1>4, <1>5, <1>6, <1>7, <1>8, <1>9, <1>10, <1>11, <1>12, <1>13,
          <1>14, <1>15, <1>16, <1>17 DEF Next, Caller, Runtime

(* A channel that waits for its SUBSCRIBED always has somebody left to act    *)
(* for it: no callback order loses the reconnect.                             *)
THEOREM NobodyIsStranded == Spec => []NoStrandedChannel
<1>1. Init => SocketsInv /\ WakeupInv
  BY ClientAssumption DEF ClientAssumption, Init, SocketsInv, WakeupInv, isLive
<1>2. TypeOK /\ SocketsInv /\ WakeupInv => NoStrandedChannel
  BY DEF TypeOK, DataOK, SocketsInv, WakeupInv, NoStrandedChannel, someoneActsFor,
         someSocketCloses, isLive
<1> QED
  BY TypeCorrect, SocketsInvPreserved, WakeupInvPreserved, <1>1, <1>2, PTL DEF Spec
=============================================================================
