---- MODULE AuthSessionProofs ----
(***************************************************************************)
(* What is proved of AuthSession, for every set of users and of calls, any *)
(* number of tokens and whatever the client was given.                     *)
(*                                                                         *)
(* The handlers are first sorted by what they do to a call and to the      *)
(* session (Starting, Moving, Asking, ...): there are fewer ways than      *)
(* handlers, and each part of the invariant is shown for the ways. The     *)
(* argument is about tokens on their way. An answer brings a token nobody  *)
(* has seen, so whatever session it makes is none that a call has found    *)
(* dead; and between two refreshes refreshInFlight is null, so the calls   *)
(* that join one are those it wakes.                                       *)
(***************************************************************************)
EXTENDS AuthSession, TLAPS

Everyone == Calls \union {Boot}
Refreshing == {"refreshing", "refreshed"}

----------------------------------------------------------------------------
(* The invariant *)

\* A call is somewhere on the path its operation takes, and holds only tokens
\* the server, n tokens on, has issued.
WellFormed(rec, n) ==
    /\ rec \in CallRecord
    /\ rec.token \in 0..n /\ rec.res \in 0..n /\ rec.dead \subseteq 1..n
    /\ rec.op = "none" => rec.pc = "idle"
    /\ rec.op = "boot" => rec.pc \in {"load", "announce", "redirect", "sent", "answered",
                                      "refreshing", "refreshed", "joined"}
    /\ rec.op \in {"signIn", "signOut", "refresh", "updateUser"} => rec.pc \in {"sent", "answered"}
    /\ rec.op = "getSession" => rec.pc \in {"ensure", "headers", "refreshing", "refreshed", "joined"}
    /\ rec.op = "request" => rec.pc \in {"ensure", "headers", "refused", "verdict", "sent", "answered",
                                         "refreshing", "refreshed", "joined"}
    /\ rec.pc \in Refreshing \union {"joined"} =>
            /\ rec.op = "boot" => rec.then = "announce"
            /\ rec.op = "getSession" => rec.then = "headers"
            /\ rec.op = "request" => rec.then \in {"headers", "verdict"}
    /\ rec.pc = "refreshing" \/ rec.op \in {"refresh", "updateUser"} => rec.token # NoToken
    /\ rec.op = "request" /\ rec.pc = "answered" /\ rec.res = 1 => rec.token # NoToken
    /\ rec.op = "signOut" => rec.res = 0

TypeInv ==
    /\ TypeOK
    /\ \A c \in Everyone : WellFormed(calls[c], Len(issued))
    /\ calls[Boot].op \in {"none", "boot"}
    /\ \A c \in Calls : calls[c].op # "boot"

\* refreshInFlight is the refresh in flight, and the one every joined call joined.
InFlightInv ==
    \A c \in Everyone :
        /\ calls[c].pc \in Refreshing <=> inFlight = c
        /\ calls[c].pc = "joined" => inFlight # NoCall /\ calls[c].leader = inFlight

\* A call that is bringing the session a token.
Brings(rec) ==
    /\ rec.res # NoToken
    /\ \/ rec.pc = "refreshed"
       \/ rec.pc = "answered" /\ rec.op \in {"refresh", "signIn", "boot"}

\* A token on its way is new to the session, to storage and to every call.
FreshInv ==
    \A d \in Everyone : Brings(calls[d]) =>
        /\ calls[d].res \notin {session.token, stored.token}
        /\ \A c \in Everyone :
                /\ calls[d].res # calls[c].token
                /\ calls[d].res \notin calls[c].dead
                /\ c # d /\ Brings(calls[c]) => calls[d].res # calls[c].res

\* A request about to take the session's token finds none it knows to be dead,
\* but for the refused one, which it looks for, and which is the only one a
\* client knows that leaves expired sessions to the server.
MindsTheDead(c) ==
    calls[c].op = "request" =>
        /\ \A t \in calls[c].dead : t # calls[c].refused => age[t] = "expired"
        /\ ~options.refreshExpiredToken => calls[c].dead \subseteq {calls[c].refused}
        /\ calls[c].pc = "headers" /\ session.token \in calls[c].dead => session.token = calls[c].refused
        /\ calls[c].pc = "sent" => calls[c].token \notin calls[c].dead
        /\ calls[c].pc # "ensure" => Ready

DeadInv == \A c \in Calls : MindsTheDead(c)

\* With a storage that answers at once only a redirect sets the session aside,
\* and its answer puts that right.
StoredInv ==
    options.storage = "sync" =>
        /\ calls[Boot].pc \in {"idle", "redirect", "sent", "answered"}
        /\ calls[Boot].pc = "idle" => session = stored /\ session = heard

AuthInv == TypeInv /\ InFlightInv /\ FreshInv /\ DeadInv /\ StoredInv

----------------------------------------------------------------------------
(* The ways a step goes *)

Only(c) == calls' \in [Everyone -> CallRecord] /\ \A d \in Everyone \ {c} : calls'[d] = calls[d]

\* signOut without a session, or the refresh of one that has no refresh token.
SigningOut ==
    /\ session' = NoSession /\ stored' = NoSession /\ heard' = NoSession /\ timer' = NoToken
    /\ UNCHANGED <<options, calls, inFlight, issued, age>>

\* A call begins.
Starting(c) ==
    /\ Only(c) /\ c \in Calls
    /\ calls[c].op = "none"
    /\ calls'[c].op \in {"signIn", "signOut", "refresh", "updateUser", "getSession", "request"}
    /\ calls'[c].pc = IF calls'[c].op \in {"getSession", "request"} THEN "ensure" ELSE "sent"
    /\ calls'[c].token \in {NoToken, session.token}
    /\ calls'[c].op \in {"refresh", "updateUser"} => calls'[c].token # NoToken
    /\ calls'[c].refused = NoToken /\ calls'[c].dead = {} /\ calls'[c].res = 0
    /\ timer' \in {timer, NoToken}
    /\ UNCHANGED <<options, session, stored, heard, inFlight, issued, age>>

\* A call is over without an answer.
Finishing(c) ==
    /\ Only(c) /\ c \in Calls
    /\ calls[c].pc \in {"headers", "refused", "verdict"}
    /\ calls'[c] = Idle
    /\ UNCHANGED <<options, session, stored, heard, timer, inFlight, issued, age>>

\* A call goes on with the session as it is.
Moving(c) ==
    /\ Only(c) /\ c \in Calls
    /\ calls'[c].op = calls[c].op /\ calls'[c].refused = calls[c].refused
    /\ calls'[c].dead = calls[c].dead /\ calls'[c].res = calls[c].res
    /\ \/ /\ calls[c].pc = "ensure" /\ calls'[c].pc = "headers" /\ calls'[c].token = calls[c].token
          /\ Ready
          /\ session.token # NoToken => age[session.token] # "expired" \/ ~options.refreshExpiredToken
       \/ /\ calls[c].pc = "headers" /\ calls'[c].pc = "sent" /\ calls'[c].token = session.token
          /\ calls[c].op = "request"
          /\ calls[c].refused # NoToken => session.token # calls[c].refused
       \/ /\ calls[c].pc \in {"refused", "verdict"} /\ calls'[c].pc = "ensure"
          /\ calls'[c].token = calls[c].token
    /\ UNCHANGED <<options, session, stored, heard, timer, inFlight, issued, age>>

\* A call has the session refreshed, or waits for the refresh in flight.
Asking(c) ==
    /\ Only(c) /\ c \in Calls /\ Ready /\ options.refreshExpiredToken
    /\ calls[c].pc \in {"ensure", "refused"}
    /\ calls'[c].op = calls[c].op /\ calls'[c].refused = calls[c].refused /\ calls'[c].res = calls[c].res
    /\ calls'[c].then = IF calls[c].pc = "ensure" THEN "headers" ELSE "verdict"
    /\ session.token # NoToken /\ calls'[c].token = session.token
    /\ calls'[c].dead \subseteq calls[c].dead \union {session.token}
    /\ session.token \in calls'[c].dead => session.token \in calls[c].dead \/ age[session.token] = "expired"
    /\ \/ inFlight = NoCall /\ inFlight' = c /\ calls'[c].pc = "refreshing"
       \/ inFlight # NoCall /\ inFlight' = inFlight /\ calls'[c].pc = "joined" /\ calls'[c].leader = inFlight
    /\ UNCHANGED <<options, session, stored, heard, timer, issued, age>>

\* A call finds a session that has to be refreshed and cannot be.
Dropping(c) ==
    /\ Only(c) /\ c \in Calls /\ Ready /\ options.refreshExpiredToken
    /\ calls[c].pc \in {"ensure", "refused"}
    /\ calls'[c].pc = IF calls[c].pc = "ensure" THEN "headers" ELSE "verdict"
    /\ calls'[c].op = calls[c].op /\ calls'[c].refused = calls[c].refused
    /\ calls'[c].token = calls[c].token /\ calls'[c].res = calls[c].res
    /\ session.token # NoToken
    /\ calls'[c].dead \subseteq calls[c].dead \union {session.token}
    /\ session.token \in calls'[c].dead => session.token \in calls[c].dead \/ age[session.token] = "expired"
    /\ session' = NoSession /\ stored' = NoSession /\ heard' = NoSession /\ timer' = NoToken
    /\ UNCHANGED <<options, inFlight, issued, age>>

\* The server answers, with a new token or without.
Answering(c) ==
    /\ Only(c)
    /\ calls'[c].op = calls[c].op /\ calls'[c].token = calls[c].token /\ calls'[c].then = calls[c].then
    /\ calls'[c].refused = calls[c].refused /\ calls'[c].dead = calls[c].dead
    /\ \/ calls[c].pc = "refreshing" /\ calls'[c].pc = "refreshed"
       \/ calls[c].pc = "sent" /\ calls'[c].pc = "answered"
    /\ \/ /\ issued' \in Seq(Users) /\ Len(issued') = Len(issued) + 1 /\ Len(issued') <= MaxTokens
          /\ \A t \in 1..Len(issued) : issued'[t] = issued[t]
          /\ calls'[c].res = Len(issued')
          /\ calls[c].pc = "refreshing" \/ calls[c].op \in {"refresh", "signIn", "boot"}
       \/ /\ UNCHANGED issued
          /\ calls'[c].res \in {0, 1}
          /\ calls'[c].res = 1 => calls[c].op \in {"updateUser", "request"} /\ calls[c].pc = "sent"
                                  /\ calls[c].token # NoToken
    /\ UNCHANGED <<options, session, stored, heard, timer, inFlight, age>>

\* An answer arrives, and ends or replaces the session or is only handed on.
Receiving(c) ==
    /\ Only(c)
    /\ calls[c].pc = "answered"
    /\ \/ /\ SetSession(SessionOf(calls[c].res))
          /\ calls[c].res # NoToken => Brings(calls[c])
       \/ /\ session' \in Sessions /\ session'.token = session.token /\ session # NoSession
          /\ stored' = session' /\ heard' = session'
          /\ UNCHANGED timer
          /\ calls[c].op # "boot"
       \/ UNCHANGED <<session, stored, heard, timer>> /\ calls[c].op # "boot"
    /\ \/ calls'[c] = Idle
       \/ /\ calls[c].op = "request" /\ calls'[c].op = "request" /\ calls'[c].pc = "refused"
          /\ calls[c].refused = NoToken /\ calls'[c].refused = calls[c].token
          /\ calls'[c].token = NoToken /\ calls'[c].res = 0
          /\ calls'[c].dead = calls[c].dead \union {calls[c].token} /\ calls[c].token # NoToken
    /\ UNCHANGED <<options, inFlight, issued, age>>

\* Call d goes on after the refresh it asked for or waited for.
Woken(d) ==
    /\ calls'[d] \in CallRecord
    /\ calls'[d].pc = calls[d].then /\ calls'[d].op = calls[d].op /\ calls'[d].refused = calls[d].refused
    /\ calls'[d].dead = calls[d].dead /\ calls'[d].res = 0
    /\ calls'[d].token \in {NoToken, calls[d].token}

Settling(c) ==
    /\ calls[c].pc = "refreshed"
    /\ SetSession(SessionOf(calls[c].res))
    /\ inFlight' = NoCall
    /\ DOMAIN calls' = Everyone /\ calls' = [d \in Everyone |-> calls'[d]]
    /\ \A d \in Everyone : IF d = c \/ (calls[d].pc = "joined" /\ calls[d].leader = c)
                           THEN Woken(d) ELSE calls'[d] = calls[d]
    /\ UNCHANGED <<options, issued, age>>

\* The client starts: what was stored is loaded and announced, a redirect begins.
Loading ==
    /\ Only(Boot) /\ calls[Boot].pc = "load"
    /\ calls'[Boot].token \in {NoToken, calls[Boot].token, stored.token}
    /\ calls'[Boot].dead \subseteq calls[Boot].dead /\ calls'[Boot].res \in {0, calls[Boot].res}
    /\ session' \in {session, stored, NoSession} /\ stored' \in {stored, NoSession}
    /\ heard' \in {heard, stored, NoSession} /\ timer' \in {timer, stored.token, NoToken}
    /\ \/ /\ calls'[Boot].op \in {"none", "boot"} /\ UNCHANGED inFlight
          /\ calls'[Boot].pc = IF calls'[Boot].op = "none" THEN "idle" ELSE "redirect"
       \/ /\ calls'[Boot].op = "boot" /\ calls'[Boot].token # NoToken /\ calls'[Boot].then = "announce"
          /\ \/ inFlight = NoCall /\ inFlight' = Boot /\ calls'[Boot].pc = "refreshing"
             \/ /\ inFlight # NoCall /\ inFlight' = inFlight
                /\ calls'[Boot].pc = "joined" /\ calls'[Boot].leader = inFlight
       \/ /\ calls'[Boot].op = "boot" /\ calls'[Boot].pc = "announce" /\ UNCHANGED inFlight
    /\ UNCHANGED <<options, issued, age>>

Announcing ==
    /\ Only(Boot) /\ calls[Boot].pc = "announce"
    /\ calls'[Boot].token = NoToken /\ calls'[Boot].dead = {} /\ calls'[Boot].res = 0
    /\ calls'[Boot].op \in {"none", "boot"}
    /\ calls'[Boot].pc = IF calls'[Boot].op = "none" THEN "idle" ELSE "redirect"
    /\ heard' = SessionOf(calls[Boot].token)
    /\ UNCHANGED <<options, session, stored, timer, inFlight, issued, age>>

Redirecting ==
    /\ Only(Boot) /\ calls[Boot].pc = "redirect" /\ calls'[Boot].pc = "sent"
    /\ calls'[Boot].op = calls[Boot].op /\ calls'[Boot].token = calls[Boot].token
    /\ calls'[Boot].dead = calls[Boot].dead /\ calls'[Boot].res = calls[Boot].res
    /\ session' = NoSession
    /\ UNCHANGED <<options, stored, heard, timer, inFlight, issued, age>>

\* Time passes: a token that has expired stays so.
Ageing ==
    /\ age' \in [Token -> {"fresh", "near", "expired"}]
    /\ \A t \in Token : age[t] = "expired" => age'[t] = "expired"
    /\ UNCHANGED <<options, session, stored, heard, timer, inFlight, calls, issued>>

Going ==
    \/ SigningOut \/ Loading \/ Announcing \/ Redirecting \/ Ageing \/ UNCHANGED vars
    \/ \E c \in Everyone : \/ Starting(c) \/ Finishing(c) \/ Moving(c) \/ Asking(c) \/ Dropping(c)
                           \/ Answering(c) \/ Receiving(c) \/ Settling(c)


----------------------------------------------------------------------------
(* Every handler goes one of these ways *)

LEMMA Basics ==
    ASSUME TypeInv
    PROVE  /\ Len(issued) \in Nat /\ Len(issued) >= 1 /\ Len(issued) <= MaxTokens /\ MaxTokens \in Nat
           /\ NoSession \in Sessions /\ session \in Sessions /\ stored \in Sessions /\ heard \in Sessions
           /\ session.token \in 0..Len(issued) /\ stored.token \in 0..Len(issued)
           /\ session = NoSession <=> session.token = NoToken
           /\ stored = NoSession <=> stored.token = NoToken
           /\ \A t \in 0..Len(issued) : SessionOf(t) \in Sessions /\ SessionOf(t).token = t
           /\ \A t \in 1..Len(issued) : issued[t] \in Users
           /\ calls \in [Everyone -> CallRecord] /\ DOMAIN calls = Everyone
           /\ Boot \in Everyone /\ Boot \notin Calls /\ NoCall \notin Everyone
           /\ Calls \subseteq Everyone
<1>1. Len(issued) \in Nat /\ Len(issued) >= 1 /\ Len(issued) <= MaxTokens /\ MaxTokens \in Nat
  BY BoundAssumption DEF TypeInv, TypeOK
<1>2. session \in Sessions /\ stored \in Sessions /\ heard \in Sessions
  BY DEF TypeInv, TypeOK
<1>3. \A t \in 1..Len(issued) : issued[t] \in Users
  BY DEF TypeInv, TypeOK
<1>4. ASSUME NEW s \in Sessions
      PROVE  s.token \in 0..Len(issued) /\ (s = NoSession <=> s.token = NoToken)
  BY <1>1 DEF Sessions, NoSession, NoToken
<1>5. ASSUME NEW t \in 0..Len(issued) PROVE SessionOf(t) \in Sessions /\ SessionOf(t).token = t
  BY <1>1, <1>3 DEF SessionOf, Sessions, NoSession, NoToken
<1>6. calls \in [Everyone -> CallRecord]
  BY DEF TypeInv, TypeOK, Everyone
<1> QED
  BY <1>1, <1>2, <1>3, <1>4, <1>5, <1>6, CallsAssumption DEF Everyone, Sessions

LEMMA IdleIsACall ==
    /\ Idle \in CallRecord
    /\ Idle.op = "none" /\ Idle.pc = "idle" /\ Idle.token = NoToken /\ Idle.refused = NoToken
    /\ Idle.dead = {} /\ Idle.res = 0
BY BoundAssumption DEF Idle, CallRecord, NoToken

LEMMA BeginIsACall ==
    ASSUME NEW op \in {"boot", "signIn", "signOut", "refresh", "updateUser", "getSession", "request"},
           NEW pc \in {"load", "redirect", "ensure", "sent"},
           NEW rec, rec = Begin(op, pc)
    PROVE  /\ rec \in CallRecord
           /\ rec.op = op /\ rec.pc = pc /\ rec.token = NoToken /\ rec.refused = NoToken
           /\ rec.dead = {} /\ rec.res = 0
<1>1. Idle \in CallRecord
  BY IdleIsACall
<1>2. rec.op = op /\ rec.pc = pc /\ rec.token = Idle.token /\ rec.refused = Idle.refused
      /\ rec.dead = Idle.dead /\ rec.res = Idle.res /\ rec \in CallRecord
  BY <1>1 DEF Begin, CallRecord
<1> QED
  BY <1>2, IdleIsACall

LEMMA TimerIs ==
    ASSUME NEW t
    PROVE  TimerOf(t) \in {t, NoToken}
BY DEF TimerOf

\* What Become leaves: one record replaced.
LEMMA Becoming ==
    ASSUME TypeInv, NEW c \in Everyone, NEW rec \in CallRecord, Become(c, rec)
    PROVE  Only(c) /\ calls'[c] = rec
BY Basics DEF Become, Only

LEMMA StartIs ==
    ASSUME TypeInv, NEW c \in Calls,
           \/ signIn(c) \/ updateUser(c) \/ getSession(c) \/ request(c)
           \/ TimerFires(c) \/ (signOut(c) /\ session # NoSession)
           \/ (refreshSession(c) /\ session.token \notin options.bare)
    PROVE  Starting(c)
<1>1. c \in Everyone /\ session.token \in 0..MaxTokens /\ calls[c].op = "none"
  BY Basics, IdleIsACall DEF signIn, refreshSession, updateUser, getSession, request, TimerFires, signOut, Free
<1>2. ASSUME NEW op \in {"signIn", "getSession", "request"}, NEW pc \in {"sent", "ensure"},
             pc = (IF op = "signIn" THEN "sent" ELSE "ensure"),
             Become(c, Begin(op, pc)), timer' \in {timer, NoToken},
             UNCHANGED <<options, session, stored, heard, inFlight, issued, age>>
      PROVE  Starting(c)
  <2>1. PICK rec : rec = Begin(op, pc)
    OBVIOUS
  <2>2. /\ rec \in CallRecord
        /\ rec.op = op /\ rec.pc = pc /\ rec.token = NoToken /\ rec.refused = NoToken
        /\ rec.dead = {} /\ rec.res = 0
    BY <2>1, BeginIsACall
  <2>3. Only(c) /\ calls'[c] = rec
    BY <1>1, <1>2, <2>1, <2>2, Becoming
  <2> QED
    BY <1>1, <1>2, <2>2, <2>3 DEF Starting
<1>3. ASSUME NEW op \in {"signOut", "refresh", "updateUser"}, session # NoSession,
             Become(c, [Begin(op, "sent") EXCEPT !.token = session.token]),
             UNCHANGED <<options, session, stored, heard, timer, inFlight, issued, age>>
      PROVE  Starting(c)
  <2>1. PICK old : old = Begin(op, "sent")
    OBVIOUS
  <2>2. /\ old \in CallRecord
        /\ old.op = op /\ old.pc = "sent" /\ old.refused = NoToken
        /\ old.dead = {} /\ old.res = 0
    BY <2>1, BeginIsACall
  <2>3. PICK rec : rec = [old EXCEPT !.token = session.token]
    OBVIOUS
  <2>4. /\ rec \in CallRecord
        /\ rec.op = op /\ rec.pc = "sent" /\ rec.token = session.token /\ rec.refused = NoToken
        /\ rec.dead = {} /\ rec.res = 0
    BY <1>1, <2>2, <2>3 DEF CallRecord
  <2>5. Only(c) /\ calls'[c] = rec
    BY <1>1, <1>3, <2>1, <2>3, <2>4, Becoming
  <2>6. session.token # NoToken
    BY <1>3, Basics
  <2> QED
    BY <1>1, <1>3, <2>4, <2>5, <2>6 DEF Starting
<1>4. CASE signIn(c)
  BY <1>2, <1>4 DEF signIn, client
<1>5. CASE getSession(c) \/ request(c)
  BY <1>2, <1>5 DEF getSession, request, client
<1>6. CASE TimerFires(c)
  BY <1>2, <1>6 DEF TimerFires
<1>7. CASE (refreshSession(c) /\ session.token \notin options.bare) \/ updateUser(c)
  BY <1>3, <1>7 DEF refreshSession, updateUser, client
<1>8. CASE signOut(c) /\ session # NoSession
  BY <1>3, <1>8 DEF signOut, client
<1> QED BY <1>4, <1>5, <1>6, <1>7, <1>8

LEMMA Clearing ==
    ASSUME SetSession(NoSession)
    PROVE  session' = NoSession /\ stored' = NoSession /\ heard' = NoSession /\ timer' = NoToken
BY TimerIs DEF SetSession, NoSession

LEMMA SignOutIs ==
    ASSUME TypeInv, NEW c \in Calls,
           (signOut(c) /\ session = NoSession) \/ (refreshSession(c) /\ session.token \in options.bare)
    PROVE  SigningOut
BY Clearing DEF signOut, refreshSession, SigningOut

\* A call that is at a place only calls of the application reach.
LEMMA OfTheApplication ==
    ASSUME TypeInv, NEW c \in Everyone,
           calls[c].pc \in {"ensure", "headers", "refused", "verdict"}
    PROVE  c \in Calls /\ calls[c].op \in {"getSession", "request"} /\ calls[c] \in CallRecord
           /\ (calls[c].op = "getSession" => calls[c].pc \in {"ensure", "headers"})
<1>1. WellFormed(calls[c], Len(issued)) /\ calls[Boot].op \in {"none", "boot"}
      /\ (c \in Calls => calls[c].op # "boot")
  BY DEF TypeInv
<1>2. calls[c].op # "boot" /\ calls[c].op # "none" /\ calls[c] \in CallRecord
  BY <1>1 DEF WellFormed, Refreshing
<1>3. c # Boot
  BY <1>1, <1>2
<1>4. calls[c].op \in {"getSession", "request"}
  BY <1>1, <1>2 DEF WellFormed, CallRecord
<1> QED
  BY <1>1, <1>2, <1>3, <1>4 DEF WellFormed, Everyone

\* Moving a call on changes only where it is.
LEMMA MoveIs ==
    ASSUME TypeInv, NEW c \in Everyone, NEW pc \in {"ensure", "headers", "sent"}, Move(c, pc)
    PROVE  /\ Only(c) /\ calls'[c].pc = pc
           /\ calls'[c].op = calls[c].op /\ calls'[c].refused = calls[c].refused
           /\ calls'[c].token = calls[c].token
           /\ calls'[c].dead = calls[c].dead /\ calls'[c].res = calls[c].res
<1>1. calls[c] \in CallRecord
  BY Basics
<1>2. PICK rec : rec = [calls[c] EXCEPT !.pc = pc]
  OBVIOUS
<1>3. /\ rec \in CallRecord /\ rec.pc = pc
      /\ rec.op = calls[c].op /\ rec.refused = calls[c].refused /\ rec.token = calls[c].token
      /\ rec.dead = calls[c].dead /\ rec.res = calls[c].res
  BY <1>1, <1>2 DEF CallRecord
<1>4. Only(c) /\ calls'[c] = rec
  BY <1>2, <1>3, Becoming DEF Move
<1> QED
  BY <1>3, <1>4

LEMMA FinishIs ==
    ASSUME TypeInv, NEW c \in Everyone, Finish(c)
    PROVE  Only(c) /\ calls'[c] = Idle
BY Becoming, IdleIsACall DEF Finish

\* refreshOnce of the session's token, with dead the tokens the call then knows to be dead.
LEMMA RefreshOnceIs ==
    ASSUME TypeInv, NEW c \in Calls, NEW then \in {"headers", "verdict"}, NEW dead,
           calls[c].pc = (IF then = "headers" THEN "ensure" ELSE "refused"),
           Ready, options.refreshExpiredToken, session # NoSession, refreshOnce(c, then, dead),
           dead \subseteq calls[c].dead \union {session.token},
           session.token \in dead => session.token \in calls[c].dead \/ age[session.token] = "expired",
           UNCHANGED <<options, session, stored, heard, timer, issued, age>>
    PROVE  Asking(c)
<1>1. c \in Everyone /\ calls[c] \in CallRecord /\ session.token \in 1..Len(issued)
      /\ Len(issued) \in Nat /\ Len(issued) <= MaxTokens /\ MaxTokens \in Nat
  BY Basics DEF NoToken
<1>2. dead \in SUBSET Token /\ session.token \in 0..MaxTokens
  BY <1>1 DEF CallRecord, Token
<1>3. PICK rec : rec = [calls[c] EXCEPT !.then = then, !.dead = dead, !.token = session.token]
  OBVIOUS
<1>4. /\ rec \in CallRecord /\ rec.then = then /\ rec.dead = dead /\ rec.token = session.token
      /\ rec.op = calls[c].op /\ rec.refused = calls[c].refused /\ rec.res = calls[c].res
  BY <1>1, <1>2, <1>3 DEF CallRecord
<1>5. CASE inFlight = NoCall
  <2>1. PICK new : new = [rec EXCEPT !.pc = "refreshing"]
    OBVIOUS
  <2>2. /\ new \in CallRecord /\ new.then = then /\ new.dead = dead /\ new.token = session.token
        /\ new.op = calls[c].op /\ new.refused = calls[c].refused /\ new.res = calls[c].res
        /\ new.pc = "refreshing"
    BY <1>4, <2>1 DEF CallRecord
  <2>3. Become(c, new) /\ inFlight' = c
    BY <1>3, <1>5, <2>1 DEF refreshOnce
  <2>4. Only(c) /\ calls'[c] = new
    BY <1>1, <2>2, <2>3, Becoming
  <2> QED
    BY <1>1, <1>5, <2>2, <2>3, <2>4, Basics DEF Asking
<1>6. CASE inFlight # NoCall
  <2>1. PICK new : new = [rec EXCEPT !.pc = "joined", !.leader = inFlight]
    OBVIOUS
  <2>0. inFlight \in Calls \union {Boot, NoCall}
    BY DEF TypeInv, TypeOK
  <2>2. /\ new \in CallRecord /\ new.then = then /\ new.dead = dead /\ new.token = session.token
        /\ new.op = calls[c].op /\ new.refused = calls[c].refused /\ new.res = calls[c].res
        /\ new.pc = "joined" /\ new.leader = inFlight
    BY <1>4, <2>0, <2>1 DEF CallRecord
  <2>3. Become(c, new) /\ inFlight' = inFlight
    BY <1>3, <1>6, <2>1 DEF refreshOnce
  <2>4. Only(c) /\ calls'[c] = new
    BY <1>1, <2>2, <2>3, Becoming
  <2> QED
    BY <1>1, <1>6, <2>2, <2>3, <2>4, Basics DEF Asking
<1> QED BY <1>5, <1>6

\* The session cleared, with dead the tokens the call then knows to be dead.
LEMMA DropIs ==
    ASSUME TypeInv, NEW c \in Calls, NEW pc \in {"headers", "verdict"}, NEW dead,
           calls[c].pc = (IF pc = "headers" THEN "ensure" ELSE "refused"),
           Ready, options.refreshExpiredToken, session # NoSession, SetSession(NoSession),
           Become(c, [calls[c] EXCEPT !.pc = pc, !.dead = dead]),
           dead \subseteq calls[c].dead \union {session.token},
           session.token \in dead => session.token \in calls[c].dead \/ age[session.token] = "expired",
           UNCHANGED <<options, inFlight, issued, age>>
    PROVE  Dropping(c)
<1>1. c \in Everyone /\ calls[c] \in CallRecord /\ session.token \in 1..Len(issued)
      /\ Len(issued) \in Nat /\ Len(issued) <= MaxTokens /\ MaxTokens \in Nat
  BY Basics DEF NoToken
<1>2. dead \in SUBSET Token
  BY <1>1 DEF CallRecord, Token
<1>3. PICK rec : rec = [calls[c] EXCEPT !.pc = pc, !.dead = dead]
  OBVIOUS
<1>4. /\ rec \in CallRecord /\ rec.pc = pc /\ rec.dead = dead /\ rec.token = calls[c].token
      /\ rec.op = calls[c].op /\ rec.refused = calls[c].refused /\ rec.res = calls[c].res
  BY <1>1, <1>2, <1>3 DEF CallRecord
<1>5. Only(c) /\ calls'[c] = rec
  BY <1>1, <1>3, <1>4, Becoming
<1>6. session' = NoSession /\ stored' = NoSession /\ heard' = NoSession /\ timer' = NoToken
  BY Clearing
<1> QED
  BY <1>1, <1>4, <1>5, <1>6, Basics DEF Dropping

LEMMA EnsureIs ==
    ASSUME TypeInv, NEW c \in Everyone, ensureValidSession(c)
    PROVE  Moving(c) \/ Asking(c) \/ Dropping(c)
<1>1. c \in Calls /\ calls[c].pc = "ensure" /\ Ready /\ UNCHANGED <<options, issued, age>>
  BY OfTheApplication DEF ensureValidSession
<1>2. PICK dead : dead = IF calls[c].op = "request" THEN calls[c].dead \union {session.token} ELSE {}
  OBVIOUS
<1>3. CASE Lapsed(session) /\ session.token \notin options.bare
  <2>1. refreshOnce(c, "headers", dead) /\ UNCHANGED <<session, stored, heard, timer>>
    BY <1>2, <1>3 DEF ensureValidSession, client
  <2> QED
    BY <1>1, <1>2, <1>3, <2>1, RefreshOnceIs DEF Lapsed
<1>4. CASE Lapsed(session) /\ session.token \in options.bare
  <2>1. /\ SetSession(NoSession) /\ UNCHANGED inFlight
        /\ Become(c, [calls[c] EXCEPT !.pc = "headers", !.dead = dead])
    BY <1>2, <1>4 DEF ensureValidSession
  <2> QED
    BY <1>1, <1>2, <1>4, <2>1, DropIs DEF Lapsed
<1>5. CASE ~Lapsed(session)
  <2>1. Move(c, "headers") /\ UNCHANGED <<session, stored, heard, timer, inFlight>>
    BY <1>5 DEF ensureValidSession, client
  <2>2. session.token # NoToken => age[session.token] # "expired" \/ ~options.refreshExpiredToken
    BY <1>5, Basics DEF Lapsed
  <2> QED
    BY <1>1, <2>1, <2>2, MoveIs DEF Moving
<1> QED BY <1>3, <1>4, <1>5

LEMMA HeadersIs ==
    ASSUME TypeInv, NEW c \in Everyone, Headers(c)
    PROVE  Moving(c) \/ Finishing(c)
<1>1. c \in Calls /\ calls[c].pc = "headers" /\ calls[c] \in CallRecord
      /\ calls[c].op \in {"getSession", "request"}
      /\ UNCHANGED <<options, session, stored, heard, timer, inFlight, issued, age>>
  BY OfTheApplication DEF Headers, client
<1>2. CASE calls[c].op = "getSession" \/ (calls[c].refused # NoToken /\ session.token = calls[c].refused)
  BY <1>1, <1>2, FinishIs DEF Headers, Finishing
<1>3. CASE ~(calls[c].op = "getSession" \/ (calls[c].refused # NoToken /\ session.token = calls[c].refused))
  <2>1. PICK rec : rec = [calls[c] EXCEPT !.pc = "sent", !.token = session.token]
    OBVIOUS
  <2>2. session.token \in 0..MaxTokens
    BY Basics
  <2>3. /\ rec \in CallRecord /\ rec.pc = "sent" /\ rec.token = session.token
        /\ rec.op = calls[c].op /\ rec.refused = calls[c].refused
        /\ rec.dead = calls[c].dead /\ rec.res = calls[c].res
    BY <1>1, <2>1, <2>2 DEF CallRecord
  <2>4. Only(c) /\ calls'[c] = rec
    BY <1>3, <2>1, <2>3, Becoming DEF Headers
  <2> QED
    BY <1>1, <1>3, <2>3, <2>4 DEF Moving
<1> QED BY <1>2, <1>3

LEMMA RefusedIs ==
    ASSUME TypeInv, NEW c \in Everyone, refreshRefusedSession(c)
    PROVE  Moving(c) \/ Finishing(c) \/ Asking(c) \/ Dropping(c)
<1>1. c \in Calls /\ calls[c].pc = "refused" /\ Ready /\ UNCHANGED <<options, issued, age>>
  BY OfTheApplication DEF refreshRefusedSession
<1>2. CASE Finish(c) /\ UNCHANGED <<session, stored, heard, timer, inFlight>>
  BY <1>1, <1>2, FinishIs DEF Finishing
<1>3. CASE Move(c, "ensure") /\ UNCHANGED <<session, stored, heard, timer, inFlight>>
  BY <1>1, <1>3, MoveIs DEF Moving
<1>4. CASE /\ session # NoSession /\ options.refreshExpiredToken
           /\ refreshOnce(c, "verdict", calls[c].dead) /\ UNCHANGED <<session, stored, heard, timer>>
  BY <1>1, <1>4, RefreshOnceIs
<1>5. CASE /\ session # NoSession /\ options.refreshExpiredToken
           /\ SetSession(NoSession) /\ Move(c, "verdict") /\ UNCHANGED inFlight
  <2>1. calls[c] \in CallRecord
    BY <1>1, Basics
  <2>2. Become(c, [calls[c] EXCEPT !.pc = "verdict", !.dead = calls[c].dead])
    BY <1>5, <2>1 DEF Move, CallRecord
  <2> QED
    BY <1>1, <1>5, <2>2, DropIs
<1> QED BY <1>2, <1>3, <1>4, <1>5 DEF refreshRefusedSession, client

LEMMA VerdictIs ==
    ASSUME TypeInv, NEW c \in Everyone, Verdict(c)
    PROVE  Moving(c) \/ Finishing(c)
<1>1. c \in Calls /\ calls[c].pc = "verdict"
      /\ UNCHANGED <<options, session, stored, heard, timer, inFlight, issued, age>>
  BY OfTheApplication DEF Verdict, client
<1>2. CASE Finish(c)
  BY <1>1, <1>2, FinishIs DEF Finishing
<1>3. CASE Move(c, "ensure")
  BY <1>1, <1>3, MoveIs DEF Moving
<1> QED BY <1>2, <1>3 DEF Verdict

LEMMA ReceiveIs ==
    ASSUME TypeInv, NEW c \in Everyone, Receive(c)
    PROVE  Receiving(c)
<1>1. /\ calls[c].pc = "answered" /\ calls[c] \in CallRecord /\ WellFormed(calls[c], Len(issued))
      /\ Takes(calls[c]) /\ UNCHANGED <<options, inFlight, issued, age>>
  BY Basics DEF Receive, TypeInv
<1>2. \/ /\ SetSession(SessionOf(calls[c].res))
         /\ calls[c].res # NoToken => Brings(calls[c])
      \/ /\ session' \in Sessions /\ session'.token = session.token /\ session # NoSession
         /\ stored' = session' /\ heard' = session'
         /\ UNCHANGED timer
         /\ calls[c].op # "boot"
      \/ UNCHANGED <<session, stored, heard, timer>> /\ calls[c].op # "boot"
  <2>1. CASE calls[c].op \in {"signOut", "refresh", "boot"}
    <3>1. SetSession(SessionOf(calls[c].res))
      BY <1>1, <2>1 DEF Takes
    <3> QED
      BY <1>1, <2>1, <3>1 DEF Brings, WellFormed, NoToken
  <2>2. CASE calls[c].op = "signIn" /\ calls[c].res # 0
    <3>1. SetSession(SessionOf(calls[c].res))
      BY <1>1, <2>2 DEF Takes
    <3> QED
      BY <1>1, <2>2, <3>1 DEF Brings, NoToken
  <2>3. CASE calls[c].op = "updateUser" /\ calls[c].res # 0
    <3>1. applyUpdatedUser(issued[calls[c].token])
      BY <1>1, <2>3 DEF Takes
    <3>2. PICK u \in Users : u = issued[calls[c].token]
      BY <1>1, <2>3, Basics DEF WellFormed, NoToken
    <3>3. CASE session = NoSession
      BY <2>3, <3>1, <3>3 DEF applyUpdatedUser, client
    <3>4. CASE session # NoSession
      <4>1. session \in [token : 1..Len(issued), user : Users]
        BY <3>4, Basics DEF Sessions
      <4>2. [session EXCEPT !.user = u] \in [token : 1..Len(issued), user : Users]
            /\ [session EXCEPT !.user = u].token = session.token
        BY <4>1
      <4>3. session' = [session EXCEPT !.user = u] /\ stored' = session' /\ heard' = session' /\ UNCHANGED timer
        BY <3>1, <3>2, <3>4 DEF applyUpdatedUser
      <4> QED
        BY <2>3, <3>4, <4>2, <4>3 DEF Sessions
    <3> QED BY <3>3, <3>4
  <2>4. CASE /\ calls[c].op \notin {"signOut", "refresh", "boot"}
             /\ ~(calls[c].op = "signIn" /\ calls[c].res # 0)
             /\ ~(calls[c].op = "updateUser" /\ calls[c].res # 0)
    BY <1>1, <2>4 DEF Takes, client
  <2> QED BY <2>1, <2>2, <2>3, <2>4
<1>3. CASE calls[c].op = "request" /\ calls[c].res = 1 /\ calls[c].refused = NoToken
  <2>1. PICK rec : rec = [calls[c] EXCEPT !.pc = "refused", !.refused = calls[c].token, !.token = NoToken,
                                          !.dead = calls[c].dead \union {calls[c].token}, !.res = 0]
    OBVIOUS
  <2>2. calls[c].token # NoToken /\ calls[c].token \in 1..Len(issued)
    BY <1>1, <1>3, Basics DEF WellFormed, NoToken
  <2>3. calls[c].dead \union {calls[c].token} \in SUBSET Token
    BY <1>1, <2>2, Basics DEF CallRecord, Token
  <2>4. /\ rec \in CallRecord /\ rec.op = "request" /\ rec.pc = "refused"
        /\ rec.refused = calls[c].token /\ rec.token = NoToken /\ rec.res = 0
        /\ rec.dead = calls[c].dead \union {calls[c].token}
    BY <1>1, <1>3, <2>1, <2>3, Basics DEF CallRecord, NoToken
  <2>5. Become(c, rec)
    BY <1>1, <1>3, <2>1 DEF Receive, CallRecord
  <2>6. Only(c) /\ calls'[c] = rec
    BY <2>4, <2>5, Becoming
  <2> QED
    BY <1>1, <1>2, <1>3, <2>2, <2>4, <2>6 DEF Receiving
<1>4. CASE ~(calls[c].op = "request" /\ calls[c].res = 1 /\ calls[c].refused = NoToken)
  <2>1. Only(c) /\ calls'[c] = Idle
    BY <1>4, FinishIs DEF Receive
  <2> QED
    BY <1>1, <1>2, <2>1 DEF Receiving
<1> QED BY <1>3, <1>4

LEMMA SettleIs ==
    ASSUME TypeInv, NEW c \in Everyone, RefreshSettles(c)
    PROVE  Settling(c)
<1>1. /\ calls[c].pc = "refreshed" /\ SetSession(SessionOf(calls[c].res)) /\ inFlight' = NoCall
      /\ UNCHANGED <<options, issued, age>> /\ calls' = Resumed(c)
  BY DEF RefreshSettles
<1>2. DOMAIN calls' = Everyone /\ calls' = [d \in Everyone |-> calls'[d]]
  BY <1>1, Basics DEF Resumed
<1>3. ASSUME NEW d \in Everyone
      PROVE  IF d = c \/ (calls[d].pc = "joined" /\ calls[d].leader = c)
             THEN Woken(d) ELSE calls'[d] = calls[d]
  <2>1. CASE d = c \/ (calls[d].pc = "joined" /\ calls[d].leader = c)
    <3>1. PICK t : t = IF calls[d].then = "announce" THEN calls[d].token ELSE NoToken
      OBVIOUS
    <3>2. PICK rec : rec = [calls[d] EXCEPT !.pc = calls[d].then, !.then = "idle", !.leader = NoCall,
                                            !.res = 0, !.token = t]
      OBVIOUS
    <3>3. calls'[d] = rec
      BY <1>1, <2>1, <3>1, <3>2, Basics DEF Resumed
    <3>4. calls[d] \in CallRecord /\ t \in {NoToken, calls[d].token} /\ t \in 0..MaxTokens
          /\ 0 \in 0..MaxTokens
      BY <3>1, Basics DEF CallRecord, NoToken
    <3>5. /\ rec \in CallRecord /\ rec.pc = calls[d].then /\ rec.op = calls[d].op /\ rec.token = t
          /\ rec.refused = calls[d].refused /\ rec.dead = calls[d].dead /\ rec.res = 0
      BY <3>2, <3>4 DEF CallRecord
    <3> QED
      BY <2>1, <3>3, <3>4, <3>5 DEF Woken
  <2>2. CASE ~(d = c \/ (calls[d].pc = "joined" /\ calls[d].leader = c))
    BY <1>1, <2>2, Basics DEF Resumed
  <2> QED BY <2>1, <2>2
<1> QED
  BY <1>1, <1>2, <1>3 DEF Settling

\* Answer(c, r), of a call with a request out, once the tokens issued are n.
LEMMA AnswerIs ==
    ASSUME TypeInv, NEW c \in Everyone, NEW r \in 0..MaxTokens, Answer(c, r),
           calls[c].pc \in {"refreshing", "sent"}
    PROVE  /\ Only(c) /\ calls'[c].res = r
           /\ calls'[c].op = calls[c].op /\ calls'[c].token = calls[c].token /\ calls'[c].then = calls[c].then
           /\ calls'[c].refused = calls[c].refused /\ calls'[c].dead = calls[c].dead
           /\ \/ calls[c].pc = "refreshing" /\ calls'[c].pc = "refreshed"
              \/ calls[c].pc = "sent" /\ calls'[c].pc = "answered"
<1>1. PICK pc \in {"refreshed", "answered"} : pc = IF calls[c].pc = "refreshing" THEN "refreshed" ELSE "answered"
  OBVIOUS
<1>2. PICK rec : rec = [calls[c] EXCEPT !.res = r, !.pc = pc]
  OBVIOUS
<1>3. /\ rec \in CallRecord /\ rec.res = r /\ rec.pc = pc
      /\ rec.op = calls[c].op /\ rec.token = calls[c].token /\ rec.then = calls[c].then
      /\ rec.refused = calls[c].refused /\ rec.dead = calls[c].dead
  BY <1>2, Basics DEF CallRecord
<1>4. Only(c) /\ calls'[c] = rec
  BY <1>1, <1>2, <1>3, Becoming DEF Answer
<1> QED
  BY <1>1, <1>3, <1>4

LEMMA ServeIs ==
    ASSUME TypeInv, NEW c \in Everyone, Serve(c)
    PROVE  Answering(c)
<1>1. UNCHANGED <<options, session, stored, heard, timer, inFlight, age>>
  BY DEF Serve, ServeRefresh, ServeSignIn, ServeOther, client
<1>2. ASSUME NEW u \in Users, Issue(c, u),
             calls[c].pc \in {"refreshing", "sent"},
             calls[c].pc = "refreshing" \/ calls[c].op \in {"refresh", "signIn", "boot"}
      PROVE  Answering(c)
  <2>1. issued' = Append(issued, u) /\ Len(issued) < MaxTokens /\ Answer(c, Len(issued) + 1)
    BY <1>2 DEF Issue
  <2>2. /\ issued' \in Seq(Users) /\ Len(issued') = Len(issued) + 1
        /\ \A t \in 1..Len(issued) : issued'[t] = issued[t]
    BY <2>1 DEF TypeInv, TypeOK
  <2>3. PICK r \in 0..MaxTokens : r = Len(issued) + 1 /\ Answer(c, r)
    BY <2>1, Basics
  <2>4. Len(issued') <= MaxTokens
    BY <2>1, <2>2, Basics
  <2> QED
    BY <1>1, <1>2, <2>2, <2>3, <2>4, AnswerIs DEF Answering
<1>3. ASSUME NEW r \in {0, 1}, Answer(c, r), UNCHANGED issued,
             calls[c].pc \in {"refreshing", "sent"},
             r = 1 => calls[c].op \in {"updateUser", "request"} /\ calls[c].pc = "sent"
                      /\ calls[c].token # NoToken
      PROVE  Answering(c)
  <2>1. r \in 0..MaxTokens
    BY Basics
  <2> QED
    BY <1>1, <1>3, <2>1, AnswerIs DEF Answering
<1>4. CASE ServeRefresh(c)
  <2>1. calls[c].pc = "refreshing" \/ (calls[c].op = "refresh" /\ calls[c].pc = "sent")
    BY <1>4 DEF ServeRefresh, Grants
  <2>2. issued[calls[c].token] \in Users
    <3>1. calls[c].token \in 0..Len(issued) /\ calls[c].token # NoToken
      BY <2>1 DEF TypeInv, WellFormed
    <3> QED
      BY <3>1, Basics DEF NoToken
  <2> QED
    BY <1>2, <1>3, <1>4, <2>1, <2>2 DEF ServeRefresh
<1>5. CASE ServeSignIn(c)
  BY <1>2, <1>3, <1>5 DEF ServeSignIn
<1>6. CASE ServeOther(c)
  <2>1. PICK r \in {0, 1} : Answer(c, r) /\ (r = 1 => calls[c].op # "signOut" /\ calls[c].token # NoToken)
    BY <1>6 DEF ServeOther
  <2> QED
    BY <1>3, <1>6, <2>1 DEF ServeOther
<1> QED BY <1>4, <1>5, <1>6 DEF Serve

\* What Hydrate and Announce leave the start of the client at.
LEMMA StartedOrRedirected ==
    ASSUME TypeInv, \E next \in {Idle, Begin("boot", "redirect")} : Become(Boot, next)
    PROVE  /\ Only(Boot)
           /\ calls'[Boot].token = NoToken /\ calls'[Boot].dead = {} /\ calls'[Boot].res = 0
           /\ calls'[Boot].op \in {"none", "boot"}
           /\ calls'[Boot].pc = IF calls'[Boot].op = "none" THEN "idle" ELSE "redirect"
<1>1. PICK next : next \in {Idle, Begin("boot", "redirect")} /\ Become(Boot, next)
  OBVIOUS
<1>2. /\ next \in CallRecord /\ next.token = NoToken /\ next.dead = {} /\ next.res = 0
      /\ next.op \in {"none", "boot"}
      /\ next.pc = IF next.op = "none" THEN "idle" ELSE "redirect"
  <2>1. CASE next = Idle
    BY <2>1, IdleIsACall
  <2>2. CASE next = Begin("boot", "redirect")
    BY <2>2, BeginIsACall
  <2> QED BY <1>1, <2>1, <2>2
<1>3. Only(Boot) /\ calls'[Boot] = next
  BY <1>1, <1>2, Basics, Becoming
<1> QED
  BY <1>2, <1>3

LEMMA HydrateIs ==
    ASSUME TypeInv, Hydrate
    PROVE  Loading
<1>1. /\ calls[Boot].pc = "load" /\ Boot \in Everyone /\ calls[Boot] \in CallRecord
      /\ UNCHANGED <<options, issued, age>>
  BY Basics DEF Hydrate
<1>2. CASE Lapsed(stored) /\ stored.token \notin options.bare
  <2>0. session' = stored /\ timer' \in {stored.token, NoToken} /\ stored' = stored
    BY <1>2, TimerIs DEF Hydrate
  <2>1. PICK rec : rec = [calls[Boot] EXCEPT !.then = "announce", !.token = stored.token]
    OBVIOUS
  <2>2. stored.token \in 0..MaxTokens /\ stored.token # NoToken /\ inFlight \in Calls \union {Boot, NoCall}
    BY <1>2, Basics DEF Lapsed, TypeInv, TypeOK
  <2>3. /\ rec \in CallRecord /\ rec.then = "announce" /\ rec.token = stored.token
        /\ rec.op = calls[Boot].op /\ rec.dead = calls[Boot].dead /\ rec.res = calls[Boot].res
    BY <1>1, <2>1, <2>2 DEF CallRecord
  <2>4. calls[Boot].op = "boot"
    BY <1>1 DEF TypeInv, WellFormed
  <2>5. CASE inFlight = NoCall
    <3>1. PICK new : new = [rec EXCEPT !.pc = "refreshing"]
      OBVIOUS
    <3>2. /\ new \in CallRecord /\ new.then = "announce" /\ new.token = stored.token /\ new.pc = "refreshing"
          /\ new.op = calls[Boot].op /\ new.dead = calls[Boot].dead /\ new.res = calls[Boot].res
      BY <2>3, <3>1 DEF CallRecord
    <3>3. Become(Boot, new) /\ inFlight' = Boot /\ heard' = heard
      BY <1>1, <1>2, <2>1, <2>5, <3>1 DEF Hydrate, CallRecord
    <3>4. Only(Boot) /\ calls'[Boot] = new
      BY <1>1, <3>2, <3>3, Becoming
    <3> QED
      BY <1>1, <2>0, <2>2, <2>4, <2>5, <3>2, <3>3, <3>4 DEF Loading
  <2>6. CASE inFlight # NoCall
    <3>1. PICK new : new = [rec EXCEPT !.pc = "joined", !.leader = inFlight]
      OBVIOUS
    <3>2. /\ new \in CallRecord /\ new.then = "announce" /\ new.token = stored.token /\ new.pc = "joined"
          /\ new.leader = inFlight
          /\ new.op = calls[Boot].op /\ new.dead = calls[Boot].dead /\ new.res = calls[Boot].res
      BY <2>2, <2>3, <3>1 DEF CallRecord
    <3>3. Become(Boot, new) /\ inFlight' = inFlight /\ heard' = heard
      BY <1>1, <1>2, <2>1, <2>6, <3>1 DEF Hydrate, CallRecord
    <3>4. Only(Boot) /\ calls'[Boot] = new
      BY <1>1, <3>2, <3>3, Becoming
    <3> QED
      BY <1>1, <2>0, <2>2, <2>4, <2>6, <3>2, <3>3, <3>4 DEF Loading
  <2> QED BY <2>5, <2>6
<1>3. CASE Lapsed(stored) /\ stored.token \in options.bare
  <2>1. PICK rec : rec = [calls[Boot] EXCEPT !.token = stored.token, !.pc = "announce"]
    OBVIOUS
  <2>2. stored.token \in 0..MaxTokens
    BY Basics
  <2>3. /\ rec \in CallRecord /\ rec.pc = "announce" /\ rec.token = stored.token
        /\ rec.op = calls[Boot].op /\ rec.dead = calls[Boot].dead /\ rec.res = calls[Boot].res
    BY <1>1, <2>1, <2>2 DEF CallRecord
  <2>4. calls[Boot].op = "boot"
    BY <1>1 DEF TypeInv, WellFormed
  <2>5. Become(Boot, rec) /\ SetSession(NoSession) /\ UNCHANGED inFlight
    BY <1>1, <1>3, <2>1 DEF Hydrate, CallRecord
  <2>6. Only(Boot) /\ calls'[Boot] = rec
    BY <1>1, <2>3, <2>5, Becoming
  <2> QED
    BY <1>1, <2>3, <2>4, <2>5, <2>6, Clearing DEF Loading
<1>4. CASE ~Lapsed(stored)
  <2>1. /\ session' \in {session, stored} /\ heard' \in {heard, stored}
        /\ timer' \in {timer, stored.token, NoToken} /\ UNCHANGED <<stored, inFlight>>
        /\ \E next \in {Idle, Begin("boot", "redirect")} : Become(Boot, next)
    BY <1>4, TimerIs DEF Hydrate
  <2> QED
    BY <1>1, <2>1, StartedOrRedirected DEF Loading
<1> QED BY <1>2, <1>3, <1>4

LEMMA AnnounceIs ==
    ASSUME TypeInv, Announce PROVE Announcing
BY StartedOrRedirected DEF Announce, Announcing

LEMMA RedirectIs ==
    ASSUME TypeInv, completeRedirect PROVE Redirecting
BY MoveIs, Basics DEF completeRedirect, Redirecting

LEMMA AgeIs ==
    ASSUME TypeInv, Age PROVE Ageing
<1>1. PICK t \in Token : age' = [age EXCEPT ![t] = IF age[t] = "fresh" THEN "near" ELSE "expired"]
                         /\ age[t] # "expired"
  <2>1. \A t \in {session.token, stored.token} \ {NoToken} : t \in Token
    BY Basics DEF Token, NoToken
  <2> QED
    BY <2>1 DEF Age, TypeInv, TypeOK
<1>2. age \in [Token -> {"fresh", "near", "expired"}]
  BY DEF TypeInv, TypeOK
<1> QED
  BY <1>1, <1>2 DEF Age, Ageing, client

LEMMA StepIs ==
    ASSUME TypeInv, [Next]_vars PROVE Going
<1>1. ASSUME NEW c \in Calls, Application(c) \/ TimerFires(c) PROVE Going
  <2>1. CASE (signOut(c) /\ session = NoSession) \/ (refreshSession(c) /\ session.token \in options.bare)
    BY <2>1, SignOutIs DEF Going
  <2>2. CASE ~((signOut(c) /\ session = NoSession) \/ (refreshSession(c) /\ session.token \in options.bare))
    <3>1. Starting(c)
      BY <1>1, <2>2, StartIs DEF Application
    <3> QED
      BY <3>1, Basics DEF Going
  <2> QED BY <2>1, <2>2
<1>2. ASSUME NEW c \in Everyone, Serve(c) PROVE Going
  BY <1>2, ServeIs DEF Going
<1>3. ASSUME NEW c \in Everyone, Continue(c) PROVE Going
  BY <1>3, EnsureIs, HeadersIs, RefusedIs, VerdictIs, ReceiveIs, SettleIs DEF Continue, Going
<1>4. CASE Starts
  BY <1>4, HydrateIs, AnnounceIs, RedirectIs DEF Starts, Going
<1>5. CASE Age
  BY <1>5, AgeIs DEF Going
<1>6. CASE UNCHANGED vars
  BY <1>6 DEF Going
<1> QED
  BY <1>1, <1>2, <1>3, <1>4, <1>5, <1>6 DEF Next, Everyone

----------------------------------------------------------------------------
(* The types *)

LEMMA MoreTokens ==
    ASSUME NEW rec, NEW n \in Nat, NEW m \in Nat, n <= m, WellFormed(rec, n)
    PROVE  WellFormed(rec, m)
BY DEF WellFormed

\* The calls keep their shape when one record is replaced by one of its shape.
LEMMA CallsKept ==
    ASSUME TypeInv, NEW c \in Everyone, Only(c), WellFormed(calls'[c], Len(issued)),
           calls'[c].op \in {"none", calls[c].op} \/ (c \in Calls /\ calls'[c].op # "boot"),
           Len(issued') \in Nat, Len(issued) <= Len(issued')
    PROVE  /\ calls' \in [Everyone -> CallRecord]
           /\ \A d \in Everyone : WellFormed(calls'[d], Len(issued'))
           /\ calls'[Boot].op \in {"none", "boot"}
           /\ \A d \in Calls : calls'[d].op # "boot"
<1>1. calls' \in [Everyone -> CallRecord] /\ \A d \in Everyone \ {c} : calls'[d] = calls[d]
  BY DEF Only
<1>2. \A d \in Everyone : WellFormed(calls'[d], Len(issued))
  BY <1>1 DEF TypeInv
<1>3. \A d \in Everyone : WellFormed(calls'[d], Len(issued'))
  BY <1>2, Basics, MoreTokens
<1>4. calls'[Boot].op \in {"none", "boot"}
  BY <1>1, Basics DEF TypeInv
<1>5. \A d \in Calls : calls'[d].op # "boot"
  BY <1>1, Basics DEF TypeInv
<1> QED
  BY <1>1, <1>3, <1>4, <1>5

LEMMA TypesTogether ==
    ASSUME TypeInv,
           /\ calls' \in [Everyone -> CallRecord]
           /\ \A d \in Everyone : WellFormed(calls'[d], Len(issued'))
           /\ calls'[Boot].op \in {"none", "boot"}
           /\ \A d \in Calls : calls'[d].op # "boot",
           UNCHANGED <<options, issued>>,
           session' \in Sessions, stored' \in Sessions, heard' \in Sessions,
           timer' \in 0..Len(issued),
           inFlight' \in Everyone \union {NoCall},
           age' \in [Token -> {"fresh", "near", "expired"}]
    PROVE  TypeInv'
<1>1. Sessions' = Sessions /\ Len(issued') = Len(issued)
  BY DEF Sessions
<1>2. TypeOK'
  BY <1>1 DEF TypeInv, TypeOK, Everyone
<1> QED
  BY <1>2 DEF TypeInv

LEMMA TypesKept ==
    ASSUME TypeInv, Going PROVE TypeInv'
<1>1. /\ session \in Sessions /\ stored \in Sessions /\ heard \in Sessions /\ NoSession \in Sessions
      /\ timer \in 0..Len(issued) /\ NoToken \in 0..Len(issued)
      /\ session.token \in 0..Len(issued) /\ stored.token \in 0..Len(issued)
      /\ inFlight \in Everyone \union {NoCall} /\ NoCall \in Everyone \union {NoCall}
      /\ age \in [Token -> {"fresh", "near", "expired"}]
      /\ Len(issued) \in Nat /\ Boot \in Everyone
  BY Basics DEF TypeInv, TypeOK, Everyone, NoToken
<1>2. /\ calls \in [Everyone -> CallRecord]
      /\ \A d \in Everyone : WellFormed(calls[d], Len(issued))
      /\ calls[Boot].op \in {"none", "boot"}
      /\ \A d \in Calls : calls[d].op # "boot"
  BY Basics DEF TypeInv
<1>3. ASSUME NEW c \in Everyone, Only(c), WellFormed(calls'[c], Len(issued)), UNCHANGED <<options, issued>>,
             calls'[c].op \in {"none", calls[c].op} \/ (c \in Calls /\ calls'[c].op # "boot"),
             session' \in Sessions, stored' \in Sessions, heard' \in Sessions,
             timer' \in 0..Len(issued),
             inFlight' \in Everyone \union {NoCall},
             age' = age
      PROVE  TypeInv'
  <2>1. Len(issued') = Len(issued)
    BY <1>3
  <2> QED
    BY <1>1, <1>3, <2>1, CallsKept, TypesTogether
<1>4. CASE SigningOut
  BY <1>1, <1>2, <1>4, TypesTogether DEF SigningOut
<1>5. CASE Ageing
  BY <1>1, <1>2, <1>5, TypesTogether DEF Ageing
<1>6. CASE UNCHANGED vars
  BY <1>1, <1>2, <1>6, TypesTogether DEF vars
<1>7. CASE Announcing
  <2>1. WellFormed(calls'[Boot], Len(issued)) /\ calls'[Boot].op \in {"none", calls[Boot].op}
    BY <1>1, <1>2, <1>7 DEF Announcing, Only, WellFormed, Refreshing
  <2>2. SessionOf(calls[Boot].token) \in Sessions
    BY <1>1, <1>2, Basics DEF WellFormed
  <2> QED
    BY <1>1, <1>3, <1>7, <2>1, <2>2 DEF Announcing
<1>8. CASE Redirecting
  <2>1. calls'[Boot] \in CallRecord /\ calls[Boot].op = "boot"
    BY <1>1, <1>2, <1>8 DEF Redirecting, Only, WellFormed
  <2>2. WellFormed(calls'[Boot], Len(issued))
    BY <1>1, <1>2, <1>8, <2>1 DEF Redirecting, WellFormed, Refreshing
  <2> QED
    BY <1>1, <1>3, <1>8, <2>2 DEF Redirecting
<1>9. CASE Loading
  <2>1. calls'[Boot] \in CallRecord /\ calls[Boot].op = "boot"
    BY <1>1, <1>2, <1>9 DEF Loading, Only, WellFormed
  <2>2. /\ calls'[Boot].token \in 0..Len(issued) /\ calls'[Boot].res \in 0..Len(issued)
        /\ calls'[Boot].dead \subseteq 1..Len(issued)
    BY <1>1, <1>2, <1>9 DEF Loading, WellFormed
  <2>3. WellFormed(calls'[Boot], Len(issued)) /\ calls'[Boot].op \in {"none", "boot"}
    BY <1>9, <2>1, <2>2 DEF Loading, WellFormed, Refreshing
  <2> QED
    BY <1>1, <1>3, <1>9, <2>1, <2>3 DEF Loading
<1>10. ASSUME NEW c \in Everyone, Starting(c) PROVE TypeInv'
  <2>1. WellFormed(calls'[c], Len(issued))
    BY <1>1, <1>10 DEF Starting, Only, WellFormed, Refreshing
  <2> QED
    BY <1>1, <1>3, <1>10, <2>1 DEF Starting
<1>11. ASSUME NEW c \in Everyone, Finishing(c) PROVE TypeInv'
  <2>1. WellFormed(calls'[c], Len(issued)) /\ calls'[c].op = "none"
    BY <1>1, <1>11, IdleIsACall DEF Finishing, WellFormed, Refreshing
  <2> QED
    BY <1>1, <1>3, <1>11, <2>1 DEF Finishing
<1>12. ASSUME NEW c \in Everyone, Moving(c) PROVE TypeInv'
  <2>1. calls'[c] \in CallRecord /\ WellFormed(calls[c], Len(issued))
    BY <1>2, <1>12 DEF Moving, Only
  <2>2. calls[c].op \in {"getSession", "request"} /\ (calls'[c].pc # "headers" => calls[c].op = "request")
    BY <1>12, OfTheApplication DEF Moving
  <2>3. WellFormed(calls'[c], Len(issued))
    BY <1>1, <1>12, <2>1, <2>2 DEF Moving, WellFormed, Refreshing
  <2> QED
    BY <1>1, <1>3, <1>12, <2>3 DEF Moving
<1>13. ASSUME NEW c \in Everyone, Asking(c) PROVE TypeInv'
  <2>1. calls'[c] \in CallRecord /\ WellFormed(calls[c], Len(issued))
    BY <1>2, <1>13 DEF Asking, Only
  <2>2. calls[c].op \in {"getSession", "request"} /\ (calls[c].pc # "ensure" => calls[c].op = "request")
    BY <1>13, OfTheApplication DEF Asking
  <2>3. calls'[c].dead \subseteq 1..Len(issued)
    BY <1>1, <1>13, <2>1 DEF Asking, WellFormed, NoToken
  <2>4. WellFormed(calls'[c], Len(issued))
    BY <1>1, <1>13, <2>1, <2>2, <2>3 DEF Asking, WellFormed, Refreshing
  <2>5. inFlight' \in Everyone \union {NoCall}
    BY <1>1, <1>13 DEF Asking
  <2> QED
    BY <1>1, <1>3, <1>13, <2>4, <2>5 DEF Asking
<1>17. ASSUME NEW c \in Everyone, Dropping(c) PROVE TypeInv'
  <2>1. calls'[c] \in CallRecord /\ WellFormed(calls[c], Len(issued))
    BY <1>2, <1>17 DEF Dropping, Only
  <2>2. calls[c].op \in {"getSession", "request"} /\ (calls[c].pc # "ensure" => calls[c].op = "request")
    BY <1>17, OfTheApplication DEF Dropping
  <2>3. calls'[c].dead \subseteq 1..Len(issued)
    BY <1>1, <1>17, <2>1 DEF Dropping, WellFormed, NoToken
  <2>4. WellFormed(calls'[c], Len(issued))
    BY <1>1, <1>17, <2>1, <2>2, <2>3 DEF Dropping, WellFormed, Refreshing
  <2> QED
    BY <1>1, <1>3, <1>17, <2>2, <2>4 DEF Dropping
<1>14. ASSUME NEW c \in Everyone, Answering(c) PROVE TypeInv'
  <2>1. calls'[c] \in CallRecord /\ WellFormed(calls[c], Len(issued))
    BY <1>2, <1>14 DEF Answering, Only
  <2>2. CASE UNCHANGED issued
    <3>1. WellFormed(calls'[c], Len(issued))
      <4>1. calls'[c].res \in {0, 1} /\ 0 \in 0..Len(issued) /\ 1 \in 0..Len(issued)
            /\ (calls'[c].res = 1 => calls[c].op \in {"updateUser", "request"} /\ calls[c].token # NoToken)
        BY <1>14, <2>2, Basics DEF Answering
      <4> QED
        BY <1>14, <2>1, <4>1 DEF Answering, WellFormed, Refreshing
    <3> QED
      BY <1>1, <1>3, <1>14, <2>2, <3>1 DEF Answering
  <2>3. CASE issued' # issued
    <3>1. /\ issued' \in Seq(Users) /\ Len(issued') = Len(issued) + 1 /\ Len(issued') <= MaxTokens
          /\ calls'[c].res = Len(issued')
          /\ calls[c].pc = "refreshing" \/ calls[c].op \in {"refresh", "signIn", "boot"}
      BY <1>14, <2>3 DEF Answering
    <3>2. Len(issued') \in Nat /\ Len(issued) <= Len(issued') /\ Len(issued') \in 1..MaxTokens
          /\ calls'[c].res \in 0..Len(issued')
      BY <3>1, Basics
    <3>3. WellFormed(calls[c], Len(issued'))
      BY <1>1, <2>1, <3>2, MoreTokens
    <3>4. calls[c].op \notin {"signOut", "request", "none"} \/ calls[c].pc = "refreshing"
      BY <3>1
    <3>5. calls[c].op # "signOut"
      BY <2>1, <3>1 DEF WellFormed
    <3>6. calls'[c].op = "request" /\ calls'[c].pc = "answered" => FALSE
      BY <1>14, <3>4 DEF Answering
    <3>7. WellFormed(calls'[c], Len(issued'))
      BY <1>14, <2>1, <3>2, <3>3, <3>5, <3>6 DEF Answering, WellFormed, Refreshing
    <3>8. /\ calls' \in [Everyone -> CallRecord]
          /\ \A d \in Everyone : WellFormed(calls'[d], Len(issued'))
          /\ calls'[Boot].op \in {"none", "boot"}
          /\ \A d \in Calls : calls'[d].op # "boot"
      <4>1. calls' \in [Everyone -> CallRecord] /\ \A d \in Everyone \ {c} : calls'[d] = calls[d]
        BY <1>14 DEF Answering, Only
      <4>2. \A d \in Everyone : WellFormed(calls'[d], Len(issued'))
        BY <1>1, <1>2, <3>2, <3>7, <4>1, MoreTokens
      <4> QED
        BY <1>2, <1>14, <4>1, <4>2, Basics DEF Answering
    <3>9. Sessions \subseteq Sessions'
      BY <1>1, <3>2 DEF Sessions
    <3>10. timer' \in 0..Len(issued')
      BY <1>1, <1>14, <3>2 DEF Answering
    <3>11. TypeOK'
      BY <1>1, <1>14, <3>1, <3>2, <3>8, <3>9, <3>10 DEF Answering, TypeInv, TypeOK, Everyone
    <3> QED
      BY <3>8, <3>11 DEF TypeInv
  <2> QED BY <2>2, <2>3
<1>15. ASSUME NEW c \in Everyone, Receiving(c) PROVE TypeInv'
  <2>1. calls'[c] \in CallRecord /\ WellFormed(calls[c], Len(issued)) /\ SessionOf(calls[c].res) \in Sessions
        /\ SessionOf(calls[c].res).token \in 0..Len(issued)
    BY <1>2, <1>15, Basics DEF Receiving, Only, WellFormed
  <2>2. WellFormed(calls'[c], Len(issued)) /\ calls'[c].op \in {"none", calls[c].op}
    <3>1. CASE calls'[c] = Idle
      BY <1>1, <3>1, IdleIsACall DEF WellFormed, Refreshing
    <3>2. CASE calls'[c] # Idle
      <4>1. calls[c].token \in 1..Len(issued)
        BY <1>1, <1>15, <2>1, <3>2 DEF Receiving, WellFormed, NoToken
      <4> QED
        BY <1>1, <1>15, <2>1, <3>2, <4>1 DEF Receiving, WellFormed, Refreshing
    <3> QED BY <3>1, <3>2
  <2>3. session' \in Sessions /\ stored' \in Sessions /\ heard' \in Sessions /\ timer' \in 0..Len(issued)
    BY <1>1, <1>15, <2>1, TimerIs DEF Receiving, SetSession
  <2> QED
    BY <1>1, <1>3, <1>15, <2>2, <2>3 DEF Receiving
<1>16. ASSUME NEW c \in Everyone, Settling(c) PROVE TypeInv'
  <2>1. ASSUME NEW d \in Everyone
        PROVE  /\ calls'[d] \in CallRecord /\ WellFormed(calls'[d], Len(issued))
               /\ calls'[d].op = calls[d].op
    <3>1. CASE d = c \/ (calls[d].pc = "joined" /\ calls[d].leader = c)
      <4>1. Woken(d) /\ calls[d].pc \in {"refreshed", "joined"} /\ WellFormed(calls[d], Len(issued))
        BY <1>2, <1>16, <3>1 DEF Settling
      <4>2. calls'[d].token \in 0..Len(issued) /\ calls'[d].res = 0 /\ 0 \in 0..Len(issued)
        BY <1>1, <4>1 DEF Woken, WellFormed, NoToken
      <4>3. calls[d].op \in {"boot", "getSession", "request"} /\ calls[d].op = calls'[d].op
        BY <4>1 DEF Woken, WellFormed, CallRecord
      <4> QED
        BY <4>1, <4>2, <4>3 DEF Woken, WellFormed, Refreshing
    <3>2. CASE ~(d = c \/ (calls[d].pc = "joined" /\ calls[d].leader = c))
      BY <1>2, <1>16, <3>2 DEF Settling
    <3> QED BY <3>1, <3>2
  <2>2. calls' \in [Everyone -> CallRecord]
    BY <1>16, <2>1 DEF Settling
  <2>3. SessionOf(calls[c].res) \in Sessions /\ SessionOf(calls[c].res).token \in 0..Len(issued)
    BY <1>2, Basics DEF WellFormed
  <2>4. session' \in Sessions /\ stored' \in Sessions /\ heard' \in Sessions /\ timer' \in 0..Len(issued)
        /\ inFlight' \in Everyone \union {NoCall} /\ age' = age /\ UNCHANGED <<options, issued>>
    BY <1>1, <1>16, <2>3, TimerIs DEF Settling, SetSession
  <2>5. calls'[Boot].op \in {"none", "boot"} /\ \A d \in Calls : calls'[d].op # "boot"
    BY <1>2, <2>1, Basics
  <2> QED
    BY <1>1, <2>1, <2>2, <2>4, <2>5, TypesTogether
<1> QED
  BY <1>4, <1>5, <1>6, <1>7, <1>8, <1>9, <1>10, <1>11, <1>12, <1>13, <1>14, <1>15, <1>16,
     <1>17 DEF Going

----------------------------------------------------------------------------
(* The refresh in flight *)

\* A step of one call that neither begins nor ends a refresh, nor joins one.
LEMMA NoOtherRefresh ==
    ASSUME InFlightInv, NEW c \in Everyone, Only(c), inFlight' = inFlight,
           calls'[c].pc \in Refreshing <=> calls[c].pc \in Refreshing,
           calls'[c].pc # "joined"
    PROVE  InFlightInv'
BY DEF InFlightInv, Only

LEMMA InFlightKept ==
    ASSUME TypeInv, InFlightInv, Going PROVE InFlightInv'
<1>1. Boot \in Everyone /\ NoCall \notin Everyone /\ calls \in [Everyone -> CallRecord]
  BY Basics
<1>2. CASE UNCHANGED <<calls, inFlight>>
  BY <1>2 DEF InFlightInv
\* A call begins a refresh when there is none, or joins the one there is.
<1>3. ASSUME NEW c \in Everyone, Only(c), calls[c].pc \notin Refreshing,
             \/ inFlight = NoCall /\ inFlight' = c /\ calls'[c].pc = "refreshing"
             \/ inFlight # NoCall /\ inFlight' = inFlight /\ calls'[c].pc = "joined" /\ calls'[c].leader = inFlight
      PROVE  InFlightInv'
  <2>1. \A d \in Everyone \ {c} : calls'[d] = calls[d]
    BY <1>3 DEF Only
  <2> QED
    BY <1>1, <1>3, <2>1 DEF InFlightInv, Refreshing
<1>4. CASE Loading
  <2>1. CASE inFlight' = inFlight /\ calls'[Boot].pc \in {"idle", "redirect", "announce"}
    BY <1>1, <1>4, <2>1, NoOtherRefresh DEF Loading, Refreshing
  <2>2. CASE ~(inFlight' = inFlight /\ calls'[Boot].pc \in {"idle", "redirect", "announce"})
    BY <1>1, <1>3, <1>4, <2>2 DEF Loading, Refreshing
  <2> QED BY <2>1, <2>2
<1>5. CASE Announcing \/ Redirecting
  BY <1>1, <1>5, NoOtherRefresh DEF Announcing, Redirecting, Refreshing
<1>6. ASSUME NEW c \in Everyone, Starting(c) PROVE InFlightInv'
  <2>1. calls[c].pc = "idle"
    BY <1>6 DEF Starting, TypeInv, WellFormed
  <2> QED
    BY <1>6, <2>1, NoOtherRefresh DEF Starting, Refreshing
<1>7. ASSUME NEW c \in Everyone, Finishing(c) PROVE InFlightInv'
  BY <1>7, NoOtherRefresh, IdleIsACall DEF Finishing, Refreshing
<1>8. ASSUME NEW c \in Everyone, Moving(c) \/ Dropping(c) \/ Answering(c) PROVE InFlightInv'
  BY <1>8, NoOtherRefresh DEF Moving, Dropping, Answering, Refreshing
<1>9. ASSUME NEW c \in Everyone, Receiving(c) PROVE InFlightInv'
  BY <1>9, NoOtherRefresh, IdleIsACall DEF Receiving, Refreshing
<1>10. ASSUME NEW c \in Everyone, Asking(c) PROVE InFlightInv'
  BY <1>3, <1>10 DEF Asking, Refreshing
<1>11. ASSUME NEW c \in Everyone, Settling(c) PROVE InFlightInv'
  <2>1. inFlight = c /\ inFlight' = NoCall
    BY <1>11 DEF Settling, InFlightInv, Refreshing
  <2>2. ASSUME NEW d \in Everyone PROVE calls'[d].pc \notin Refreshing \union {"joined"}
    <3>1. CASE d = c \/ (calls[d].pc = "joined" /\ calls[d].leader = c)
      <4>1. calls[d].then \in {"idle", "headers", "verdict", "announce"}
        BY <1>1 DEF CallRecord
      <4>2. calls'[d].pc = calls[d].then
        BY <1>11, <3>1 DEF Settling, Woken
      <4> QED
        BY <4>1, <4>2 DEF Refreshing
    <3>2. CASE ~(d = c \/ (calls[d].pc = "joined" /\ calls[d].leader = c))
      <4>1. calls'[d] = calls[d] /\ d # c
        BY <1>11, <3>2 DEF Settling
      <4>2. calls[d].pc \notin Refreshing /\ calls[d].pc # "joined"
        BY <2>1, <3>2, <4>1 DEF InFlightInv
      <4> QED
        BY <4>1, <4>2
    <3> QED BY <3>1, <3>2
  <2> QED
    BY <1>1, <2>1, <2>2 DEF InFlightInv
<1> QED
  BY <1>2, <1>4, <1>5, <1>6, <1>7, <1>8, <1>9, <1>10, <1>11
  DEF Going, SigningOut, Ageing, vars

----------------------------------------------------------------------------
(* Tokens on their way *)

\* A step that issues no token: it may hand the token a call brings to the
\* session, and the tokens of the session and of storage to calls.
LEMMA NoFreshToken ==
    ASSUME TypeInv, FreshInv,
           \A d \in Everyone : Brings(calls'[d]) => Brings(calls[d]) /\ calls'[d].res = calls[d].res,
           \A d \in Everyone :
                /\ calls'[d].token \in {NoToken, calls[d].token, session.token, stored.token}
                /\ calls'[d].dead \subseteq calls[d].dead \union {session.token, calls[d].token},
           \/ {session'.token, stored'.token} \subseteq {NoToken, session.token, stored.token}
           \/ \E c \in Everyone : /\ Brings(calls[c]) /\ ~Brings(calls'[c])
                                  /\ session'.token = calls[c].res /\ stored'.token = calls[c].res
    PROVE  FreshInv'
<1> SUFFICES ASSUME NEW d \in Everyone, Brings(calls'[d])
             PROVE  /\ calls'[d].res \notin {session'.token, stored'.token}
                    /\ \A c \in Everyone :
                            /\ calls'[d].res # calls'[c].token
                            /\ calls'[d].res \notin calls'[c].dead
                            /\ c # d /\ Brings(calls'[c]) => calls'[d].res # calls'[c].res
  BY DEF FreshInv, Brings
<1>1. PICK r : r = calls[d].res
  OBVIOUS
<1>2. Brings(calls[d]) /\ calls'[d].res = r /\ r # NoToken
  BY <1>1 DEF Brings
<1>3. /\ r \notin {session.token, stored.token}
      /\ \A c \in Everyone : /\ r # calls[c].token /\ r \notin calls[c].dead
                             /\ c # d /\ Brings(calls[c]) => r # calls[c].res
  BY <1>1, <1>2 DEF FreshInv
<1>4. r \notin {session'.token, stored'.token}
  <2>1. CASE {session'.token, stored'.token} \subseteq {NoToken, session.token, stored.token}
    BY <1>2, <1>3, <2>1
  <2>2. CASE \E c \in Everyone : /\ Brings(calls[c]) /\ ~Brings(calls'[c])
                                 /\ session'.token = calls[c].res /\ stored'.token = calls[c].res
    BY <1>3, <2>2
  <2> QED BY <2>1, <2>2
<1>5. ASSUME NEW c \in Everyone
      PROVE  /\ r # calls'[c].token /\ r \notin calls'[c].dead
             /\ c # d /\ Brings(calls'[c]) => r # calls'[c].res
  BY <1>2, <1>3
<1> QED
  BY <1>2, <1>4, <1>5

\* The same for a step of one call that leaves the session and storage alone.
LEMMA NoFreshTokenAtOne ==
    ASSUME TypeInv, FreshInv, NEW c \in Everyone, Only(c), UNCHANGED <<session, stored>>,
           ~Brings(calls'[c]),
           calls'[c].token \in {NoToken, calls[c].token, session.token, stored.token},
           calls'[c].dead \subseteq calls[c].dead \union {session.token, calls[c].token}
    PROVE  FreshInv'
<1>1. \A d \in Everyone \ {c} : calls'[d] = calls[d]
  BY DEF Only
<1>2. \A d \in Everyone : Brings(calls'[d]) => Brings(calls[d]) /\ calls'[d].res = calls[d].res
  BY <1>1
<1>3. \A d \in Everyone :
                /\ calls'[d].token \in {NoToken, calls[d].token, session.token, stored.token}
                /\ calls'[d].dead \subseteq calls[d].dead \union {session.token, calls[d].token}
  BY <1>1
<1>4. {session'.token, stored'.token} \subseteq {NoToken, session.token, stored.token}
  OBVIOUS
<1> QED
  BY <1>2, <1>3, <1>4, NoFreshToken

\* The server's next token has a number nobody holds.
LEMMA FreshTokenIsNew ==
    ASSUME TypeInv, FreshInv, NEW c \in Everyone, Only(c), UNCHANGED <<session, stored>>,
           calls'[c].res = Len(issued) + 1,
           calls'[c].token = calls[c].token, calls'[c].dead = calls[c].dead
    PROVE  FreshInv'
<1>1. \A d \in Everyone \ {c} : calls'[d] = calls[d]
  BY DEF Only
<1>2. PICK n \in Nat : n = Len(issued)
  BY Basics
<1>3. /\ session.token \in 0..n /\ stored.token \in 0..n
      /\ \A d \in Everyone : calls[d].token \in 0..n /\ calls[d].res \in 0..n /\ calls[d].dead \subseteq 1..n
  BY <1>2, Basics DEF TypeInv, WellFormed
<1>4. \A d \in Everyone : calls'[d].token = calls[d].token /\ calls'[d].dead = calls[d].dead
  BY <1>1
<1> SUFFICES ASSUME NEW d \in Everyone, Brings(calls'[d])
             PROVE  /\ calls'[d].res \notin {session'.token, stored'.token}
                    /\ \A e \in Everyone :
                            /\ calls'[d].res # calls'[e].token
                            /\ calls'[d].res \notin calls'[e].dead
                            /\ e # d /\ Brings(calls'[e]) => calls'[d].res # calls'[e].res
  BY DEF FreshInv, Brings
<1>5. CASE d = c
  <2>1. calls'[d].res = n + 1
    BY <1>2, <1>5
  <2>2. n + 1 \notin 0..n /\ n + 1 \notin 1..n
    BY <1>2
  <2>3. calls'[d].res \notin {session'.token, stored'.token}
    BY <1>3, <2>1, <2>2
  <2>4. ASSUME NEW e \in Everyone
        PROVE  /\ calls'[d].res # calls'[e].token
               /\ calls'[d].res \notin calls'[e].dead
               /\ e # d => calls'[d].res # calls'[e].res
    BY <1>1, <1>3, <1>4, <1>5, <2>1, <2>2
  <2> QED
    BY <2>3, <2>4
<1>6. CASE d # c
  <2>1. calls'[d] = calls[d] /\ Brings(calls[d])
    BY <1>1, <1>6
  <2>2. /\ calls[d].res \notin {session.token, stored.token} /\ calls[d].res \in 0..n
        /\ \A e \in Everyone : /\ calls[d].res # calls[e].token /\ calls[d].res \notin calls[e].dead
                               /\ e # d /\ Brings(calls[e]) => calls[d].res # calls[e].res
    BY <1>3, <2>1 DEF FreshInv
  <2>3. n + 1 \notin 0..n
    BY <1>2
  <2>4. \A e \in Everyone : e # d /\ Brings(calls'[e]) => calls'[d].res # calls'[e].res
    BY <1>1, <1>2, <2>1, <2>2, <2>3
  <2> QED
    BY <1>4, <2>1, <2>2, <2>4
<1> QED BY <1>5, <1>6

LEMMA FreshKept ==
    ASSUME TypeInv, FreshInv, Going PROVE FreshInv'
<1>1. Boot \in Everyone /\ calls \in [Everyone -> CallRecord]
  BY Basics
<1>2. \A d \in Everyone : Brings(calls[d]) => Brings(calls[d]) /\ calls[d].res = calls[d].res
  OBVIOUS
<1>3. CASE SigningOut
  BY <1>3, NoFreshToken DEF SigningOut, NoSession
<1>4. CASE Ageing \/ UNCHANGED vars
  BY <1>4, NoFreshToken DEF Ageing, vars
<1>5. CASE Loading
  <2>1. calls[Boot].op = "boot" /\ ~Brings(calls[Boot]) /\ ~Brings(calls'[Boot])
    BY <1>1, <1>5 DEF Loading, TypeInv, WellFormed, Brings
  <2>2. \A d \in Everyone \ {Boot} : calls'[d] = calls[d]
    BY <1>5 DEF Loading, Only
  <2>3. \A d \in Everyone : Brings(calls'[d]) => Brings(calls[d]) /\ calls'[d].res = calls[d].res
    BY <2>1, <2>2
  <2>4. \A d \in Everyone :
                /\ calls'[d].token \in {NoToken, calls[d].token, session.token, stored.token}
                /\ calls'[d].dead \subseteq calls[d].dead \union {session.token, calls[d].token}
    BY <1>5, <2>2 DEF Loading
  <2>5. {session'.token, stored'.token} \subseteq {NoToken, session.token, stored.token}
    BY <1>5 DEF Loading, NoSession
  <2> QED
    BY <2>3, <2>4, <2>5, NoFreshToken
<1>6. CASE Announcing
  <2>1. ~Brings(calls'[Boot])
    BY <1>6 DEF Announcing, Brings, NoToken
  <2> QED
    BY <1>1, <1>6, <2>1, NoFreshTokenAtOne DEF Announcing
<1>7. CASE Redirecting
  <2>1. ~Brings(calls'[Boot])
    BY <1>7 DEF Redirecting, Brings
  <2>2. \A d \in Everyone \ {Boot} : calls'[d] = calls[d]
    BY <1>7 DEF Redirecting, Only
  <2>3. \A d \in Everyone : Brings(calls'[d]) => Brings(calls[d]) /\ calls'[d].res = calls[d].res
    BY <2>1, <2>2
  <2>4. \A d \in Everyone :
                /\ calls'[d].token \in {NoToken, calls[d].token, session.token, stored.token}
                /\ calls'[d].dead \subseteq calls[d].dead \union {session.token, calls[d].token}
    BY <1>7, <2>2 DEF Redirecting
  <2>5. {session'.token, stored'.token} \subseteq {NoToken, session.token, stored.token}
    BY <1>7 DEF Redirecting, NoSession
  <2> QED
    BY <2>3, <2>4, <2>5, NoFreshToken
<1>8. ASSUME NEW c \in Everyone, Starting(c) PROVE FreshInv'
  BY <1>8, NoFreshTokenAtOne DEF Starting, Brings, NoToken
<1>9. ASSUME NEW c \in Everyone, Finishing(c) PROVE FreshInv'
  <2>1. ~Brings(Idle)
    BY IdleIsACall DEF Brings, NoToken
  <2> QED
    BY <1>9, <2>1, NoFreshTokenAtOne, IdleIsACall DEF Finishing
<1>10. ASSUME NEW c \in Everyone, Moving(c) PROVE FreshInv'
  BY <1>10, NoFreshTokenAtOne DEF Moving, Brings
<1>11. ASSUME NEW c \in Everyone, Asking(c) PROVE FreshInv'
  <2>1. ~Brings(calls'[c])
    BY <1>11 DEF Asking, Brings
  <2> QED
    BY <1>11, <2>1, NoFreshTokenAtOne DEF Asking
<1>15. ASSUME NEW c \in Everyone, Dropping(c) PROVE FreshInv'
  <2>1. ~Brings(calls'[c])
    BY <1>15 DEF Dropping, Brings
  <2>2. \A d \in Everyone \ {c} : calls'[d] = calls[d]
    BY <1>15 DEF Dropping, Only
  <2>3. \A d \in Everyone : Brings(calls'[d]) => Brings(calls[d]) /\ calls'[d].res = calls[d].res
    BY <2>1, <2>2
  <2>4. \A d \in Everyone :
                /\ calls'[d].token \in {NoToken, calls[d].token, session.token, stored.token}
                /\ calls'[d].dead \subseteq calls[d].dead \union {session.token, calls[d].token}
    BY <1>15, <2>2 DEF Dropping
  <2>5. {session'.token, stored'.token} \subseteq {NoToken, session.token, stored.token}
    BY <1>15 DEF Dropping, NoSession
  <2> QED
    BY <2>3, <2>4, <2>5, NoFreshToken
<1>12. ASSUME NEW c \in Everyone, Answering(c) PROVE FreshInv'
  <2>1. CASE calls'[c].res = Len(issued) + 1
    BY <1>12, <2>1, FreshTokenIsNew DEF Answering
  <2>2. CASE calls'[c].res # Len(issued) + 1
    <3>1. /\ calls'[c].res \in {0, 1}
          /\ calls'[c].res = 1 => calls'[c].op \in {"updateUser", "request"} /\ calls'[c].pc = "answered"
      BY <1>12, <2>2 DEF Answering
    <3>2. ~Brings(calls'[c])
      BY <3>1 DEF Brings, NoToken
    <3> QED
      BY <1>12, <3>2, NoFreshTokenAtOne DEF Answering
  <2> QED BY <2>1, <2>2
<1>13. ASSUME NEW c \in Everyone, Receiving(c) PROVE FreshInv'
  <2>1. ~Brings(calls'[c])
    BY <1>13, IdleIsACall DEF Receiving, Brings, NoToken
  <2>2. \A d \in Everyone \ {c} : calls'[d] = calls[d]
    BY <1>13 DEF Receiving, Only
  <2>3. \A d \in Everyone : Brings(calls'[d]) => Brings(calls[d]) /\ calls'[d].res = calls[d].res
    BY <2>1, <2>2
  <2>4. \A d \in Everyone :
                /\ calls'[d].token \in {NoToken, calls[d].token, session.token, stored.token}
                /\ calls'[d].dead \subseteq calls[d].dead \union {session.token, calls[d].token}
    BY <1>13, <2>2, IdleIsACall DEF Receiving
  <2>5. \/ {session'.token, stored'.token} \subseteq {NoToken, session.token, stored.token}
        \/ /\ Brings(calls[c])
           /\ session'.token = calls[c].res /\ stored'.token = calls[c].res
    <3>1. calls[c].res \in 0..Len(issued)
      BY DEF TypeInv, WellFormed
    <3>2. SessionOf(calls[c].res).token = calls[c].res
      BY <3>1, Basics
    <3>3. CASE SetSession(SessionOf(calls[c].res)) /\ (calls[c].res # NoToken => Brings(calls[c]))
      BY <3>2, <3>3 DEF SetSession
    <3>4. CASE session'.token = session.token /\ stored' = session'
      BY <3>4
    <3>5. CASE UNCHANGED <<session, stored>>
      BY <3>5
    <3> QED
      BY <1>13, <3>3, <3>4, <3>5 DEF Receiving
  <2> QED
    BY <2>1, <2>3, <2>4, <2>5, NoFreshToken
<1>14. ASSUME NEW c \in Everyone, Settling(c) PROVE FreshInv'
  <2>1. ASSUME NEW d \in Everyone
        PROVE  /\ d = c => ~Brings(calls'[d])
               /\ Brings(calls'[d]) => Brings(calls[d]) /\ calls'[d].res = calls[d].res
               /\ calls'[d].token \in {NoToken, calls[d].token, session.token, stored.token}
               /\ calls'[d].dead \subseteq calls[d].dead \union {session.token, calls[d].token}
    <3>1. CASE Woken(d)
      BY <3>1 DEF Woken, Brings, NoToken
    <3>2. CASE d # c /\ calls'[d] = calls[d]
      BY <3>2
    <3> QED
      BY <1>14, <3>1, <3>2 DEF Settling
  <2>2. session'.token = calls[c].res /\ stored'.token = calls[c].res
    <3>1. SessionOf(calls[c].res).token = calls[c].res
      BY Basics DEF TypeInv, WellFormed
    <3> QED
      BY <1>14, <3>1 DEF Settling, SetSession
  <2>3. calls[c].res # NoToken => Brings(calls[c])
    BY <1>14 DEF Settling, Brings
  <2> QED
    BY <2>1, <2>2, <2>3, NoFreshToken
<1> QED
  BY <1>3, <1>4, <1>5, <1>6, <1>7, <1>8, <1>9, <1>10, <1>11, <1>12, <1>13, <1>14,
     <1>15 DEF Going

----------------------------------------------------------------------------
(* Tokens known to be dead *)

LEMMA OptionsStay ==
    ASSUME Going PROVE options' = options
BY DEF Going, SigningOut, Loading, Announcing, Redirecting, Ageing, vars,
       Starting, Finishing, Moving, Asking, Dropping, Answering, Receiving, Settling

\* The client that has started does not start again.
LEMMA StaysReady ==
    ASSUME TypeInv, Going, Ready PROVE Ready'
<1>1. calls[Boot].op = "none" /\ calls[Boot].pc = "idle" /\ Boot \in Everyone /\ Boot \notin Calls
  BY Basics DEF Ready, TypeInv, WellFormed
<1>2. calls'[Boot].op = calls[Boot].op
  <2>1. CASE SigningOut \/ Ageing \/ UNCHANGED vars
    BY <2>1 DEF SigningOut, Ageing, vars
  <2>2. CASE Loading \/ Announcing \/ Redirecting
    BY <1>1, <2>2 DEF Loading, Announcing, Redirecting
  <2>3. ASSUME NEW c \in Everyone, Settling(c) PROVE calls'[Boot].op = calls[Boot].op
    BY <1>1, <2>3 DEF Settling
  <2>4. ASSUME NEW c \in Everyone,
               \/ Starting(c) \/ Finishing(c) \/ Moving(c) \/ Asking(c) \/ Dropping(c)
               \/ Answering(c) \/ Receiving(c)
        PROVE  calls'[Boot].op = calls[Boot].op
    <3>1. Only(c) /\ c # Boot
      BY <1>1, <2>4 DEF Starting, Finishing, Moving, Asking, Dropping, Answering, Receiving
    <3> QED
      BY <1>1, <3>1 DEF Only
  <2> QED
    BY <2>1, <2>2, <2>3, <2>4 DEF Going
<1> QED
  BY <1>1, <1>2 DEF Ready

\* What the calls know of dead tokens outlives a step that leaves their
\* records alone, when the session keeps its token or gets one they do not know.
LEMMA OthersMindTheDead ==
    ASSUME TypeInv, Going, NEW d \in Calls, MindsTheDead(d), calls'[d] = calls[d],
           \A t \in Token : age[t] = "expired" => age'[t] = "expired",
           calls[d].op = "request" /\ calls[d].pc = "headers"
                => session'.token = session.token \/ session'.token \notin calls[d].dead
    PROVE  MindsTheDead(d)'
<1>1. (Ready => Ready') /\ options' = options
  BY StaysReady, OptionsStay
<1>2. calls[d].dead \subseteq Token
  BY Basics DEF CallRecord
<1> QED
  BY <1>1, <1>2 DEF MindsTheDead

\* NoToken is never among the tokens found dead.
LEMMA DeadAreTokens ==
    ASSUME TypeInv, NEW d \in Everyone
    PROVE  calls[d].dead \subseteq Token /\ NoToken \notin calls[d].dead
<1>1. calls[d].dead \subseteq Token
  BY Basics DEF CallRecord
<1> QED
  BY <1>1, Basics DEF Token, NoToken

LEMMA DeadKept ==
    ASSUME TypeInv, FreshInv, DeadInv, Going PROVE DeadInv'
<1>1. Boot \in Everyone /\ Boot \notin Calls /\ Calls \subseteq Everyone
  BY Basics
<1>2. \A d \in Calls : MindsTheDead(d)
  BY DEF DeadInv
<1>3. SUFFICES ASSUME NEW d \in Calls PROVE MindsTheDead(d)'
  BY DEF DeadInv
<1>4. calls[d].dead \subseteq Token /\ NoToken \notin calls[d].dead /\ (Ready => Ready') /\ options' = options
  BY <1>1, DeadAreTokens, StaysReady, OptionsStay
<1>5. CASE SigningOut \/ Ageing \/ UNCHANGED vars
  <2>1. session'.token \in {session.token, NoToken} /\ calls' = calls
        /\ \A t \in Token : age[t] = "expired" => age'[t] = "expired"
    BY <1>5 DEF SigningOut, Ageing, vars, NoSession
  <2> QED
    BY <1>2, <1>4, <2>1, OthersMindTheDead
\* Until the client has started no request gets as far as its headers.
<1>6. CASE Loading \/ Announcing \/ Redirecting
  <2>1. calls[Boot].op = "boot"
    BY <1>1, <1>6 DEF Loading, Announcing, Redirecting, TypeInv, WellFormed
  <2>2. calls[d].op = "request" => calls[d].pc # "headers"
    BY <1>2, <2>1 DEF MindsTheDead, Ready
  <2>3. calls'[d] = calls[d] /\ age' = age
    BY <1>1, <1>6 DEF Loading, Announcing, Redirecting, Only
  <2> QED
    BY <1>2, <2>2, <2>3, OthersMindTheDead
<1>7. ASSUME NEW c \in Everyone,
             Starting(c) \/ Finishing(c) \/ Moving(c) \/ Asking(c) \/ Answering(c)
      PROVE  MindsTheDead(d)'
  <2>1. Only(c) /\ session' = session /\ age' = age
    BY <1>7 DEF Starting, Finishing, Moving, Asking, Answering
  <2>2. CASE d # c
    <3>1. calls'[d] = calls[d]
      BY <1>1, <2>1, <2>2 DEF Only
    <3> QED
      BY <1>2, <2>1, <3>1, OthersMindTheDead
  <2>3. CASE d = c /\ Starting(c)
    BY <2>3 DEF Starting, MindsTheDead
  <2>4. CASE d = c /\ Finishing(c)
    BY <2>4, IdleIsACall DEF Finishing, MindsTheDead
  <2>5. CASE d = c /\ Moving(c) /\ calls'[c].op = "request"
    <3>1. /\ calls'[d].op = "request" /\ calls[d].op = "request"
          /\ calls'[d].dead = calls[d].dead /\ calls'[d].refused = calls[d].refused
          /\ \A t \in calls[d].dead : t # calls[d].refused => age[t] = "expired"
          /\ ~options.refreshExpiredToken => calls[d].dead \subseteq {calls[d].refused}
          /\ calls[d].pc = "headers" /\ session.token \in calls[d].dead => session.token = calls[d].refused
      BY <1>2, <2>5 DEF Moving, MindsTheDead
    <3>2. CASE calls'[c].pc = "headers"
      <4>1. Ready /\ (session.token # NoToken => age[session.token] # "expired" \/ ~options.refreshExpiredToken)
        BY <2>5, <3>2 DEF Moving
      <4>2. session.token \in calls[d].dead => session.token = calls[d].refused
        BY <1>4, <3>1, <4>1
      <4> QED
        BY <1>4, <2>1, <2>5, <3>1, <3>2, <4>1, <4>2 DEF MindsTheDead
    <3>3. CASE calls'[c].pc = "sent"
      <4>1. calls[d].pc = "headers" /\ calls'[d].token = session.token
            /\ (calls[d].refused # NoToken => session.token # calls[d].refused)
        BY <2>5, <3>3 DEF Moving
      <4>2. session.token \notin calls[d].dead
        BY <1>4, <3>1, <4>1
      <4>3. Ready
        BY <1>2, <3>1, <4>1 DEF MindsTheDead
      <4> QED
        BY <1>4, <2>1, <3>1, <3>3, <2>5, <4>1, <4>2, <4>3 DEF MindsTheDead
    <3>4. CASE calls'[c].pc = "ensure"
      BY <1>4, <2>1, <2>5, <3>1, <3>4 DEF MindsTheDead
    <3> QED
      BY <2>5, <3>2, <3>3, <3>4 DEF Moving
  <2>6. CASE d = c /\ Asking(c)
    BY <1>2, <1>4, <2>1, <2>6 DEF Asking, MindsTheDead
  <2>7. CASE d = c /\ Answering(c)
    BY <1>2, <1>4, <2>1, <2>7 DEF Answering, MindsTheDead
  <2>8. CASE calls'[d].op # "request"
    BY <2>8 DEF MindsTheDead
  <2> QED
    BY <1>7, <2>2, <2>3, <2>4, <2>5, <2>6, <2>7, <2>8
\* The session is replaced by one whose token no call has met.
<1>8. ASSUME NEW c \in Everyone, SetSession(SessionOf(calls[c].res)),
             calls[c].res # NoToken => Brings(calls[c])
      PROVE  session'.token \notin calls[d].dead
  <2>1. session'.token = calls[c].res
    <3>1. calls[c].res \in 0..Len(issued)
      BY DEF TypeInv, WellFormed
    <3> QED
      BY <1>8, <3>1, Basics DEF SetSession
  <2>2. calls[c].res # NoToken => calls[c].res \notin calls[d].dead
    BY <1>1, <1>8 DEF FreshInv
  <2> QED
    BY <1>4, <2>1, <2>2
<1>9. ASSUME NEW c \in Everyone, Receiving(c) PROVE MindsTheDead(d)'
  <2>1. Only(c) /\ age' = age
    BY <1>9 DEF Receiving
  <2>2. CASE d # c
    <3>1. calls'[d] = calls[d]
      BY <1>1, <2>1, <2>2 DEF Only
    <3>2. session'.token = session.token \/ session'.token \notin calls[d].dead
      BY <1>8, <1>9 DEF Receiving
    <3> QED
      BY <1>2, <2>1, <3>1, <3>2, OthersMindTheDead
  <2>3. CASE d = c /\ calls'[d] = Idle
    BY <2>3, IdleIsACall DEF MindsTheDead
  <2>4. CASE d = c /\ calls'[d] # Idle
    <3>1. /\ calls[d].op = "request" /\ calls'[d].pc = "refused"
          /\ calls[d].refused = NoToken /\ calls'[d].refused = calls[d].token
          /\ calls'[d].dead = calls[d].dead \union {calls[d].token}
          /\ calls[d].pc = "answered"
      BY <1>9, <2>4 DEF Receiving
    <3>2. Ready /\ (\A t \in calls[d].dead : t # calls[d].refused => age[t] = "expired")
          /\ (~options.refreshExpiredToken => calls[d].dead \subseteq {calls[d].refused})
      BY <1>2, <3>1 DEF MindsTheDead
    <3>3. /\ \A t \in calls'[d].dead : t # calls'[d].refused => age'[t] = "expired"
          /\ ~options.refreshExpiredToken => calls'[d].dead \subseteq {calls'[d].refused}
      BY <1>4, <2>1, <3>1, <3>2
    <3> QED
      BY <1>4, <3>1, <3>2, <3>3 DEF MindsTheDead
  <2> QED BY <2>2, <2>3, <2>4
<1>10. ASSUME NEW c \in Everyone, Settling(c) PROVE MindsTheDead(d)'
  <2>1. SetSession(SessionOf(calls[c].res)) /\ calls[c].pc = "refreshed" /\ age' = age
    BY <1>10 DEF Settling
  <2>2. session'.token \notin calls[d].dead
    BY <1>8, <2>1 DEF Brings
  <2>3. CASE calls'[d] = calls[d]
    BY <1>2, <2>1, <2>2, <2>3, OthersMindTheDead
  <2>4. CASE calls'[d] # calls[d] /\ calls'[d].op = "request"
    <3>1. Woken(d) /\ calls[d].pc \in {"refreshed", "joined"}
      BY <1>1, <1>10, <2>4 DEF Settling
    <3>2. calls[d].op = "request" /\ calls'[d].dead = calls[d].dead /\ calls'[d].refused = calls[d].refused
          /\ calls'[d].pc \in {"headers", "verdict"}
      BY <1>1, <2>4, <3>1 DEF Woken, TypeInv, WellFormed, Refreshing
    <3>3. Ready /\ (\A t \in calls[d].dead : t # calls[d].refused => age[t] = "expired")
          /\ (~options.refreshExpiredToken => calls[d].dead \subseteq {calls[d].refused})
      BY <1>2, <3>1, <3>2 DEF MindsTheDead
    <3> QED
      BY <1>4, <2>1, <2>2, <3>2, <3>3 DEF MindsTheDead
  <2>5. CASE calls'[d].op # "request"
    BY <2>5 DEF MindsTheDead
  <2> QED BY <2>3, <2>4, <2>5
\* Nor is the absence of a session a token a call has met.
<1>11. ASSUME NEW c \in Everyone, Dropping(c) PROVE MindsTheDead(d)'
  <2>1. Only(c) /\ age' = age /\ session'.token = NoToken
    BY <1>11 DEF Dropping, NoSession
  <2>2. CASE d # c
    <3>1. calls'[d] = calls[d]
      BY <1>1, <2>1, <2>2 DEF Only
    <3> QED
      BY <1>2, <1>4, <2>1, <3>1, OthersMindTheDead
  <2>3. CASE d = c
    <3>1. session'.token \notin calls'[d].dead
      BY <1>4, <1>11, <2>1, <2>3 DEF Dropping
    <3>2. /\ calls'[d].op = calls[d].op /\ calls'[d].refused = calls[d].refused
          /\ calls'[d].pc # "sent" /\ Ready' /\ options'.refreshExpiredToken
          /\ calls'[d].dead \subseteq calls[d].dead \union {session.token}
          /\ session.token \in calls'[d].dead => session.token \in calls[d].dead \/ age[session.token] = "expired"
      BY <1>4, <1>11, <2>3 DEF Dropping
    <3>3. calls[d].op = "request" => \A t \in calls[d].dead : t # calls[d].refused => age[t] = "expired"
      BY <1>2 DEF MindsTheDead
    <3>4. calls[d].op = "request" => \A t \in calls'[d].dead : t # calls'[d].refused => age'[t] = "expired"
      BY <2>1, <3>2, <3>3
    <3> QED
      BY <3>1, <3>2, <3>4 DEF MindsTheDead
  <2> QED BY <2>2, <2>3
<1> QED
  BY <1>5, <1>6, <1>7, <1>9, <1>10, <1>11 DEF Going

----------------------------------------------------------------------------
(* What is stored and announced *)

LEMMA StoredKept ==
    ASSUME TypeInv, StoredInv, Going PROVE StoredInv'
<1> SUFFICES ASSUME options.storage = "sync"
             PROVE  /\ calls'[Boot].pc \in {"idle", "redirect", "sent", "answered"}
                    /\ calls'[Boot].pc = "idle" => session' = stored' /\ session' = heard'
  <2>1. options' = options
    BY OptionsStay
  <2> QED
    BY <2>1 DEF StoredInv
<1>1. /\ calls[Boot].pc \in {"idle", "redirect", "sent", "answered"}
      /\ calls[Boot].pc = "idle" => session = stored /\ session = heard
      /\ Boot \in Everyone /\ Boot \notin Calls
  BY Basics DEF StoredInv
<1>2. CASE SigningOut \/ Ageing \/ UNCHANGED vars
  BY <1>1, <1>2 DEF SigningOut, Ageing, vars
<1>3. CASE Loading \/ Announcing \/ Redirecting
  BY <1>1, <1>3 DEF Loading, Announcing, Redirecting
<1>8. ASSUME NEW c \in Everyone, Dropping(c)
      PROVE  calls'[Boot] = calls[Boot] /\ session' = stored' /\ session' = heard'
  BY <1>1, <1>8 DEF Dropping, Only
<1>4. ASSUME NEW c \in Everyone, Starting(c) \/ Finishing(c) \/ Moving(c) \/ Asking(c)
      PROVE  calls'[Boot] = calls[Boot] /\ UNCHANGED <<session, stored, heard>>
  <2>1. Only(c) /\ c # Boot /\ UNCHANGED <<session, stored, heard>>
    BY <1>1, <1>4 DEF Starting, Finishing, Moving, Asking
  <2> QED
    BY <1>1, <2>1 DEF Only
<1>5. ASSUME NEW c \in Everyone, Answering(c)
      PROVE  UNCHANGED <<session, stored, heard>>
             /\ (calls'[Boot] = calls[Boot] \/ calls'[Boot].pc = "answered")
  <2>1. Only(c) /\ UNCHANGED <<session, stored, heard>>
    BY <1>5 DEF Answering
  <2>2. CASE c = Boot
    BY <1>1, <1>5, <2>1, <2>2 DEF Answering
  <2>3. CASE c # Boot
    BY <1>1, <2>1, <2>3 DEF Only
  <2> QED BY <2>1, <2>2, <2>3
<1>6. ASSUME NEW c \in Everyone, Receiving(c)
      PROVE  /\ calls'[Boot].pc \in {"idle", "redirect", "sent", "answered"}
             /\ calls'[Boot].pc = "idle" => session' = stored' /\ session' = heard'
  <2>1. CASE c = Boot
    <3>1. calls[Boot].op = "boot"
      BY <1>6, <2>1 DEF Receiving, TypeInv, WellFormed
    <3>2. SetSession(SessionOf(calls[c].res)) /\ calls'[Boot] = Idle
      BY <1>6, <2>1, <3>1 DEF Receiving
    <3> QED
      BY <3>2, IdleIsACall DEF SetSession
  <2>2. CASE c # Boot
    <3>1. calls'[Boot] = calls[Boot]
      BY <1>1, <1>6, <2>2 DEF Receiving, Only
    <3>2. \/ session' = stored' /\ session' = heard'
          \/ UNCHANGED <<session, stored, heard>>
      BY <1>6 DEF Receiving, SetSession
    <3> QED
      BY <1>1, <3>1, <3>2
  <2> QED BY <2>1, <2>2
<1>7. ASSUME NEW c \in Everyone, Settling(c)
      PROVE  calls'[Boot] = calls[Boot] /\ session' = stored' /\ session' = heard'
  BY <1>1, <1>7 DEF Settling, SetSession
<1> QED
  BY <1>1, <1>2, <1>3, <1>4, <1>5, <1>6, <1>7, <1>8 DEF Going

----------------------------------------------------------------------------
(* The invariant holds *)

LEMMA InitHolds == Init => AuthInv
<1> SUFFICES ASSUME Init PROVE AuthInv
  OBVIOUS
<1>1. PICK u \in Users : issued = <<u>>
  BY DEF Init
<1>2. Len(issued) = 1 /\ issued[1] = u /\ issued \in Seq(Users) /\ MaxTokens \in Nat /\ MaxTokens >= 1
  BY <1>1, BoundAssumption
<1>3. PICK boot \in {Idle, Begin("boot", "redirect"), Begin("boot", "load")} :
        /\ calls = [c \in Calls \union {Boot} |-> IF c = Boot THEN boot ELSE Idle]
        /\ options.storage = "sync" => boot # Begin("boot", "load")
  <2>1. Begin("boot", "redirect").pc = "redirect" /\ Begin("boot", "load").pc = "load" /\ Idle.pc = "idle"
    BY BeginIsACall, IdleIsACall
  <2> QED
    BY <2>1 DEF Init
<1>4. /\ boot \in CallRecord /\ boot.token = NoToken /\ boot.refused = NoToken /\ boot.dead = {} /\ boot.res = 0
      /\ \/ boot.op = "none" /\ boot.pc = "idle"
         \/ boot.op = "boot" /\ boot.pc = "redirect"
         \/ boot.op = "boot" /\ boot.pc = "load" /\ options.storage # "sync"
  BY <1>3, BeginIsACall, IdleIsACall
<1>5. \A c \in Everyone : calls[c] = IF c = Boot THEN boot ELSE Idle
  BY <1>3 DEF Everyone
<1>6. /\ calls \in [Everyone -> CallRecord] /\ Boot \in Everyone /\ Boot \notin Calls
      /\ NoCall \notin Everyone
  BY <1>3, <1>4, IdleIsACall, CallsAssumption DEF Everyone
<1>7. /\ stored \in Sessions /\ session \in Sessions /\ session.token \in 0..Len(issued)
      /\ heard = session /\ timer \in {session.token, NoToken}
      /\ options.storage = "sync" => session = stored
  BY <1>1, <1>2, TimerIs DEF Init, Sessions, SessionOf, NoSession, NoToken
<1>8. TypeInv
  <2>1. TypeOK
    <3>1. options \in Options /\ inFlight \in Calls \union {Boot, NoCall}
      BY DEF Init
    <3>2. {session, stored, heard} \subseteq Sessions /\ timer \in 0..Len(issued)
      BY <1>2, <1>7 DEF NoToken
    <3>3. issued \in Seq(Users) /\ Len(issued) \in 1..MaxTokens
      BY <1>2
    <3>4. age \in [Token -> {"fresh", "near", "expired"}]
      BY DEF Init
    <3> QED
      BY <1>6, <3>1, <3>2, <3>3, <3>4 DEF TypeOK, Everyone
  <2>2. \A c \in Everyone : WellFormed(calls[c], Len(issued))
    <3>1. WellFormed(boot, Len(issued))
      BY <1>2, <1>4 DEF WellFormed, Refreshing, NoToken
    <3>2. WellFormed(Idle, Len(issued))
      BY <1>2, IdleIsACall DEF WellFormed, Refreshing, NoToken
    <3> QED
      BY <1>5, <3>1, <3>2
  <2> QED
    BY <1>4, <1>5, <1>6, <2>1, <2>2, IdleIsACall DEF TypeInv, Everyone
<1>9. \A c \in Everyone : calls[c].pc \in {"idle", "redirect", "load"} /\ calls[c].res = 0
  BY <1>4, <1>5, IdleIsACall
<1>10. InFlightInv
  BY <1>6, <1>9 DEF Init, InFlightInv, Refreshing
<1>11. FreshInv
  BY <1>9 DEF FreshInv, Brings, NoToken
<1>12. DeadInv
  BY <1>5, <1>6, IdleIsACall DEF DeadInv, MindsTheDead, Everyone
<1>13. StoredInv
  BY <1>4, <1>5, <1>6, <1>7 DEF StoredInv
<1> QED
  BY <1>8, <1>10, <1>11, <1>12, <1>13 DEF AuthInv

LEMMA AuthInvKept == AuthInv /\ [Next]_vars => AuthInv'
<1> SUFFICES ASSUME AuthInv, [Next]_vars PROVE AuthInv'
  OBVIOUS
<1>1. TypeInv /\ InFlightInv /\ FreshInv /\ DeadInv /\ StoredInv
  BY DEF AuthInv
<1>2. Going
  BY <1>1, StepIs
<1> QED
  BY <1>1, <1>2, TypesKept, InFlightKept, FreshKept, DeadKept, StoredKept DEF AuthInv

LEMMA AuthInvHolds == Spec => []AuthInv
BY InitHolds, AuthInvKept, PTL DEF Spec

\* Every variable keeps its shape, and no call, session or timer holds a token
\* the server has not issued: what _setSession is given is an answer.
THEOREM TypeCorrect == Spec => []TypeOK
<1>1. AuthInv => TypeOK
  BY DEF AuthInv, TypeInv
<1> QED BY <1>1, AuthInvHolds, PTL

\* No request leaves with a token its call has found expired or seen refused,
\* however many refreshes, sign-ins and logouts come between: what
\* resolveHeaders reads after its await is either the token it found good or
\* one issued since (ensureValidSession, refreshRefusedSession).
THEOREM DeadTokenStaysHome == Spec => []DeadTokenIsNotSent
<1>1. AuthInv => DeadTokenIsNotSent
  BY DEF AuthInv, DeadInv, MindsTheDead, DeadTokenIsNotSent
<1> QED BY <1>1, AuthInvHolds, PTL

\* refreshOnce has one refresh on its way, however many calls ask for one and
\* in whatever order they are answered: no refresh token is presented twice.
THEOREM OneRefresh == Spec => []OneRefreshAtATime
<1>1. AuthInv => OneRefreshAtATime
  <2> SUFFICES ASSUME AuthInv, NEW c \in DOMAIN calls, NEW d \in DOMAIN calls,
                      calls[c].pc \in {"refreshing", "refreshed"}, calls[d].pc \in {"refreshing", "refreshed"}
               PROVE  c = d
    BY DEF OneRefreshAtATime
  <2>1. c \in Everyone /\ d \in Everyone
    BY Basics DEF AuthInv
  <2>2. inFlight = c /\ inFlight = d
    BY <2>1 DEF AuthInv, InFlightInv, Refreshing
  <2> QED BY <2>2
<1> QED BY <1>1, AuthInvHolds, PTL

\* With a storage that answers at once, a client that has started holds the
\* session it has stored and last announced: no interleaving of sign-ins,
\* refreshes, logouts and updates leaves _setSession's three copies apart.
THEOREM SessionIsOne == Spec => []SessionIsStoredAndAnnounced
<1>1. AuthInv => SessionIsStoredAndAnnounced
  <2> SUFFICES ASSUME AuthInv, options.storage = "sync", Ready PROVE session = stored /\ session = heard
    BY DEF SessionIsStoredAndAnnounced
  <2>1. WellFormed(calls[Boot], Len(issued)) /\ calls[Boot].op = "none"
    BY Basics DEF AuthInv, TypeInv, Ready
  <2>2. calls[Boot].pc = "idle"
    BY <2>1 DEF WellFormed
  <2> QED
    BY <2>2 DEF AuthInv, StoredInv
<1> QED BY <1>1, AuthInvHolds, PTL
====
