---- MODULE AuthSession ----
(***************************************************************************)
(* The session an AuthClient holds (packages/client/src/auth.ts), the      *)
(* calls that read and replace it, and the data requests that carry its    *)
(* token (index.ts credentialHeaders, query.ts fetchWithOptional401Retry). *)
(*                                                                         *)
(* A call is an async method in progress: between two of its awaits        *)
(* nothing else runs, so an action is the code from one await to the next. *)
(* The auth server and the network are outside this repository: a token    *)
(* stands for an access token and the refresh token issued with it.        *)
(***************************************************************************)
EXTENDS Naturals, Sequences

CONSTANTS
    Users, NoUser,
    Calls,         \* slots for the calls an application makes
    Boot,          \* the start of the client: hydration, then the redirect
    NoCall,
    MaxTokens,     \* bound: how many tokens the server issues
    Options        \* what a client may be given

ASSUME CallsAssumption == Boot \notin Calls /\ NoCall \notin Calls \union {Boot}
ASSUME UsersAssumption == NoUser \notin Users
ASSUME BoundAssumption == MaxTokens \in Nat \ {0}

VARIABLES
    options,   \* what this client was given
    session,   \* currentSession
    stored,    \* the session in storage
    heard,     \* the session of the last event told to a listener
    timer,     \* the token refreshTimer is set for, NoToken when it is null
    inFlight,  \* the call whose refresh refreshInFlight holds
    calls,     \* calls in progress
    issued,    \* server: the user of each token, in the order issued
    age        \* of each access token, by the clock of the client

vars == <<options, session, stored, heard, timer, inFlight, calls, issued, age>>
client == <<session, stored, heard, timer>>

NoToken == 0
Token == 1..MaxTokens

\* The storage and the options of AuthClientOptions; bare: the tokens that come
\* without a refresh token.
ASSUME OptionsAssumption ==
    Options \subseteq [storage : {"sync", "async"}, autoRefreshToken : BOOLEAN,
                      refreshExpiredToken : BOOLEAN, bare : SUBSET Token]

NoSession == [token |-> NoToken, user |-> NoUser]
SessionOf(t) == IF t = NoToken THEN NoSession ELSE [token |-> t, user |-> issued[t]]

\* dead: tokens the call has found expired or seen refused. refused: the token
\* of its first attempt once that was refused. res: what the server answered.
Idle == [op |-> "none", pc |-> "idle", then |-> "idle", token |-> NoToken,
         refused |-> NoToken, dead |-> {}, res |-> 0, leader |-> NoCall]
Begin(op, pc) == [Idle EXCEPT !.op = op, !.pc = pc]

Ready == calls[Boot].op # "boot"
Free(c) == c \in Calls /\ calls[c] = Idle
Become(c, rec) == calls' = [calls EXCEPT ![c] = rec]
Move(c, pc) == Become(c, [calls[c] EXCEPT !.pc = pc])
Finish(c) == Become(c, Idle)

----------------------------------------------------------------------------
(* Changing the session *)

\* scheduleAutoRefresh: the token the timer is set for.
TimerOf(t) == IF options.autoRefreshToken /\ t \notin options.bare THEN t ELSE NoToken

\* _setSession: the field, storage, the timer and the listeners, in one go.
SetSession(s) ==
    /\ session' = s
    /\ stored' = s
    /\ timer' = TimerOf(s.token)
    /\ heard' = s

(* Mutant: the session may have gone while the update was on its way. *)
applyUpdatedUserToAny(u) ==
    /\ session' = [session EXCEPT !.user = u]
    /\ stored' = session'
    /\ heard' = session'
    /\ UNCHANGED timer

\* The user of the session replaced, its tokens and its timer left alone.
applyUpdatedUser(u) ==
    IF session = NoSession
    THEN UNCHANGED client
    ELSE /\ session' = [session EXCEPT !.user = u]
         /\ stored' = session'
         /\ heard' = session'
         /\ UNCHANGED timer

(* Mutant: every caller refreshes for itself. *)
refreshEach(c, then, dead) ==
    /\ Become(c, [calls[c] EXCEPT !.then = then, !.dead = dead, !.token = session.token, !.pc = "refreshing"])
    /\ inFlight' = c

\* Begin the refresh of the session's token, or wait for the one in flight.
refreshOnce(c, then, dead) ==
    LET rec == [calls[c] EXCEPT !.then = then, !.dead = dead, !.token = session.token]
    IN  IF inFlight = NoCall
        THEN /\ Become(c, [rec EXCEPT !.pc = "refreshing"])
             /\ inFlight' = c
        ELSE /\ Become(c, [rec EXCEPT !.pc = "joined", !.leader = inFlight])
             /\ UNCHANGED inFlight

\* The calls that go on when the refresh of call c is over: its own, and those
\* that wait for it.
Resumed(c) ==
    [d \in DOMAIN calls |->
        IF d = c \/ (calls[d].pc = "joined" /\ calls[d].leader = c)
        THEN [calls[d] EXCEPT !.pc = calls[d].then, !.then = "idle", !.leader = NoCall, !.res = 0,
                              !.token = IF calls[d].then = "announce" THEN @ ELSE NoToken]
        ELSE calls[d]]

(* Mutant: refreshInFlight is kept once its refresh has settled. *)
RefreshSettlesKept(c) ==
    /\ calls[c].pc = "refreshed"
    /\ SetSession(SessionOf(calls[c].res))
    /\ calls' = Resumed(c)
    /\ UNCHANGED <<options, inFlight, issued, age>>

(* Mutant: a refresh that fails leaves the session as it is. *)
RefreshSettlesKeeping(c) ==
    /\ calls[c].pc = "refreshed"
    /\ IF calls[c].res = 0 THEN UNCHANGED client ELSE SetSession(SessionOf(calls[c].res))
    /\ inFlight' = NoCall
    /\ calls' = Resumed(c)
    /\ UNCHANGED <<options, issued, age>>

\* The refresh of call c has answered: the session is replaced or cleared,
\* refreshInFlight is null again and every call waiting for it goes on.
RefreshSettles(c) ==
    /\ calls[c].pc = "refreshed"
    /\ SetSession(SessionOf(calls[c].res))
    /\ inFlight' = NoCall
    /\ calls' = Resumed(c)
    /\ UNCHANGED <<options, issued, age>>

\* What ensureValidSession has to do something about.
Lapsed(s) == s # NoSession /\ age[s.token] = "expired" /\ options.refreshExpiredToken

\* ensureValidSession, once the client is ready: a session that has expired is
\* refreshed, or cleared when it cannot be, or sent as it is when the client
\* was given to leave that to the server.
ensureValidSession(c) ==
    LET dead == IF calls[c].op = "request" THEN calls[c].dead \union {session.token} ELSE {}
    IN  /\ calls[c].pc = "ensure"
        /\ Ready
        /\ \/ /\ ~Lapsed(session)
              /\ Move(c, "headers")
              /\ UNCHANGED <<client, inFlight>>
           \/ /\ Lapsed(session) /\ session.token \in options.bare
              /\ SetSession(NoSession)
              /\ Become(c, [calls[c] EXCEPT !.pc = "headers", !.dead = dead])
              /\ UNCHANGED inFlight
           \/ /\ Lapsed(session) /\ session.token \notin options.bare
              /\ refreshOnce(c, "headers", dead)
              /\ UNCHANGED client
        /\ UNCHANGED <<options, issued, age>>

----------------------------------------------------------------------------
(* The calls of an application *)

\* signUp, signInWithPassword, signInAnonymously, verifyOtp,
\* exchangeCodeForSession and setSession: one request, then _setSession.
signIn(c) ==
    /\ Free(c)
    /\ Become(c, Begin("signIn", "sent"))
    /\ UNCHANGED <<options, client, inFlight, issued, age>>

signOut(c) ==
    /\ Free(c)
    /\ IF session = NoSession
       THEN SetSession(NoSession) /\ UNCHANGED calls
       ELSE /\ Become(c, [Begin("signOut", "sent") EXCEPT !.token = session.token])
            /\ UNCHANGED client
    /\ UNCHANGED <<options, inFlight, issued, age>>

\* The public refreshSession(), which does not go through refreshOnce.
refreshSession(c) ==
    /\ Free(c)
    /\ session # NoSession
    /\ IF session.token \in options.bare
       THEN SetSession(NoSession) /\ UNCHANGED calls
       ELSE /\ Become(c, [Begin("refresh", "sent") EXCEPT !.token = session.token])
            /\ UNCHANGED client
    /\ UNCHANGED <<options, inFlight, issued, age>>

updateUser(c) ==
    /\ Free(c)
    /\ session # NoSession
    /\ Become(c, [Begin("updateUser", "sent") EXCEPT !.token = session.token])
    /\ UNCHANGED <<options, client, inFlight, issued, age>>

getSession(c) ==
    /\ Free(c)
    /\ Become(c, Begin("getSession", "ensure"))
    /\ UNCHANGED <<options, client, inFlight, issued, age>>

\* A data request begins by resolving its headers.
request(c) ==
    /\ Free(c)
    /\ Become(c, Begin("request", "ensure"))
    /\ UNCHANGED <<options, client, inFlight, issued, age>>

\* The auto-refresh timer, due a minute before its token expires, and the
\* check the constructor makes of a session that was loaded expired.
TimerFires(c) ==
    /\ Free(c)
    /\ timer # NoToken
    /\ age[timer] # "fresh"
    /\ timer' = NoToken
    /\ Become(c, Begin("getSession", "ensure"))
    /\ UNCHANGED <<options, session, stored, heard, inFlight, issued, age>>

----------------------------------------------------------------------------
(* A data request, from its headers to its answer *)

\* ensureValidSession has returned: getSession answers, a request is sent with
\* the token there is, unless it is the token just refused.
Headers(c) ==
    /\ calls[c].pc = "headers"
    /\ IF calls[c].op = "getSession" \/ (calls[c].refused # NoToken /\ session.token = calls[c].refused)
       THEN Finish(c)
       ELSE Become(c, [calls[c] EXCEPT !.pc = "sent", !.token = session.token])
    /\ UNCHANGED <<options, client, inFlight, issued, age>>

\* refreshRefusedSession, once the client is ready. A refresh of a token that
\* came without a refresh token is over at once.
refreshRefusedSession(c) ==
    LET replaced == session.token # calls[c].refused
        refreshes == session # NoSession /\ ~replaced /\ options.refreshExpiredToken
        atOnce == inFlight = NoCall /\ session.token \in options.bare
    IN  /\ calls[c].pc = "refused"
        /\ Ready
        /\ \/ /\ session = NoSession \/ (~replaced /\ ~options.refreshExpiredToken)
              /\ Finish(c)
              /\ UNCHANGED <<client, inFlight>>
           \/ /\ session # NoSession /\ replaced
              /\ Move(c, "ensure")
              /\ UNCHANGED <<client, inFlight>>
           \/ /\ refreshes /\ ~atOnce
              /\ refreshOnce(c, "verdict", calls[c].dead)
              /\ UNCHANGED client
           \/ /\ refreshes /\ atOnce
              /\ SetSession(NoSession)
              /\ Move(c, "verdict")
              /\ UNCHANGED inFlight
        /\ UNCHANGED <<options, issued, age>>

\* The rest of refreshRefusedSession: send again only with another token.
Verdict(c) ==
    /\ calls[c].pc = "verdict"
    /\ IF session.token \notin {NoToken, calls[c].refused} THEN Move(c, "ensure") ELSE Finish(c)
    /\ UNCHANGED <<options, client, inFlight, issued, age>>

(* Mutant: a redirect that is refused ends there. *)
TakesKeeping(call) ==
    IF call.op = "boot" /\ call.res = 0
    THEN UNCHANGED client
    ELSE CASE call.op \in {"signOut", "refresh", "boot"} -> SetSession(SessionOf(call.res))
           [] call.op = "signIn" /\ call.res # 0 -> SetSession(SessionOf(call.res))
           [] call.op = "updateUser" /\ call.res # 0 -> applyUpdatedUser(issued[call.token])
           [] OTHER -> UNCHANGED client

\* What an answer does to the session: a logout ends it whatever the answer, a
\* refresh or a redirect that fails ends it too, a sign-in that fails does not.
Takes(call) ==
    CASE call.op \in {"signOut", "refresh", "boot"} -> SetSession(SessionOf(call.res))
      [] call.op = "signIn" /\ call.res # 0 -> SetSession(SessionOf(call.res))
      [] call.op = "updateUser" /\ call.res # 0 -> applyUpdatedUser(issued[call.token])
      [] OTHER -> UNCHANGED client

\* The answer to a call's own request. A request refused once goes on to ask
\* for another token.
Receive(c) ==
    LET call == calls[c]
    IN  /\ call.pc = "answered"
        /\ Takes(call)
        /\ IF call.op = "request" /\ call.res = 1 /\ call.refused = NoToken
           THEN Become(c, [call EXCEPT !.pc = "refused", !.refused = call.token, !.token = NoToken,
                                       !.dead = @ \union {call.token}, !.res = 0])
           ELSE Finish(c)
        /\ UNCHANGED <<options, inFlight, issued, age>>

----------------------------------------------------------------------------
(* The start of the client *)

\* hydrateFromStorage: the stored session is taken whatever the session is by
\* now, and refreshed, or cleared, when it has expired.
Hydrate ==
    LET told == [calls[Boot] EXCEPT !.token = stored.token]
        rec == [told EXCEPT !.then = "announce"]
    IN  /\ calls[Boot].pc = "load"
        /\ \/ /\ ~Lapsed(stored)
              /\ session' = IF stored = NoSession THEN session ELSE stored
              /\ timer' = IF stored = NoSession THEN timer ELSE TimerOf(stored.token)
              /\ heard' = IF stored = NoSession THEN heard ELSE stored
              /\ \E next \in {Idle, Begin("boot", "redirect")} : Become(Boot, next)
              /\ UNCHANGED <<stored, inFlight>>
           \/ /\ Lapsed(stored) /\ stored.token \in options.bare
              /\ SetSession(NoSession)
              /\ Become(Boot, [told EXCEPT !.pc = "announce"])
              /\ UNCHANGED inFlight
           \/ /\ Lapsed(stored) /\ stored.token \notin options.bare
              /\ session' = stored
              /\ timer' = TimerOf(stored.token)
              /\ IF inFlight = NoCall
                 THEN Become(Boot, [rec EXCEPT !.pc = "refreshing"]) /\ inFlight' = Boot
                 ELSE Become(Boot, [rec EXCEPT !.pc = "joined", !.leader = inFlight]) /\ UNCHANGED inFlight
              /\ UNCHANGED <<stored, heard>>
        /\ UNCHANGED <<options, issued, age>>

\* The rest of hydrateFromStorage: listeners are told of the session that was
\* loaded, whatever its refresh has made of it.
Announce ==
    /\ calls[Boot].pc = "announce"
    /\ heard' = SessionOf(calls[Boot].token)
    /\ \E next \in {Idle, Begin("boot", "redirect")} : Become(Boot, next)
    /\ UNCHANGED <<options, session, stored, timer, inFlight, issued, age>>

\* completeRedirect: the session is set aside, nobody told, and the sign-in
\* the URL carries is completed.
completeRedirect ==
    /\ calls[Boot].pc = "redirect"
    /\ session' = NoSession
    /\ Move(Boot, "sent")
    /\ UNCHANGED <<options, stored, heard, timer, inFlight, issued, age>>

----------------------------------------------------------------------------
(* The auth server and the network (external) *)

Grants(c) == calls[c].pc = "refreshing" \/ (calls[c].op = "refresh" /\ calls[c].pc = "sent")
Answer(c, r) == Become(c, [calls[c] EXCEPT !.res = r,
                               !.pc = IF calls[c].pc = "refreshing" THEN "refreshed" ELSE "answered"])

\* A token issued to u, when the bound leaves room for one.
Issue(c, u) ==
    /\ Len(issued) < MaxTokens
    /\ issued' = Append(issued, u)
    /\ Answer(c, Len(issued) + 1)

\* A refresh is granted, or it is refused, its token being spent by an earlier
\* one or its session ended by a logout, or its answer is lost.
ServeRefresh(c) ==
    /\ Grants(c)
    /\ \/ Issue(c, issued[calls[c].token])
       \/ Answer(c, 0) /\ UNCHANGED issued
    /\ UNCHANGED <<options, client, inFlight, age>>

ServeSignIn(c) ==
    /\ calls[c].op \in {"signIn", "boot"}
    /\ calls[c].pc = "sent"
    /\ \/ \E u \in Users : Issue(c, u)
       \/ Answer(c, 0) /\ UNCHANGED issued
    /\ UNCHANGED <<options, client, inFlight, age>>

\* 1: an update done, a token refused; 0: any other answer.
ServeOther(c) ==
    /\ calls[c].op \in {"signOut", "updateUser", "request"}
    /\ calls[c].pc = "sent"
    /\ \E r \in IF calls[c].op = "signOut" \/ calls[c].token = NoToken THEN {0} ELSE {0, 1} : Answer(c, r)
    /\ UNCHANGED <<options, client, inFlight, issued, age>>

\* Time: a token is fresh, then within a minute of its expiry, then expired.
\* Nobody looks at the age of a token the client no longer holds.
Age ==
    /\ \E t \in {session.token, stored.token} \ {NoToken} :
          /\ age[t] # "expired"
          /\ age' = [age EXCEPT ![t] = IF @ = "fresh" THEN "near" ELSE "expired"]
    /\ UNCHANGED <<options, client, inFlight, calls, issued>>

----------------------------------------------------------------------------

Init ==
    /\ options \in Options
    /\ \E u \in Users : issued = <<u>>
    /\ age \in {[[t \in Token |-> "fresh"] EXCEPT ![1] = a] : a \in {"fresh", "near", "expired"}}
    /\ stored \in {NoSession, SessionOf(1)}
    /\ session = IF options.storage = "sync" THEN stored ELSE NoSession
    /\ heard = session
    /\ timer = IF options.autoRefreshToken /\ session # NoSession /\ age[session.token] = "expired"
               THEN session.token ELSE TimerOf(session.token)
    /\ inFlight = NoCall
    /\ \E boot \in IF options.storage = "sync" THEN {Idle, Begin("boot", "redirect")} ELSE {Begin("boot", "load")} :
          calls = [c \in Calls \union {Boot} |-> IF c = Boot THEN boot ELSE Idle]

Serve(c) == ServeRefresh(c) \/ ServeSignIn(c) \/ ServeOther(c)
Continue(c) ==
    \/ ensureValidSession(c) \/ Headers(c) \/ refreshRefusedSession(c) \/ Verdict(c)
    \/ Receive(c) \/ RefreshSettles(c)
Starts == Hydrate \/ Announce \/ completeRedirect
Application(c) ==
    signIn(c) \/ signOut(c) \/ refreshSession(c) \/ updateUser(c) \/ getSession(c) \/ request(c)

Next ==
    \/ \E c \in Calls : Application(c) \/ TimerFires(c)
    \/ \E c \in Calls \union {Boot} : Serve(c) \/ Continue(c)
    \/ Starts
    \/ Age

Spec == Init /\ [][Next]_vars

\* The server answers or the transport's timeout does, a settled promise runs
\* its continuation, and a timer that is due fires.
Fairness ==
    /\ \A c \in Calls \union {Boot} : WF_vars(Serve(c)) /\ WF_vars(Continue(c))
    /\ WF_vars(Starts)
    /\ WF_vars(\E c \in Calls : TimerFires(c))

FairSpec == Spec /\ Fairness

----------------------------------------------------------------------------
(* Properties *)

CallRecord == [op : {"none", "boot", "signIn", "signOut", "refresh", "updateUser", "getSession", "request"},
               pc : {"idle", "load", "announce", "redirect", "ensure", "headers", "refused", "verdict",
                     "refreshing", "refreshed", "joined", "sent", "answered"},
               then : {"idle", "headers", "verdict", "announce"},
               token : 0..MaxTokens, refused : 0..MaxTokens, dead : SUBSET Token,
               res : 0..MaxTokens, leader : Calls \union {Boot, NoCall}]
Sessions == {NoSession} \union [token : 1..Len(issued), user : Users]

\* Every variable keeps its shape, no token is held that was never issued, and
\* a session has a user exactly when it has a token.
TypeOK ==
    /\ options \in Options
    /\ {session, stored, heard} \subseteq Sessions
    /\ timer \in 0..Len(issued)
    /\ inFlight \in Calls \union {Boot, NoCall}
    /\ calls \in [Calls \union {Boot} -> CallRecord]
    /\ issued \in Seq(Users) /\ Len(issued) \in 1..MaxTokens
    /\ age \in [Token -> {"fresh", "near", "expired"}]

\* No request leaves with a token its own call knows to be dead: one that
\* ensureValidSession found expired, whatever became of the refresh it waited
\* for and of the session meanwhile, or one the server has already refused. A
\* client told to leave expired sessions to the server knows only the latter.
DeadTokenIsNotSent ==
    \A c \in Calls : calls[c].op = "request" /\ calls[c].pc = "sent" => calls[c].token \notin calls[c].dead

\* The client never has two refreshes of its own on their way: the second
\* would present a refresh token the first has spent, and sign the user out.
OneRefreshAtATime ==
    \A c, d \in DOMAIN calls :
        calls[c].pc \in {"refreshing", "refreshed"} /\ calls[d].pc \in {"refreshing", "refreshed"} => c = d

\* Once the client has started, what it holds, what it has stored and what its
\* listeners were last told is one session.
SessionIsStoredAndAnnounced == options.storage = "sync" /\ Ready => session = stored /\ session = heard

\* The same with a storage that answers later: the start of the client tells
\* listeners of the session it loaded after that session may have been
\* refreshed, or cleared because the server refused it.
ListenersKnowTheSession == Ready => session = heard

\* Every call returns: a refresh that settles, refused or lost, wakes whoever
\* waits for it, and the start of the client holds nobody back for ever.
CallsReturn == \A c \in Calls \union {Boot} : calls[c].op # "none" ~> calls[c].op = "none"

\* A session whose token has expired is being refreshed, or is about to be: by
\* its timer, or by a call on its way. The docs say the client refreshes a
\* token about a minute before it expires.
ExpiredSessionIsRefreshed ==
    options.autoRefreshToken /\ Lapsed(session) => timer # NoToken \/ \E c \in DOMAIN calls : calls[c] # Idle

====
