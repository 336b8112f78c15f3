---------------------------- MODULE ChannelJoin ----------------------------
(***************************************************************************)
(* One channel name of packages/client/src/realtime.ts and the server's    *)
(* subscription for it (packages/realtime/src/server.ts, channels.ts): the *)
(* handles that share the join, the join frames and their refs, the rejoin *)
(* when the oldest row listener leaves, rows judged while joins come and   *)
(* go, and who the socket says is present.                                 *)
(*                                                                         *)
(* Frames travel in order on the one socket, and are lost with it.  Another*)
(* channel keeps the socket open when this one is left.  A join target (a  *)
(* table, an event and a filter) is a member of Targets.  The server sees  *)
(* the close of a socket when the client does; the presence entry a lost   *)
(* socket leaves behind for a while counts as a peer's.  The socket has    *)
(* claims: it may track presence wherever it has joined.  A handle is not  *)
(* called again once it has unsubscribed or its channel was removed.       *)
(***************************************************************************)
EXTENDS Integers, Sequences, SequencesExt, FiniteSets

CONSTANTS
    Handles,        \* what channel(name) returns; one that unsubscribed may stand for a new one
    Targets,        \* what a join can register
    NameTarget,     \* the target the channel's name gives a join with no row listener
    Unreadable,     \* targets whose filter the server cannot read, and refuses
    NoTarget,       \* undefined
    Peers,          \* other sockets that track presence on the channel
    Self,           \* this socket, as a presence entry
    MaxRef,         \* bound: no caller action past this ref
    MaxFrames,      \* bound: no call is made, and no row sent, with this many frames ahead of it
    MaxJudging,     \* bound: rows awaiting a verdict at once
    MaxTracks,      \* bound: presence frames of this client and of its peers
    MaxLosses       \* bound: sockets lost

ASSUME ChannelAssumption ==
    /\ NameTarget \in Targets
    /\ Unreadable \subseteq Targets
    /\ NoTarget \notin Targets
    /\ Self \notin Peers
    /\ MaxRef \in Nat \ {0} /\ MaxFrames \in Nat /\ MaxJudging \in Nat
    /\ MaxTracks \in Nat /\ MaxLosses \in Nat

VARIABLES
    (* The channel's state in the client, as new when handles is empty *)
    handles,        \* handles, oldest first
    listens,        \* what the row listener of a handle is for, if it has one
    status,         \* what a handle's status callback was last told; "none" without one
    subscribed, joinSent, joined, joining,      \* fields of that name
    joinRef,        \* joinRef, 0 when undefined
    members,        \* how many entries of each peer `members` holds
    lastRef,        \* this.lastRef
    (* The socket *)
    up,             \* it is open
    toServer, toClient,     \* the frames on their way
    (* The server *)
    sub,            \* the target subscriptions holds for the channel
    subRef,         \* the ref of the join that registered it
    judging,        \* rows dispatchChange has this socket as a subscriber of, awaiting a verdict
    tracked,        \* whose presence is tracked on the channel
    (* Observations *)
    ackedRef,       \* the ref of the join this channel state last had acknowledged
    silentJoin,     \* since its last join was sent it has been without a row listener
    tracks, losses  \* used up so far

handleVars == <<handles, listens, status>>
joinVars   == <<subscribed, joinSent, joined, joining, joinRef, lastRef, ackedRef, silentJoin>>
serverVars == <<sub, subRef, judging, tracked>>
vars == <<handleVars, joinVars, members, up, toServer, toClient, serverVars, tracks, losses>>

Refs == 0 .. MaxRef + MaxLosses
Everyone == Peers \cup {Self}
Statuses == {"none", "asked", "SUBSCRIBED", "SUBSCRIBING", "CHANNEL_ERROR"}

ClientFrames == [type : {"join"}, target : Targets, ref : Refs] \cup [type : {"leave", "track", "untrack"}]

ServerFrames ==
    [type : {"ack", "refusal"}, ref : Refs]
        \cup [type : {"row"}, target : Targets, under : Refs, late : BOOLEAN]
        \cup [type : {"presence"}, joins : SUBSET Everyone, leaves : SUBSET Everyone]

TypeOK ==
    /\ handles \in Seq(Handles) /\ IsInjective(handles)
    /\ listens \in [Handles -> Targets \cup {NoTarget}]
    /\ status \in [Handles -> Statuses]
    /\ subscribed \in BOOLEAN /\ joinSent \in BOOLEAN
    /\ joined \in Targets \cup {NoTarget} /\ joining \in Targets \cup {NoTarget}
    /\ joinRef \in 0 .. lastRef /\ lastRef \in Refs
    /\ members \in [Everyone -> Nat]
    /\ up \in BOOLEAN
    /\ toServer \in Seq(ClientFrames) /\ toClient \in Seq(ServerFrames)
    /\ sub \in Targets \cup {NoTarget} /\ subRef \in 0 .. lastRef
    /\ judging \subseteq [target : Targets, under : Refs]
    /\ tracked \subseteq Everyone
    /\ ackedRef \in 0 .. lastRef /\ silentJoin \in BOOLEAN
    /\ tracks \in 0 .. MaxTracks /\ losses \in 0 .. MaxLosses

Init ==
    /\ handles = <<>>
    /\ listens = [h \in Handles |-> NoTarget]
    /\ status = [h \in Handles |-> "none"]
    /\ subscribed = FALSE /\ joinSent = FALSE
    /\ joined = NoTarget /\ joining = NoTarget
    /\ joinRef = 0 /\ lastRef = 0
    /\ members = [p \in Everyone |-> 0]
    /\ up = FALSE
    /\ toServer = <<>> /\ toClient = <<>>
    /\ sub = NoTarget /\ subRef = 0
    /\ judging = {} /\ tracked = {}
    /\ ackedRef = 0 /\ silentJoin = FALSE
    /\ tracks = 0 /\ losses = 0

-----------------------------------------------------------------------------
(* Parts of the client.                                                    *)

(* pgListenersOf: the places in hs, oldest first, that have a row listener. *)
pgListenersOf(hs) == {i \in DOMAIN hs : listens[hs[i]] # NoTarget}

listenedTo(hs, t) == \E i \in pgListenersOf(hs) : listens[hs[i]] = t

joinTargetOf(hs) == IF pgListenersOf(hs) = {} THEN NameTarget ELSE listens[hs[Min(pgListenersOf(hs))]]

notifyHandles(hs, s) ==
    [h \in Handles |-> IF h \notin Range(hs) THEN "none"
                       ELSE IF status[h] = "none" THEN "none" ELSE s]

forgetMembers == members' = [p \in Everyone |-> 0]

(* Also the state of a channel nobody had: getOrCreateChannel makes it anew. *)
forgetJoins ==
    /\ subscribed' = FALSE /\ joinSent' = FALSE
    /\ joined' = NoTarget /\ joining' = NoTarget
    /\ joinRef' = 0
    /\ ackedRef' = 0 /\ silentJoin' = FALSE
    /\ UNCHANGED lastRef
    /\ forgetMembers

(* Mutant: the rows are the new join's from the moment it is sent. *)
sendSubscribeAtOnce(hs) ==
    /\ joinSent' = TRUE
    /\ joining' = joinTargetOf(hs)
    /\ joined' = joinTargetOf(hs)
    /\ lastRef' = lastRef + 1
    /\ joinRef' = lastRef + 1
    /\ silentJoin' = (pgListenersOf(hs) = {})
    /\ UNCHANGED ackedRef
    /\ toServer' = Append(toServer, [type |-> "join", target |-> joinTargetOf(hs), ref |-> lastRef + 1])

(* sendSubscribe past its early returns: the rows stay the old join's until the new is acknowledged. *)
sendSubscribe(hs) ==
    /\ joinSent' = TRUE
    /\ joining' = joinTargetOf(hs)
    /\ joined' = IF joined = NoTarget THEN joinTargetOf(hs) ELSE joined
    /\ lastRef' = lastRef + 1
    /\ joinRef' = lastRef + 1
    /\ silentJoin' = (pgListenersOf(hs) = {})
    /\ UNCHANGED ackedRef
    /\ toServer' = Append(toServer, [type |-> "join", target |-> joinTargetOf(hs), ref |-> lastRef + 1])

(* Mutant: only the join acknowledged last counts, not the one on its way. *)
unheardAcknowledged(hs) ==
    /\ joinSent /\ joined # NoTarget
    /\ pgListenersOf(hs) # {}
    /\ ~listenedTo(hs, joined)

(* rejoinIfUnheard's question: no row listener of hs is for the join held. *)
unheard(hs) ==
    LET held == IF joining # NoTarget THEN joining ELSE joined
    IN  /\ joinSent /\ held # NoTarget
        /\ pgListenersOf(hs) # {}
        /\ ~listenedTo(hs, held)

(* Mutant: a reply settles whichever join is pending on the channel. *)
answeredJoinByName(ref) == handles # <<>>

(* The channel's pending join is the one a reply with that ref answers. *)
answeredJoin(ref) == handles # <<>> /\ (ref = 0 \/ joinRef = ref)

send(frame) == toServer' = Append(toServer, frame)

-----------------------------------------------------------------------------
(* Calls.                                                                  *)

calling == lastRef < MaxRef /\ Len(toServer) < MaxFrames

(* channel(name), with a row listener or none. *)
Channel(h, t) ==
    /\ h \notin Range(handles)
    /\ handles' = Append(handles, h)
    /\ listens' = [listens EXCEPT ![h] = t]
    /\ UNCHANGED <<status, joinVars, members, up, toServer, toClient, serverVars, tracks, losses>>

Subscribe(h) ==
    /\ h \in Range(handles)
    /\ calling
    /\ status' = [status EXCEPT ![h] = IF subscribed THEN "SUBSCRIBED" ELSE "asked"]
    /\ IF up /\ ~joinSent
       THEN sendSubscribe(handles) /\ UNCHANGED subscribed
       ELSE UNCHANGED <<joinVars, toServer>>
    /\ UNCHANGED <<handles, listens, members, up, toClient, serverVars, tracks, losses>>

(* removeChannel, and the unsubscribe() of the last handle. *)
leaveChannel ==
    /\ handles' = <<>>
    /\ status' = [h \in Handles |-> "none"]
    /\ listens' = [h \in Handles |-> NoTarget]
    /\ forgetJoins
    /\ IF up THEN send([type |-> "leave"]) ELSE UNCHANGED toServer

Unsubscribe(h) ==
    /\ calling
    /\ \E i \in DOMAIN handles : handles[i] = h /\
       LET left == RemoveAt(handles, i)
       IN  IF left = <<>> THEN leaveChannel
           ELSE /\ handles' = left
                /\ listens' = [listens EXCEPT ![h] = NoTarget]
                /\ IF unheard(left)
                   THEN /\ subscribed' = FALSE
                        /\ forgetMembers
                        /\ status' = notifyHandles(left, "SUBSCRIBING")
                        /\ sendSubscribe(left)
                   ELSE /\ status' = [status EXCEPT ![h] = "none"]
                        /\ silentJoin' = (silentJoin \/ pgListenersOf(left) = {})
                        /\ UNCHANGED <<subscribed, joinSent, joined, joining, joinRef, lastRef,
                                       ackedRef, members, toServer>>
    /\ UNCHANGED <<up, toClient, serverVars, tracks, losses>>

RemoveChannel ==
    /\ handles # <<>>
    /\ calling
    /\ leaveChannel
    /\ UNCHANGED <<up, toClient, serverVars, tracks, losses>>

(* track() and untrack(), whether or not the channel has joined. *)
Announce(type) ==
    /\ handles # <<>>
    /\ up
    /\ calling
    /\ tracks < MaxTracks
    /\ tracks' = tracks + 1
    /\ send([type |-> type])
    /\ UNCHANGED <<handleVars, joinVars, members, up, toClient, serverVars, losses>>

-----------------------------------------------------------------------------
(* The server.                                                             *)

received == toServer # <<>> /\ toServer' = Tail(toServer)

reply(frames) == toClient' = toClient \o frames

presence(joins, leaves) ==
    IF sub = NoTarget THEN <<>>
    ELSE <<[type |-> "presence", joins |-> joins, leaves |-> leaves]>>

(* Mutant: who is present is told to a socket new on the channel only. *)
JoinArrivesQuietly ==
    /\ received
    /\ Head(toServer).type = "join"
    /\ LET join == Head(toServer)
       IN  IF join.target \in Unreadable
           THEN reply(<<[type |-> "refusal", ref |-> join.ref]>>) /\ UNCHANGED <<sub, subRef>>
           ELSE /\ sub' = join.target
                /\ subRef' = join.ref
                /\ reply(<<[type |-> "ack", ref |-> join.ref]>>
                           \o IF tracked = {} \/ sub # NoTarget THEN <<>>
                              ELSE <<[type |-> "presence", joins |-> tracked, leaves |-> {}]>>)
    /\ UNCHANGED <<handleVars, joinVars, members, up, judging, tracked, tracks, losses>>

(* handleSubscribe: a refusal registers nothing; a join replaces the one before. *)
JoinArrives ==
    /\ received
    /\ Head(toServer).type = "join"
    /\ LET join == Head(toServer)
       IN  IF join.target \in Unreadable
           THEN reply(<<[type |-> "refusal", ref |-> join.ref]>>) /\ UNCHANGED <<sub, subRef>>
           ELSE /\ sub' = join.target
                /\ subRef' = join.ref
                /\ reply(<<[type |-> "ack", ref |-> join.ref]>>
                           \o IF tracked = {} THEN <<>>
                              ELSE <<[type |-> "presence", joins |-> tracked, leaves |-> {}]>>)
    /\ UNCHANGED <<handleVars, joinVars, members, up, judging, tracked, tracks, losses>>

(* handleUnsubscribe: the presence held goes too, told to the members that remain. *)
LeaveArrives ==
    /\ received
    /\ Head(toServer).type = "leave"
    /\ sub' = NoTarget
    /\ subRef' = 0
    /\ tracked' = tracked \ {Self}
    /\ UNCHANGED <<handleVars, joinVars, members, up, toClient, judging, tracks, losses>>

(* handleChannelAction: refused, naming the channel and no ref, unless it is a member. *)
ActionArrives ==
    /\ received
    /\ \/ /\ Head(toServer).type \in {"track", "untrack"} /\ sub = NoTarget
          /\ reply(<<[type |-> "refusal", ref |-> 0]>>)
          /\ UNCHANGED tracked
       \/ /\ Head(toServer).type = "track" /\ sub # NoTarget
          /\ tracked' = tracked \cup {Self}
          /\ reply(presence({Self}, {}))
       \/ /\ Head(toServer).type = "untrack" /\ sub # NoTarget
          /\ tracked' = tracked \ {Self}
          /\ reply(IF Self \in tracked THEN presence({}, {Self}) ELSE <<>>)
    /\ UNCHANGED <<handleVars, joinVars, members, up, sub, subRef, judging, tracks, losses>>

(* A peer tracks, a first time or again, or leaves. *)
PeerActs(p) ==
    /\ tracks < MaxTracks
    /\ tracks' = tracks + 1
    /\ \/ /\ tracked' = tracked \cup {p}
          /\ reply(presence({p}, {}))
       \/ /\ p \in tracked
          /\ tracked' = tracked \ {p}
          /\ reply(presence({}, {p}))
    /\ UNCHANGED <<handleVars, joinVars, members, up, toServer, sub, subRef, judging, losses>>

(* dispatchChange finds this socket among the subscribers of a change. *)
RowCommits ==
    /\ sub # NoTarget
    /\ judging' = judging \cup {[target |-> sub, under |-> subRef]}
    /\ Cardinality(judging) < MaxJudging
    /\ UNCHANGED <<handleVars, joinVars, members, up, toServer, toClient, sub, subRef, tracked,
                   tracks, losses>>

(* deliverIfVisible: sent on the channel it was subscribed as then, or not. *)
RowJudged(row) ==
    /\ row \in judging
    /\ judging' = judging \ {row}
    /\ \/ /\ Len(toClient) < MaxFrames
          /\ reply(<<[type |-> "row", target |-> row.target, under |-> row.under,
                      late |-> row.under # subRef]>>)
       \/ UNCHANGED toClient
    /\ UNCHANGED <<handleVars, joinVars, members, up, toServer, sub, subRef, tracked, tracks, losses>>

-----------------------------------------------------------------------------
(* Frames the client receives.                                             *)

heard(type) == toClient # <<>> /\ Head(toClient).type = type /\ toClient' = Tail(toClient)

(* acknowledgeJoin, for the join the reply answers. *)
AckArrives ==
    /\ heard("ack")
    /\ IF answeredJoin(Head(toClient).ref)
       THEN /\ subscribed' = TRUE
            /\ joined' = IF joining # NoTarget THEN joining ELSE joined
            /\ joining' = NoTarget
            /\ joinRef' = 0
            /\ ackedRef' = Head(toClient).ref
            /\ status' = notifyHandles(handles, "SUBSCRIBED")
            /\ UNCHANGED <<joinSent, lastRef, silentJoin>>
       ELSE UNCHANGED <<joinVars, status>>
    /\ UNCHANGED <<handles, listens, members, up, toServer, serverVars, tracks, losses>>

(* Mutant: a refused join stays marked as sent. *)
RefusalArrivesSent ==
    /\ heard("refusal")
    /\ IF answeredJoin(Head(toClient).ref)
       THEN /\ joinRef' = IF Head(toClient).ref = 0 THEN joinRef ELSE 0
            /\ status' = notifyHandles(handles, "CHANNEL_ERROR")
       ELSE UNCHANGED <<joinRef, status>>
    /\ UNCHANGED <<handles, listens, joinSent, subscribed, joined, joining, lastRef, ackedRef,
                   silentJoin, members, up, toServer, serverVars, tracks, losses>>

(* handleRefusal: a channel not confirmed yet may join again. *)
RefusalArrives ==
    /\ heard("refusal")
    /\ IF answeredJoin(Head(toClient).ref)
       THEN /\ joinSent' = (joinSent /\ subscribed)
            /\ joinRef' = IF Head(toClient).ref = 0 THEN joinRef ELSE 0
            /\ status' = notifyHandles(handles, "CHANNEL_ERROR")
       ELSE UNCHANGED <<joinSent, joinRef, status>>
    /\ UNCHANGED <<handles, listens, subscribed, joined, joining, lastRef, ackedRef, silentJoin,
                   members, up, toServer, serverVars, tracks, losses>>

(* handleChange hands the row to listeners for joined, and changes nothing. *)
RowArrives ==
    /\ heard("row")
    /\ UNCHANGED <<handleVars, joinVars, members, up, toServer, serverVars, tracks, losses>>

(* Mutant: a leave of a member not held takes an entry all the same. *)
withoutLeavesUnchecked(ms, leaves) == [p \in Everyone |-> ms[p] - (IF p \in leaves THEN 1 ELSE 0)]

withoutLeaves(ms, leaves) == [p \in Everyone |-> IF p \in leaves /\ ms[p] > 0 THEN ms[p] - 1 ELSE ms[p]]

PresenceArrives ==
    /\ heard("presence")
    /\ IF handles = <<>> THEN UNCHANGED members
       ELSE LET frame == Head(toClient)
                more == [p \in Everyone |-> IF p \in frame.joins THEN members[p] + 1 ELSE members[p]]
            IN  members' = withoutLeaves(more, frame.leaves)
    /\ UNCHANGED <<handleVars, joinVars, up, toServer, serverVars, tracks, losses>>

-----------------------------------------------------------------------------
(* The socket.                                                             *)

(* onclose, with the scheduleReconnect it makes; the server's handleDisconnect. *)
SocketCloses ==
    /\ up
    /\ losses < MaxLosses
    /\ losses' = losses + 1
    /\ up' = FALSE
    /\ toServer' = <<>> /\ toClient' = <<>>
    /\ forgetJoins
    /\ status' = notifyHandles(handles, "SUBSCRIBING")
    /\ sub' = NoTarget /\ subRef' = 0
    /\ judging' = {}
    /\ tracked' = tracked \ {Self}
    /\ UNCHANGED <<handles, listens, tracks>>

(* onopen: the channel joins. *)
SocketOpens ==
    /\ ~up
    /\ up' = TRUE
    /\ IF handles = <<>> THEN UNCHANGED <<joinVars, toServer>>
       ELSE sendSubscribe(handles) /\ UNCHANGED subscribed
    /\ UNCHANGED <<handleVars, members, toClient, serverVars, tracks, losses>>

-----------------------------------------------------------------------------

Caller ==
    \/ \E h \in Handles : \/ \E t \in Targets \cup {NoTarget} : Channel(h, t)
                          \/ Subscribe(h) \/ Unsubscribe(h)
    \/ RemoveChannel
    \/ \E type \in {"track", "untrack"} : Announce(type)

Server ==
    \/ JoinArrives \/ LeaveArrives \/ ActionArrives
    \/ RowCommits \/ \E row \in judging : RowJudged(row)

Client == AckArrives \/ RefusalArrives \/ RowArrives \/ PresenceArrives

Next == Caller \/ Server \/ Client \/ SocketCloses \/ SocketOpens \/ \E p \in Peers : PeerActs(p)

Spec == Init /\ [][Next]_vars

(* A socket delivers what it carries while it is open, and a closed one is opened again. *)
Fairness ==
    /\ WF_vars(JoinArrives \/ LeaveArrives \/ ActionArrives)
    /\ WF_vars(Client)
    /\ WF_vars(SocketOpens)

FairSpec == Spec /\ Fairness

-----------------------------------------------------------------------------
(* Properties.                                                             *)

settled == up /\ toServer = <<>> /\ toClient = <<>>

(* A row of the join this channel had acknowledged last, sent while that    *)
(* join stood, is handed to listeners for its own target and no other's.    *)
RowsReachTheirTarget ==
    toClient # <<>> /\ Head(toClient).type = "row" =>
        LET row == Head(toClient)
        IN  ackedRef # 0 /\ row.under = ackedRef /\ ~row.late => joined = row.target

(* A change goes only to listeners for its table: any row that arrives.     *)
EveryRowReachesItsTarget ==
    toClient # <<>> /\ Head(toClient).type = "row" /\ joined # NoTarget /\ listenedTo(handles, joined) =>
        joined = Head(toClient).target

(* The join held, acknowledged or on its way, has a row listener it serves, *)
(* if the channel has had one since it was sent: nobody reads SUBSCRIBED    *)
(* over a join made for a listener that has gone.                           *)
ListenersAreServed ==
    joinSent /\ ~silentJoin /\ pgListenersOf(handles) # {} =>
        listenedTo(handles, IF joining # NoTarget THEN joining ELSE joined)

(* A channel told SUBSCRIBED, and joining nothing more, holds a join that a *)
(* row listener of it is for, if it has had one since the join was sent.    *)
SubscribedIsServed ==
    subscribed /\ joining = NoTarget /\ ~silentJoin /\ pgListenersOf(handles) # {} =>
        listenedTo(handles, joined)

(* With nothing on its way, a channel that was acknowledged is registered   *)
(* on the server for the target its rows are taken to be of.                *)
SubscribedIsRegistered == settled /\ handles # <<>> /\ subscribed => sub = joined

(* With nothing on its way, a subscribed channel knows everyone present,    *)
(* those who were there before it joined included: sendPresenceState tells  *)
(* each join who they are. The docs say of the late joiner that it is not   *)
(* told; that is LateJoinerIsSentNobody.                                    *)
NobodyMissing == settled /\ handles # <<>> /\ subscribed => \A p \in tracked : members[p] > 0

(* A client that joins late is not sent the list of who is already there    *)
(* (docs-content/realtime.md): registering a join sends no presence.        *)
LateJoinerIsSentNobody ==
    [][sub' # NoTarget /\ subRef' # subRef =>
            \A i \in DOMAIN toClient' : toClient'[i].type = "presence" => i \in DOMAIN toClient]_vars

(* A handle that asked, or was told SUBSCRIBING, hears the outcome.         *)
WatcherIsAnswered ==
    \A h \in Handles : status[h] \in {"asked", "SUBSCRIBING"} ~> status[h] \notin {"asked", "SUBSCRIBING"}

=============================================================================
