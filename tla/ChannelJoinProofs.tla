---------------------- MODULE ChannelJoinProofs ----------------------
(***************************************************************************)
(* What is proved of ChannelJoin, for every set of handles, targets and    *)
(* peers, whichever targets the server refuses, and every bound.           *)
(*                                                                         *)
(* The two ends agree although neither waits for the other.  Frames arrive *)
(* in order and a join's ref is never used again, so an answer the client  *)
(* takes, which carries the ref of the last join it sent, finds no join    *)
(* and no leave still on its way: what the server has registered then is   *)
(* that join, and whatever it sends under a ref is of that ref's join.     *)
(***************************************************************************)
EXTENDS ChannelJoin, WellFoundedInduction, TLAPS

-----------------------------------------------------------------------------
(* The invariant.                                                          *)

IsJoin(f)   == f.type = "join"
IsAck(f, r) == f.type = "ack" /\ f.ref = r
Answers(f)  == f.type \in {"ack", "refusal"}
Shows(f, p) == f.type = "presence" /\ p \in f.joins
Hides(f, p) == f.type = "presence" /\ p \in f.leaves

(* What the row listeners of hs are for, and those of the channel. *)
Wanted(hs) == {listens[hs[i]] : i \in DOMAIN hs} \ {NoTarget}
Listened == Wanted(handles)

(* The target of the join on its way, or else of the one acknowledged. *)
Held == IF joining # NoTarget THEN joining ELSE joined

TypeInv ==
    /\ TypeOK
    /\ sub = NoTarget <=> subRef = 0
    /\ \A i \in DOMAIN toServer : IsJoin(toServer[i]) => toServer[i].ref # 0
    /\ \A i \in DOMAIN toClient : toClient[i].type = "ack" => toClient[i].ref # 0
    /\ \A i \in DOMAIN toClient : toClient[i].type = "presence" => toClient[i].joins \cap toClient[i].leaves = {}

(* Nothing outlives the socket, nor the channel its last handle; and each *)
(* socket adds at most one ref to those the calls use. *)
SocketInv ==
    /\ ~up => /\ toServer = <<>> /\ toClient = <<>> /\ sub = NoTarget /\ judging = {}
              /\ joinRef = 0 /\ ~joinSent /\ ~subscribed
    /\ handles = <<>> => joinRef = 0 /\ ackedRef = 0 /\ ~joinSent /\ ~subscribed
    /\ lastRef <= MaxRef + losses
    /\ ~up => lastRef = 0 \/ lastRef < MaxRef + losses

(* The pending join is the last one sent, and a join sent has a target. *)
PendingInv ==
    /\ joinRef \in {0, lastRef}
    /\ joinRef # 0 => joining # NoTarget
    /\ joinSent \/ subscribed \/ ackedRef # 0 => joined # NoTarget
    /\ subscribed /\ joinRef # 0 => joinSent

(* Joins travel in the order they were sent, behind those answered already. *)
OrderInv ==
    /\ \A i \in DOMAIN toServer : IsJoin(toServer[i]) =>
            /\ toServer[i].ref <= lastRef
            /\ ackedRef < toServer[i].ref
            /\ toServer[i].ref = joinRef => toServer[i].target = joining
    /\ \A i, k \in DOMAIN toServer :
            i < k /\ IsJoin(toServer[i]) /\ IsJoin(toServer[k]) => toServer[i].ref < toServer[k].ref
    /\ \A i \in DOMAIN toServer, k \in DOMAIN toClient :
            IsJoin(toServer[i]) /\ Answers(toClient[k]) => toClient[k].ref < toServer[i].ref
    /\ \A i \in DOMAIN toClient : Answers(toClient[i]) => toClient[i].ref <= lastRef
    /\ \A i, k \in DOMAIN toClient :
            toClient[i].type = "ack" /\ toClient[k].type = "refusal" => toClient[i].ref # toClient[k].ref

(* What is sent, or registered, under a join is of its target. *)
OfItsJoin(t, u) ==
    /\ u <= lastRef
    /\ u # 0 /\ u = ackedRef => t = joined
    /\ u # 0 /\ u = joinRef => t = joining

RowsInv ==
    /\ OfItsJoin(sub, subRef)
    /\ \A row \in judging : OfItsJoin(row.target, row.under)
    /\ \A i \in DOMAIN toClient : toClient[i].type = "row" => OfItsJoin(toClient[i].target, toClient[i].under)

(* Every leave in ts is followed by the join with ref r; there is none; no join but that. *)
Covered(ts, r) ==
    \A i \in DOMAIN ts : ts[i].type = "leave" => \E k \in DOMAIN ts : i < k /\ IsJoin(ts[k]) /\ ts[k].ref = r
NoLeave(ts) == \A i \in DOMAIN ts : ts[i].type # "leave"
OnlyJoin(ts, r) == \A i \in DOMAIN ts : IsJoin(ts[i]) => ts[i].ref = r

AckComes(tc, r) == \E i \in DOMAIN tc : IsAck(tc[i], r)

(* The server has registered what the client takes it to, or is about to. *)
RegisteredInv ==
    /\ joinRef # 0 => Covered(toServer, joinRef)
    /\ joinRef # 0 /\ AckComes(toClient, joinRef) => subRef = joinRef
    /\ subscribed =>
            /\ NoLeave(toServer) /\ OnlyJoin(toServer, joinRef)
            /\ sub # NoTarget
            /\ sub = joined \/ (joinRef # 0 /\ AckComes(toClient, joinRef))

(* The join held serves a listener, if there has been one since it was sent. *)
ServedInv ==
    joinSent => /\ Listened = {} => silentJoin
                /\ ~silentJoin => Held \in Listened

(* Whoever is present is a member, or a frame that says so is on its way; and *)
(* that they left is never the last that is said of those who have not. *)
ShownLater(tc, i, p) == \E k \in DOMAIN tc : i < k /\ Shows(tc[k], p)
Corrected(tc, p)     == \A i \in DOMAIN tc : Hides(tc[i], p) => ShownLater(tc, i, p)
ToldAfter(tc, r, p)  == \A i \in DOMAIN tc : IsAck(tc[i], r) => ShownLater(tc, i, p)
Shown(tc, p)         == \E i \in DOMAIN tc : Shows(tc[i], p)

PresenceInv ==
    /\ sub # NoTarget => \A p \in tracked : Corrected(toClient, p)
    /\ joinRef # 0 => \A p \in tracked : ToldAfter(toClient, joinRef, p)
    /\ subscribed => \A p \in tracked : members[p] > 0 \/ Shown(toClient, p)

ChannelInv ==
    /\ TypeInv /\ SocketInv /\ PendingInv /\ OrderInv
    /\ RowsInv /\ RegisteredInv /\ ServedInv /\ PresenceInv

-----------------------------------------------------------------------------
(* The ways a step goes.                                                   *)

(* A call that sends nothing: subscribe() when the join is sent or cannot be. *)
Quiet == UNCHANGED <<handles, listens, joinVars, members, up, toServer, toClient, serverVars, losses>>

(* A handle comes; one goes whose listener the join did not depend on. *)
Adding ==
    /\ handles' # <<>>
    /\ Listened \subseteq Listened'
    /\ UNCHANGED <<joinVars, members, up, toServer, toClient, serverVars, losses>>

Dropping ==
    /\ handles' # <<>>
    /\ silentJoin' <=> silentJoin \/ Listened' = {}
    /\ joinSent /\ Held # NoTarget /\ Listened' # {} => Held \in Listened'
    /\ UNCHANGED <<subscribed, joinSent, joined, joining, joinRef, lastRef, ackedRef,
                   members, up, toServer, toClient, serverVars, losses>>

(* A join is sent, by a channel that takes itself to have none or that rejoins. *)
Joining ==
    /\ up' /\ handles' # <<>>
    /\ ~subscribed' \/ (subscribed /\ ~joinSent /\ members' = members)
    /\ joinSent' /\ joining' \in Targets /\ joinRef' = lastRef + 1 /\ lastRef' = lastRef + 1
    /\ joined' = IF joined = NoTarget THEN joining' ELSE joined
    /\ silentJoin' <=> Listened' = {}
    /\ Listened' # {} => joining' \in Listened'
    /\ lastRef < MaxRef + losses
    /\ toServer' = Append(toServer, [type |-> "join", target |-> joining', ref |-> lastRef + 1])
    /\ UNCHANGED <<ackedRef, toClient, serverVars, losses>>

Leaving ==
    /\ handles' = <<>> /\ joinRef' = 0 /\ ackedRef' = 0
    /\ ~joinSent' /\ ~subscribed' /\ joined' = NoTarget /\ joining' = NoTarget /\ silentJoin' = FALSE
    /\ \/ up /\ toServer' = Append(toServer, [type |-> "leave"])
       \/ ~up /\ UNCHANGED toServer
    /\ UNCHANGED <<lastRef, up, toClient, serverVars, losses>>

Sending ==
    /\ up
    /\ \E type \in {"track", "untrack"} : toServer' = Append(toServer, [type |-> type])
    /\ UNCHANGED <<handles, listens, joinVars, members, up, toClient, serverVars, losses>>

(* The server takes a frame. *)
Taking == toServer # <<>> /\ toServer' = Tail(toServer)

Registering ==
    /\ Taking /\ IsJoin(toServer[1])
    /\ sub' = toServer[1].target /\ subRef' = toServer[1].ref
    /\ LET acked == Append(toClient, [type |-> "ack", ref |-> toServer[1].ref])
       IN  \/ tracked = {} /\ toClient' = acked
           \/ toClient' = Append(acked, [type |-> "presence", joins |-> tracked, leaves |-> {}])
    /\ UNCHANGED <<handles, listens, joinVars, members, up, judging, tracked, losses>>

Refusing ==
    /\ Taking /\ toServer[1].type # "leave"
    /\ \E r \in Refs : /\ r = IF IsJoin(toServer[1]) THEN toServer[1].ref ELSE 0
                       /\ toClient' = Append(toClient, [type |-> "refusal", ref |-> r])
    /\ UNCHANGED <<handles, listens, joinVars, members, up, serverVars, losses>>

Forgetting ==
    /\ Taking /\ toServer[1].type = "leave"
    /\ sub' = NoTarget /\ subRef' = 0 /\ tracked' \subseteq tracked
    /\ UNCHANGED <<handles, listens, joinVars, members, up, toClient, judging, losses>>

(* Somebody tracks presence, or no longer does: who has joined is told. *)
Telling(joins, leaves) ==
    IF sub = NoTarget THEN UNCHANGED toClient
    ELSE toClient' = Append(toClient, [type |-> "presence", joins |-> joins, leaves |-> leaves])

Presenting ==
    /\ UNCHANGED toServer \/ (Taking /\ toServer[1].type \notin {"join", "leave"})
    /\ \/ UNCHANGED <<tracked, toClient>>
       \/ \E p \in Everyone : tracked' = tracked \cup {p} /\ Telling({p}, {})
       \/ \E p \in Everyone : tracked' = tracked \ {p} /\ Telling({}, {p})
    /\ UNCHANGED <<handles, listens, joinVars, members, up, sub, subRef, judging, losses>>

(* A row finds the socket subscribed, and is sent or not. *)
Committing ==
    /\ sub # NoTarget
    /\ judging' = judging \cup {[target |-> sub, under |-> subRef]}
    /\ UNCHANGED <<handles, listens, joinVars, members, up, toServer, toClient, sub, subRef, tracked, losses>>

Judging ==
    /\ judging' \subseteq judging
    /\ \/ UNCHANGED toClient
       \/ up /\ \E row \in judging, late \in BOOLEAN :
              toClient' = Append(toClient, [type |-> "row", target |-> row.target,
                                            under |-> row.under, late |-> late])
    /\ UNCHANGED <<handles, listens, joinVars, members, up, toServer, sub, subRef, tracked, losses>>

(* The client takes a frame: it may be one for a join no longer pending. *)
Hearing == toClient # <<>> /\ toClient' = Tail(toClient)

Ignoring ==
    /\ Hearing
    /\ toClient[1].type = "presence" \/ IsAck(toClient[1], joinRef) => ~subscribed
    /\ UNCHANGED <<handles, listens, joinVars, members, up, toServer, serverVars, losses>>

Acknowledged ==
    /\ Hearing /\ IsAck(toClient[1], joinRef) /\ joinRef # 0
    /\ subscribed' /\ joinRef' = 0 /\ ackedRef' = joinRef
    /\ joined' = joining /\ joining' = NoTarget
    /\ UNCHANGED <<handles, listens, joinSent, lastRef, silentJoin, members, up, toServer, serverVars, losses>>

Refused ==
    /\ Hearing /\ toClient[1].type = "refusal"
    /\ joinSent' <=> joinSent /\ subscribed
    /\ \/ toClient[1].ref = 0 /\ UNCHANGED joinRef
       \/ toClient[1].ref = joinRef /\ joinRef # 0 /\ joinRef' = 0
    /\ UNCHANGED <<handles, listens, subscribed, joined, joining, lastRef, ackedRef, silentJoin,
                   members, up, toServer, serverVars, losses>>

Seeing ==
    /\ Hearing /\ toClient[1].type = "presence"
    /\ \A p \in Everyone : /\ p \in toClient[1].joins /\ p \notin toClient[1].leaves => members'[p] > 0
                           /\ members[p] > 0 /\ p \notin toClient[1].leaves => members'[p] > 0
    /\ UNCHANGED <<handles, listens, joinVars, up, toServer, serverVars, losses>>

(* The socket closes, or opens for no channel. *)
Closing ==
    /\ up /\ ~up' /\ losses' = losses + 1
    /\ toServer' = <<>> /\ toClient' = <<>> /\ sub' = NoTarget /\ subRef' = 0 /\ judging' = {}
    /\ joinRef' = 0 /\ ackedRef' = 0 /\ ~joinSent' /\ ~subscribed'
    /\ joined' = NoTarget /\ joining' = NoTarget /\ silentJoin' = FALSE
    /\ tracked' \subseteq tracked
    /\ UNCHANGED <<handles, listens, lastRef>>

Opening ==
    /\ ~up /\ up' /\ handles = <<>>
    /\ UNCHANGED <<handles, listens, joinVars, members, toServer, toClient, serverVars, losses>>

Going ==
    \/ Quiet \/ Adding \/ Dropping \/ Joining \/ Leaving \/ Sending
    \/ Registering \/ Refusing \/ Forgetting \/ Presenting \/ Committing \/ Judging
    \/ Ignoring \/ Acknowledged \/ Refused \/ Seeing \/ Closing \/ Opening
-----------------------------------------------------------------------------
(* Queues.                                                                 *)

LEMMA AppendIs ==
    ASSUME NEW S, NEW q \in Seq(S), NEW e, NEW r, r = Append(q, e)
    PROVE  /\ Len(q) \in Nat /\ DOMAIN q = 1 .. Len(q) /\ DOMAIN r = 1 .. Len(q) + 1
           /\ \A i \in DOMAIN q : i \in DOMAIN r /\ r[i] = q[i]
           /\ r[Len(q) + 1] = e
           /\ \A i \in DOMAIN r : i \in DOMAIN q \/ i = Len(q) + 1
           /\ e \in S => r \in Seq(S)
           /\ r # <<>>
OBVIOUS

LEMMA TailIs ==
    ASSUME NEW S, NEW q \in Seq(S), q # <<>>, NEW r, r = Tail(q)
    PROVE  /\ r \in Seq(S) /\ Len(q) \in Nat /\ DOMAIN q = 1 .. Len(q) /\ DOMAIN r = 1 .. Len(q) - 1
           /\ 1 \in DOMAIN q /\ q[1] \in S /\ Head(q) = q[1]
           /\ \A i \in DOMAIN r : i \in Nat /\ i + 1 \in DOMAIN q /\ r[i] = q[i + 1]
           /\ \A i \in DOMAIN q : i = 1 \/ (i \in Nat /\ i - 1 \in DOMAIN r /\ r[i - 1] = q[i])
OBVIOUS

LEMMA ConcatIs ==
    ASSUME NEW S, NEW q \in Seq(S), NEW d, NEW e
    PROVE  /\ q \o <<>> = q
           /\ q \o <<d>> = Append(q, d)
           /\ q \o (<<d>> \o <<>>) = Append(q, d)
           /\ q \o (<<d>> \o <<e>>) = Append(Append(q, d), e)
OBVIOUS

(* A handle taken out. *)
LEMMA RemoveAtIs ==
    ASSUME NEW S, NEW q \in Seq(S), NEW n \in DOMAIN q, NEW r, r = RemoveAt(q, n)
    PROVE  /\ r \in Seq(S)
           /\ DOMAIN r = 1 .. Len(q) - 1 /\ DOMAIN q = 1 .. Len(q)
           /\ \A i \in DOMAIN r : r[i] = IF i < n THEN q[i] ELSE q[i + 1]
<1>1. Len(q) \in Nat /\ DOMAIN q = 1 .. Len(q) /\ n \in 1 .. Len(q)
  OBVIOUS
<1>2. PICK left : left = SubSeq(q, 1, n - 1)
  OBVIOUS
<1>3. PICK right : right = SubSeq(q, n + 1, Len(q))
  OBVIOUS
<1>4. left \in Seq(S) /\ Len(left) = n - 1 /\ \A i \in 1 .. n - 1 : left[i] = q[i]
  BY <1>1, <1>2
<1>5. right \in Seq(S) /\ Len(right) = Len(q) - n /\ \A i \in 1 .. Len(q) - n : right[i] = q[n + i]
  BY <1>1, <1>3
<1>6. r = left \o right
  BY <1>2, <1>3 DEF RemoveAt
<1>7. r \in Seq(S) /\ Len(r) = Len(q) - 1
  <2>1. left \in Seq(S) /\ right \in Seq(S)
    BY <1>4, <1>5
  <2>2. r \in Seq(S) /\ Len(r) = Len(left) + Len(right)
    BY <1>6, <2>1
  <2> QED
    BY <1>1, <1>4, <1>5, <2>2
<1>8. ASSUME NEW i \in 1 .. Len(q) - 1 PROVE r[i] = IF i < n THEN q[i] ELSE q[i + 1]
  <2>1. CASE i < n
    BY <1>1, <1>4, <1>5, <1>6, <2>1
  <2>2. CASE ~(i < n)
    <3>1. r[i] = right[i - (n - 1)]
      <4>1. i \in 1 .. Len(left) + Len(right) /\ i > Len(left) /\ Len(left) = n - 1
        BY <1>1, <1>4, <1>5, <2>2
      <4>2. left \in Seq(S) /\ right \in Seq(S)
        BY <1>4, <1>5
      <4>3. r[i] = right[i - Len(left)]
        BY <1>6, <4>1, <4>2
      <4> QED
        BY <4>1, <4>3
    <3>2. i - (n - 1) \in 1 .. Len(q) - n /\ n + (i - (n - 1)) = i + 1
      BY <1>1, <2>2
    <3> QED
      BY <1>5, <2>2, <3>1, <3>2
  <2> QED BY <2>1, <2>2
<1> QED
  BY <1>1, <1>7, <1>8

(* A set of places has a first one. *)
Before == OpToRel(<, Nat)

LEMMA FirstIs ==
    ASSUME NEW S, S \subseteq Nat, S # {}
    PROVE  Min(S) \in S
<1>1. Before = {ss \in Nat \X Nat : ss[1] < ss[2]}
  BY DEF Before, OpToRel
<1>2. IsWellFoundedOn(Before, Nat)
  BY NatLessThanWellFounded DEF Before
<1>3. PICK n \in S : \A m \in S : <<m, n>> \notin Before
  BY <1>2, WFMin
<1>4. ASSUME NEW m \in S, m < n PROVE FALSE
  <2>1. <<m, n>> \in Nat \X Nat /\ <<m, n>>[1] = m /\ <<m, n>>[2] = n
    OBVIOUS
  <2>2. <<m, n>> \in Before
    BY <1>1, <1>4, <2>1
  <2> QED BY <1>3, <2>2
<1>5. \A m \in S : n <= m
  BY <1>4
<1> QED
  BY <1>5 DEF Min
-----------------------------------------------------------------------------
(* Every handler goes one of these ways.                                   *)

LEMMA Basics ==
    ASSUME TypeInv
    PROVE  /\ toServer \in Seq(ClientFrames) /\ toClient \in Seq(ServerFrames) /\ handles \in Seq(Handles)
           /\ lastRef \in Nat /\ joinRef \in Nat /\ subRef \in Nat /\ ackedRef \in Nat
           /\ joinRef <= lastRef /\ subRef <= lastRef /\ ackedRef <= lastRef
           /\ MaxRef \in Nat /\ losses \in Nat /\ MaxLosses \in Nat /\ losses <= MaxLosses
           /\ joinSent \in BOOLEAN /\ subscribed \in BOOLEAN /\ silentJoin \in BOOLEAN /\ up \in BOOLEAN
           /\ listens \in [Handles -> Targets \cup {NoTarget}]
           /\ NoTarget \notin Targets /\ NameTarget \in Targets
           /\ joined \in Targets \cup {NoTarget} /\ joining \in Targets \cup {NoTarget}
           /\ sub \in Targets \cup {NoTarget}
<1>1. lastRef \in Nat /\ MaxRef \in Nat /\ MaxLosses \in Nat /\ losses \in 0 .. MaxLosses
  BY ChannelAssumption DEF TypeInv, TypeOK, Refs
<1> QED
  BY <1>1, ChannelAssumption DEF TypeInv, TypeOK

(* The frames of a queue, one by one. *)
LEMMA FramesAre ==
    ASSUME TypeInv
    PROVE  /\ \A i \in DOMAIN toServer :
                /\ toServer[i].type \in {"join", "leave", "track", "untrack"}
                /\ IsJoin(toServer[i]) => /\ toServer[i].target \in Targets /\ toServer[i].ref \in Refs
                                          /\ toServer[i].ref \in Nat /\ toServer[i].ref # 0
           /\ \A i \in DOMAIN toClient :
                /\ toClient[i].type \in {"ack", "refusal", "row", "presence"}
                /\ Answers(toClient[i]) => toClient[i].ref \in Refs /\ toClient[i].ref \in Nat
                /\ toClient[i].type = "ack" => toClient[i].ref # 0
<1>1. \A i \in DOMAIN toServer : toServer[i] \in ClientFrames
  BY Basics
<1>2. \A i \in DOMAIN toClient : toClient[i] \in ServerFrames
  BY Basics
<1>3. Refs \subseteq Nat
  BY ChannelAssumption DEF Refs
<1> QED
  BY <1>1, <1>2, <1>3 DEF ClientFrames, ServerFrames, IsJoin, Answers, TypeInv

(* What a join of the channel is for, when its handles are hs. *)
LEMMA JoinTargetIs ==
    ASSUME TypeInv, NEW hs \in Seq(Handles), NEW L, L = Wanted(hs)
    PROVE  /\ pgListenersOf(hs) = {} <=> L = {}
           /\ \A t : listenedTo(hs, t) <=> t \in L
           /\ joinTargetOf(hs) \in Targets
           /\ L # {} => joinTargetOf(hs) \in L
<1>1. \A i \in DOMAIN hs : i \in Nat /\ hs[i] \in Handles
  OBVIOUS
<1>2. \A i \in DOMAIN hs : listens[hs[i]] \in Targets \cup {NoTarget}
  BY <1>1, Basics
<1>3. pgListenersOf(hs) \subseteq Nat /\ pgListenersOf(hs) \subseteq DOMAIN hs
      /\ \A i \in DOMAIN hs : i \in pgListenersOf(hs) <=> listens[hs[i]] # NoTarget
  BY <1>1 DEF pgListenersOf
<1>4. pgListenersOf(hs) = {} <=> L = {}
  <2>1. ASSUME NEW i \in pgListenersOf(hs) PROVE listens[hs[i]] \in L
    BY <1>3 DEF Wanted
  <2>2. ASSUME NEW t \in L PROVE \E i \in DOMAIN hs : i \in pgListenersOf(hs)
    BY <1>3 DEF Wanted
  <2> QED BY <2>1, <2>2
<1>5. \A t : listenedTo(hs, t) <=> t \in L
  BY <1>3 DEF listenedTo, Wanted
<1>6. CASE pgListenersOf(hs) = {}
  BY <1>4, <1>5, <1>6, Basics DEF joinTargetOf
<1>7. CASE pgListenersOf(hs) # {}
  <2>1. PICK n : n = Min(pgListenersOf(hs))
    OBVIOUS
  <2>2. n \in pgListenersOf(hs)
    BY <1>3, <1>7, <2>1, FirstIs
  <2>3. joinTargetOf(hs) = listens[hs[n]]
    BY <1>7, <2>1 DEF joinTargetOf
  <2>4. listens[hs[n]] # NoTarget /\ n \in DOMAIN hs
    BY <1>3, <2>2
  <2> QED
    BY <1>2, <1>4, <1>5, <2>3, <2>4 DEF Wanted
<1> QED BY <1>6, <1>7

(* A handle leaves: the others listen for what they listened for. *)
LEMMA LeftBehind ==
    ASSUME TypeInv, NEW n \in DOMAIN handles, NEW left, left = RemoveAt(handles, n),
           listens' = [listens EXCEPT ![handles[n]] = NoTarget], handles' = left
    PROVE  /\ left \in Seq(Handles) /\ IsInjective(left)
           /\ Listened' = Wanted(left)
<1>1. handles \in Seq(Handles) /\ \A i, k \in DOMAIN handles : handles[i] = handles[k] => i = k
  BY DEF TypeInv, TypeOK, IsInjective
<1>2. /\ left \in Seq(Handles)
      /\ DOMAIN left = 1 .. Len(handles) - 1 /\ DOMAIN handles = 1 .. Len(handles)
      /\ \A i \in DOMAIN left : left[i] = IF i < n THEN handles[i] ELSE handles[i + 1]
  BY <1>1, RemoveAtIs
<1>3. Len(handles) \in Nat /\ n \in Nat
  BY <1>1
<1>4. \A i \in DOMAIN left : left[i] # handles[n] /\ left[i] \in Handles
  BY <1>1, <1>2, <1>3
<1>5. IsInjective(left)
  BY <1>1, <1>2, <1>3 DEF IsInjective
<1>6. \A i \in DOMAIN left : listens'[left[i]] = listens[left[i]]
  BY <1>4, Basics
<1> QED
  BY <1>2, <1>5, <1>6 DEF Listened, Wanted

LEMMA SendIs ==
    ASSUME TypeInv, NEW hs \in Seq(Handles), hs # <<>>, handles' = hs,
           Listened' = Wanted(hs),
           sendSubscribe(hs), up',
           ~subscribed' \/ (subscribed /\ ~joinSent /\ members' = members),
           lastRef < MaxRef + losses,
           UNCHANGED <<toClient, serverVars, losses>>
    PROVE  Joining
<1>1. PICK L : L = Listened'
  OBVIOUS
<1>2. PICK t : t = joinTargetOf(hs)
  OBVIOUS
<1>3. (pgListenersOf(hs) = {} <=> L = {}) /\ t \in Targets /\ (L # {} => t \in L)
  BY <1>1, <1>2, JoinTargetIs
<1>4. /\ joinSent' = TRUE /\ joining' = t /\ lastRef' = lastRef + 1 /\ joinRef' = lastRef + 1
      /\ joined' = (IF joined = NoTarget THEN t ELSE joined)
      /\ silentJoin' = (pgListenersOf(hs) = {})
      /\ toServer' = Append(toServer, [type |-> "join", target |-> t, ref |-> lastRef + 1])
      /\ ackedRef' = ackedRef
  BY <1>2 DEF sendSubscribe
<1> QED
  BY <1>1, <1>3, <1>4 DEF Joining
(* subscribe(). *)
LEMMA SubscribeIs ==
    ASSUME TypeInv, SocketInv, NEW h \in Handles, Subscribe(h)
    PROVE  Quiet \/ Joining
<1>1. handles \in Seq(Handles) /\ handles # <<>> /\ h \in Range(handles)
  BY Basics DEF Subscribe, Range
<1>2. UNCHANGED <<handles, listens, members, up, toClient, serverVars, tracks, losses>> /\ lastRef < MaxRef
  BY DEF Subscribe, calling
<1>3. CASE up /\ ~joinSent
  <2>1. sendSubscribe(handles) /\ subscribed' = subscribed
    BY <1>3 DEF Subscribe
  <2>2. Listened' = Wanted(handles)
    BY <1>2 DEF Listened, Wanted
  <2>3. lastRef < MaxRef + losses
    BY <1>2, Basics
  <2>4. subscribed \in BOOLEAN /\ up'
    BY <1>2, <1>3, Basics
  <2>5. PICK hs : hs = handles
    OBVIOUS
  <2>6. sendSubscribe(hs)
    BY <2>1, <2>5
  <2> QED
    BY <1>1, <1>2, <1>3, <2>1, <2>2, <2>3, <2>4, <2>5, <2>6, SendIs
<1>4. CASE ~(up /\ ~joinSent)
  BY <1>2, <1>4 DEF Subscribe, Quiet
<1> QED BY <1>3, <1>4

LEMMA LeaveIs ==
    ASSUME TypeInv, leaveChannel, UNCHANGED <<up, toClient, serverVars, losses>>
    PROVE  Leaving
BY DEF leaveChannel, forgetJoins, send, Leaving

(* The last handle leaves, or one whose listener the join was for, or another. *)
LEMMA UnsubscribeIs ==
    ASSUME TypeInv, SocketInv, NEW h \in Handles, Unsubscribe(h)
    PROVE  Leaving \/ Joining \/ Dropping
<1>1. PICK n \in DOMAIN handles : handles[n] = h /\
       LET left == RemoveAt(handles, n)
       IN  IF left = <<>> THEN leaveChannel
           ELSE /\ handles' = left
                /\ listens' = [listens EXCEPT ![h] = NoTarget]
                /\ IF unheard(left)
                   THEN /\ subscribed' = FALSE
                        /\ forgetMembers
                        /\ status' = notifyHandles(left, "SUBSCRIBING")
                        /\ sendSubscribe(left)
                   ELSE /\ status' = [status EXCEPT ![h] = "none"]
                        /\ silentJoin' = (silentJoin \/ pgListenersOf(left) = {})
                        /\ UNCHANGED <<subscribed, joinSent, joined, joining, joinRef, lastRef,
                                       ackedRef, members, toServer>>
  BY DEF Unsubscribe
<1>2. UNCHANGED <<up, toClient, serverVars, tracks, losses>> /\ lastRef < MaxRef
  BY DEF Unsubscribe, calling
<1>3. PICK left : left = RemoveAt(handles, n)
  OBVIOUS
<1>4. CASE left = <<>>
  BY <1>1, <1>2, <1>3, <1>4, LeaveIs
<1>5. CASE left # <<>>
  <2>1. handles' = left /\ listens' = [listens EXCEPT ![handles[n]] = NoTarget]
    BY <1>1, <1>3, <1>5
  <2>2. left \in Seq(Handles) /\ Listened' = Wanted(left)
    BY <1>1, <1>3, <2>1, LeftBehind
  <2>3. CASE unheard(left)
    <3>1. subscribed' = FALSE /\ sendSubscribe(left)
      BY <1>1, <1>3, <1>5, <2>3
    <3>2. joinSent
      BY <2>3 DEF unheard
    <3>3. up' /\ lastRef < MaxRef + losses
      BY <1>2, <3>2, Basics DEF SocketInv
    <3> QED
      BY <1>2, <1>5, <2>1, <2>2, <3>1, <3>3, SendIs
  <2>4. CASE ~unheard(left)
    <3>1. /\ silentJoin' = (silentJoin \/ pgListenersOf(left) = {})
          /\ UNCHANGED <<subscribed, joinSent, joined, joining, joinRef, lastRef, ackedRef, members, toServer>>
      BY <1>1, <1>3, <1>5, <2>4
    <3>2. PICK L : L = Listened'
      OBVIOUS
    <3>3. (pgListenersOf(left) = {} <=> L = {}) /\ \A t : listenedTo(left, t) <=> t \in L
      BY <2>2, <3>2, JoinTargetIs
    <3>4. joinSent /\ Held # NoTarget /\ pgListenersOf(left) # {} => listenedTo(left, Held)
      BY <2>4 DEF unheard, Held
    <3>5. joinSent /\ Held # NoTarget /\ L # {} => Held \in L
      BY <3>3, <3>4
    <3>6. silentJoin' <=> silentJoin \/ L = {}
      BY <3>1, <3>3
    <3>7. joinSent /\ Held # NoTarget /\ Listened' # {} => Held \in Listened'
      BY <3>2, <3>5
    <3>8. silentJoin' <=> silentJoin \/ Listened' = {}
      BY <3>2, <3>6
    <3> QED
      BY <1>2, <1>5, <2>1, <3>1, <3>7, <3>8 DEF Dropping
  <2> QED BY <2>3, <2>4
<1> QED BY <1>4, <1>5

LEMMA ChannelIs ==
    ASSUME TypeInv, NEW h \in Handles, NEW t \in Targets \cup {NoTarget}, Channel(h, t)
    PROVE  Adding
<1>1. /\ handles' = Append(handles, h) /\ listens' = [listens EXCEPT ![h] = t]
      /\ \A i \in DOMAIN handles : handles[i] # h
      /\ UNCHANGED <<joinVars, members, up, toServer, toClient, serverVars, losses>>
  BY DEF Channel, Range
<1>2. handles \in Seq(Handles) /\ \A i \in DOMAIN handles : handles[i] \in Handles
  BY Basics
<1>3. handles' # <<>> /\ \A i \in DOMAIN handles : i \in DOMAIN handles' /\ handles'[i] = handles[i]
  BY <1>1, <1>2, AppendIs
<1>4. \A i \in DOMAIN handles : listens'[handles[i]] = listens[handles[i]]
  BY <1>1, <1>2, Basics
<1>5. Listened \subseteq Listened'
  BY <1>3, <1>4 DEF Listened, Wanted
<1> QED
  BY <1>1, <1>3, <1>5 DEF Adding

LEMMA CallerIs ==
    ASSUME TypeInv, SocketInv, Caller PROVE Going
<1>1. CASE RemoveChannel
  <2>1. leaveChannel /\ UNCHANGED <<up, toClient, serverVars, losses>>
    BY <1>1 DEF RemoveChannel
  <2> QED
    BY <2>1, LeaveIs DEF Going
<1>2. ASSUME NEW type \in {"track", "untrack"}, Announce(type) PROVE Going
  <2>1. Sending
    BY <1>2 DEF Announce, Sending, send, handleVars
  <2> QED
    BY <2>1 DEF Going
<1> QED
  BY <1>1, <1>2, SubscribeIs, UnsubscribeIs, ChannelIs DEF Caller, Going
(* The server takes a frame: a join, a leave or an action. *)
LEMMA HeadIs ==
    ASSUME TypeInv, received
    PROVE  /\ Taking /\ Head(toServer) = toServer[1] /\ 1 \in DOMAIN toServer
           /\ IsJoin(toServer[1]) => toServer[1].ref \in Refs /\ toServer[1].ref # 0
<1>1. toServer \in Seq(ClientFrames) /\ toServer # <<>> /\ toServer' = Tail(toServer)
  BY Basics DEF received
<1>2. 1 \in DOMAIN toServer /\ Head(toServer) = toServer[1]
  BY <1>1, TailIs
<1> QED
  BY <1>1, <1>2, FramesAre DEF Taking

LEMMA JoinArrivesIs ==
    ASSUME TypeInv, JoinArrives
    PROVE  Registering \/ Refusing
<1>1. /\ Taking /\ Head(toServer) = toServer[1] /\ IsJoin(toServer[1]) /\ toServer[1].ref \in Refs
      /\ UNCHANGED <<handles, listens, joinVars, members, up, judging, tracked, losses>>
  BY HeadIs DEF JoinArrives, IsJoin, handleVars
<1>2. PICK frame : frame = toServer[1]
  OBVIOUS
<1>3. toClient \in Seq(ServerFrames)
  BY Basics
<1>4. PICK ack : ack = [type |-> "ack", ref |-> frame.ref]
  OBVIOUS
<1>5. PICK state : state = [type |-> "presence", joins |-> tracked, leaves |-> {}]
  OBVIOUS
<1>6. CASE frame.target \in Unreadable
  <2>1. PICK refusal : refusal = [type |-> "refusal", ref |-> frame.ref]
    OBVIOUS
  <2>2. toClient' = toClient \o <<refusal>> /\ UNCHANGED <<sub, subRef>>
    BY <1>1, <1>2, <1>6, <2>1 DEF JoinArrives, reply
  <2>3. toClient' = Append(toClient, [type |-> "refusal", ref |-> frame.ref])
    BY <1>3, <2>1, <2>2, ConcatIs
  <2> QED
    BY <1>1, <1>2, <2>2, <2>3 DEF Refusing, IsJoin, serverVars
<1>7. CASE frame.target \notin Unreadable
  <2>1. /\ sub' = frame.target /\ subRef' = frame.ref
        /\ toClient' = toClient \o (<<ack>> \o IF tracked = {} THEN <<>> ELSE <<state>>)
    BY <1>1, <1>2, <1>4, <1>5, <1>7 DEF JoinArrives, reply
  <2>2. CASE tracked = {}
    <3>1. toClient' = Append(toClient, ack)
      BY <1>3, <2>1, <2>2, ConcatIs
    <3> QED
      BY <1>1, <1>2, <1>4, <2>1, <2>2, <3>1 DEF Registering
  <2>3. CASE tracked # {}
    <3>1. toClient' = Append(Append(toClient, ack), state)
      BY <1>3, <2>1, <2>3, ConcatIs
    <3> QED
      BY <1>1, <1>2, <1>4, <1>5, <2>1, <3>1 DEF Registering
  <2> QED BY <2>2, <2>3
<1> QED BY <1>6, <1>7

LEMMA LeaveArrivesIs ==
    ASSUME TypeInv, LeaveArrives
    PROVE  Forgetting
BY HeadIs DEF LeaveArrives, Forgetting, handleVars

(* announcePresence reaches this socket while it has joined. *)
LEMMA TellingIs ==
    ASSUME TypeInv, NEW joins, NEW leaves, reply(presence(joins, leaves))
    PROVE  Telling(joins, leaves)
<1>1. PICK frame : frame = [type |-> "presence", joins |-> joins, leaves |-> leaves]
  OBVIOUS
<1>2. toClient \in Seq(ServerFrames)
  BY Basics
<1>3. toClient' = toClient \o (IF sub = NoTarget THEN <<>> ELSE <<frame>>)
  BY <1>1 DEF reply, presence
<1>4. CASE sub = NoTarget
  BY <1>2, <1>3, <1>4, ConcatIs DEF Telling
<1>5. CASE sub # NoTarget
  <2>1. toClient' = Append(toClient, frame)
    BY <1>2, <1>3, <1>5, ConcatIs
  <2> QED
    BY <1>1, <1>5, <2>1 DEF Telling
<1> QED BY <1>4, <1>5

LEMMA ActionArrivesIs ==
    ASSUME TypeInv, ActionArrives
    PROVE  Refusing \/ Presenting
<1>1. /\ Taking /\ Head(toServer) = toServer[1]
      /\ toServer[1].type \in {"track", "untrack"} /\ toServer[1].type \notin {"join", "leave"}
      /\ UNCHANGED <<handles, listens, joinVars, members, up, sub, subRef, judging, losses>>
  BY HeadIs DEF ActionArrives, handleVars
<1>2. toClient \in Seq(ServerFrames) /\ Self \in Everyone /\ 0 \in Refs
  BY Basics, ChannelAssumption DEF Everyone, Refs
<1>3. CASE reply(<<[type |-> "refusal", ref |-> 0]>>) /\ UNCHANGED tracked
  <2>1. PICK refusal : refusal = [type |-> "refusal", ref |-> 0]
    OBVIOUS
  <2>2. toClient' = Append(toClient, refusal)
    <3>1. toClient' = toClient \o <<refusal>>
      BY <1>3, <2>1 DEF reply
    <3> QED
      BY <1>2, <3>1, ConcatIs
  <2>3. ~IsJoin(toServer[1])
    BY <1>1 DEF IsJoin
  <2> QED
    BY <1>1, <1>2, <1>3, <2>1, <2>2, <2>3 DEF Refusing, serverVars
<1>4. CASE tracked' = tracked \cup {Self} /\ reply(presence({Self}, {}))
  BY <1>1, <1>2, <1>4, TellingIs DEF Presenting
<1>5. CASE tracked' = tracked \ {Self} /\ reply(IF Self \in tracked THEN presence({}, {Self}) ELSE <<>>)
  <2>1. CASE Self \in tracked
    <3>1. Telling({}, {Self})
      BY <1>5, <2>1, TellingIs
    <3> QED
      BY <1>1, <1>2, <1>5, <3>1 DEF Presenting
  <2>2. CASE Self \notin tracked
    <3>1. toClient' = toClient
      BY <1>2, <1>5, <2>2, ConcatIs DEF reply
    <3>2. tracked' = tracked
      BY <1>5, <2>2
    <3> QED
      BY <1>1, <3>1, <3>2 DEF Presenting
  <2> QED BY <2>1, <2>2
<1> QED
  BY <1>3, <1>4, <1>5 DEF ActionArrives

LEMMA PeerIs ==
    ASSUME TypeInv, NEW p \in Peers, PeerActs(p)
    PROVE  Presenting
<1>1. p \in Everyone /\ UNCHANGED <<handles, listens, joinVars, members, up, toServer, sub, subRef, judging, losses>>
  BY DEF PeerActs, handleVars, Everyone
<1>2. CASE tracked' = tracked \cup {p} /\ reply(presence({p}, {}))
  BY <1>1, <1>2, TellingIs DEF Presenting
<1>3. CASE tracked' = tracked \ {p} /\ reply(presence({}, {p}))
  BY <1>1, <1>3, TellingIs DEF Presenting
<1> QED
  BY <1>2, <1>3 DEF PeerActs

LEMMA RowIs ==
    ASSUME TypeInv, SocketInv
    PROVE  /\ RowCommits => Committing
           /\ \A row \in judging : RowJudged(row) => Judging
<1>1. ASSUME RowCommits PROVE Committing
  BY <1>1 DEF RowCommits, Committing, handleVars
<1>2. ASSUME NEW row \in judging, RowJudged(row) PROVE Judging
  <2>1. PICK late \in BOOLEAN : late = (row.under # subRef)
    OBVIOUS
  <2>2. PICK frame : frame = [type |-> "row", target |-> row.target, under |-> row.under, late |-> late]
    OBVIOUS
  <2>3. /\ judging' = judging \ {row} /\ (toClient' = toClient \o <<frame>> \/ UNCHANGED toClient)
        /\ UNCHANGED <<handles, listens, joinVars, members, up, toServer, sub, subRef, tracked, losses>>
    BY <1>2, <2>1, <2>2 DEF RowJudged, reply, handleVars
  <2>4. toClient \o <<frame>> = Append(toClient, frame)
    BY Basics, ConcatIs
  <2> QED
    BY <2>2, <2>3, <2>4, Basics DEF Judging, SocketInv
<1> QED BY <1>1, <1>2
 
(* The client takes a frame. *)
LEMMA HeardIs ==
    ASSUME TypeInv, NEW type, heard(type)
    PROVE  /\ Hearing /\ Head(toClient) = toClient[1] /\ 1 \in DOMAIN toClient
           /\ toClient[1].type = type
<1>1. toClient \in Seq(ServerFrames) /\ toClient # <<>> /\ toClient' = Tail(toClient)
  BY Basics DEF heard
<1>2. 1 \in DOMAIN toClient /\ Head(toClient) = toClient[1]
  BY <1>1, TailIs
<1> QED
  BY <1>1, <1>2 DEF Hearing, heard

LEMMA AckIs ==
    ASSUME TypeInv, SocketInv, PendingInv, AckArrives
    PROVE  Acknowledged \/ Ignoring
<1>1. heard("ack")
  BY DEF AckArrives
<1>2. PICK frame : frame = toClient[1]
  OBVIOUS
<1>3. /\ Hearing /\ Head(toClient) = frame /\ 1 \in DOMAIN toClient /\ frame.type = "ack"
  BY <1>1, <1>2, HeardIs
<1>4. frame.ref # 0
  BY <1>2, <1>3, FramesAre
<1>5. UNCHANGED <<handles, listens, members, up, toServer, serverVars, losses>>
  BY DEF AckArrives
<1>6. CASE handles # <<>> /\ joinRef = frame.ref
  <2>1. answeredJoin(frame.ref)
    BY <1>6 DEF answeredJoin
  <2>2. /\ subscribed' = TRUE
        /\ joined' = IF joining # NoTarget THEN joining ELSE joined
        /\ joining' = NoTarget
        /\ joinRef' = 0
        /\ ackedRef' = frame.ref
        /\ UNCHANGED <<joinSent, lastRef, silentJoin>>
    BY <1>3, <2>1 DEF AckArrives
  <2>3. joining # NoTarget
    BY <1>4, <1>6 DEF PendingInv
  <2> QED
    BY <1>2, <1>3, <1>4, <1>5, <1>6, <2>2, <2>3 DEF Acknowledged, IsAck
<1>7. CASE ~(handles # <<>> /\ joinRef = frame.ref)
  <2>1. ~answeredJoin(frame.ref)
    BY <1>4, <1>7 DEF answeredJoin
  <2>2. UNCHANGED joinVars
    BY <1>3, <2>1 DEF AckArrives
  <2>3. frame.type # "presence" /\ (IsAck(frame, joinRef) => ~subscribed)
    BY <1>3, <1>7 DEF IsAck, SocketInv
  <2> QED
    BY <1>2, <1>3, <1>5, <2>2, <2>3 DEF Ignoring
<1> QED BY <1>6, <1>7

LEMMA RefusalIs ==
    ASSUME TypeInv, RefusalArrives
    PROVE  Refused \/ Ignoring
<1>1. heard("refusal")
  BY DEF RefusalArrives
<1>2. PICK frame : frame = toClient[1]
  OBVIOUS
<1>3. /\ Hearing /\ Head(toClient) = frame /\ 1 \in DOMAIN toClient /\ frame.type = "refusal"
  BY <1>1, <1>2, HeardIs
<1>4. UNCHANGED <<handles, listens, subscribed, joined, joining, lastRef, ackedRef, silentJoin,
                  members, up, toServer, serverVars, losses>>
  BY DEF RefusalArrives
<1>5. CASE answeredJoin(frame.ref)
  <2>1. joinSent' = (joinSent /\ subscribed) /\ joinRef' = IF frame.ref = 0 THEN joinRef ELSE 0
    BY <1>3, <1>5 DEF RefusalArrives
  <2>2. frame.ref = 0 \/ joinRef = frame.ref
    BY <1>5 DEF answeredJoin
  <2>3. joinSent' <=> joinSent /\ subscribed
    BY <2>1
  <2>4. (frame.ref = 0 /\ joinRef' = joinRef) \/ (frame.ref = joinRef /\ joinRef # 0 /\ joinRef' = 0)
    <3>1. CASE frame.ref = 0
      BY <2>1, <3>1
    <3>2. CASE frame.ref # 0
      BY <2>1, <2>2, <3>2
    <3> QED BY <3>1, <3>2
  <2> QED
    BY <1>2, <1>3, <1>4, <2>3, <2>4 DEF Refused
<1>6. CASE ~answeredJoin(frame.ref)
  <2>1. UNCHANGED <<joinSent, joinRef>>
    BY <1>3, <1>6 DEF RefusalArrives
  <2>2. frame.type # "presence" /\ ~IsAck(frame, joinRef)
    BY <1>3 DEF IsAck
  <2> QED
    BY <1>2, <1>3, <1>4, <2>1, <2>2 DEF Ignoring, joinVars
<1> QED BY <1>5, <1>6

LEMMA RowArrivesIs ==
    ASSUME TypeInv, RowArrives
    PROVE  Ignoring
<1>1. Hearing /\ toClient[1].type = "row"
  BY HeardIs DEF RowArrives
<1> QED
  BY <1>1 DEF RowArrives, Ignoring, IsAck, handleVars

LEMMA PresenceIs ==
    ASSUME TypeInv, SocketInv, PresenceArrives
    PROVE  Seeing \/ Ignoring
<1>1. heard("presence")
  BY DEF PresenceArrives
<1>2. PICK frame : frame = toClient[1]
  OBVIOUS
<1>3. /\ Hearing /\ Head(toClient) = frame /\ 1 \in DOMAIN toClient /\ frame.type = "presence"
  BY <1>1, <1>2, HeardIs
<1>4. UNCHANGED <<handles, listens, joinVars, up, toServer, serverVars, losses>>
  BY DEF PresenceArrives, handleVars
<1>5. CASE handles = <<>>
  <2>1. members' = members
    BY <1>5 DEF PresenceArrives
  <2>2. ~subscribed
    BY <1>5 DEF SocketInv
  <2> QED
    BY <1>2, <1>3, <1>4, <2>1, <2>2 DEF Ignoring
<1>6. CASE handles # <<>>
  <2>1. PICK more : more = [p \in Everyone |-> IF p \in frame.joins THEN members[p] + 1 ELSE members[p]]
    OBVIOUS
  <2>2. members' = withoutLeaves(more, frame.leaves)
    BY <1>3, <1>6, <2>1 DEF PresenceArrives
  <2>3. ASSUME NEW p \in Everyone
        PROVE  /\ p \in frame.joins /\ p \notin frame.leaves => members'[p] > 0
               /\ members[p] > 0 /\ p \notin frame.leaves => members'[p] > 0
    <3>1. members[p] \in Nat
      BY DEF TypeInv, TypeOK
    <3>2. more[p] = IF p \in frame.joins THEN members[p] + 1 ELSE members[p]
      BY <2>1
    <3>3. p \notin frame.leaves => members'[p] = more[p]
      BY <2>2 DEF withoutLeaves
    <3> QED
      BY <3>1, <3>2, <3>3
  <2> QED
    BY <1>2, <1>3, <1>4, <2>3 DEF Seeing
<1> QED BY <1>5, <1>6

(* The socket closes, and opens. *)
LEMMA ClosesIs ==
    ASSUME TypeInv, SocketCloses
    PROVE  Closing
<1>1. tracked' \subseteq tracked
  BY DEF SocketCloses
<1> QED
  BY <1>1 DEF SocketCloses, Closing, forgetJoins

LEMMA OpensIs ==
    ASSUME TypeInv, SocketInv, SocketOpens
    PROVE  Opening \/ Joining
<1>1. ~up /\ up' /\ UNCHANGED <<handles, listens, status, members, toClient, serverVars, losses>>
  BY DEF SocketOpens, handleVars
<1>2. CASE handles = <<>>
  BY <1>1, <1>2 DEF SocketOpens, Opening
<1>3. CASE handles # <<>>
  <2>1. PICK hs : hs = handles
    OBVIOUS
  <2>2. sendSubscribe(hs) /\ subscribed' = subscribed
    BY <1>3, <2>1 DEF SocketOpens
  <2>3. Listened' = Wanted(hs)
    BY <1>1, <2>1 DEF Listened, Wanted
  <2>4. lastRef < MaxRef + losses
    <3>1. lastRef = 0 \/ lastRef < MaxRef + losses
      BY <1>1 DEF SocketInv
    <3> QED
      BY <3>1, Basics, ChannelAssumption
  <2>5. ~subscribed'
    BY <1>1, <2>2 DEF SocketInv
  <2>6. handles' = hs /\ hs \in Seq(Handles) /\ hs # <<>>
    BY <1>1, <1>3, <2>1, Basics
  <2> QED
    BY <1>1, <2>2, <2>3, <2>4, <2>5, <2>6, SendIs
<1> QED BY <1>2, <1>3

LEMMA StepIs ==
    ASSUME TypeInv, SocketInv, PendingInv, [Next]_vars
    PROVE  Going
<1>1. CASE UNCHANGED vars
  BY <1>1 DEF vars, handleVars, Quiet, Going
<1>2. CASE Caller
  BY <1>2, CallerIs
<1>3. CASE JoinArrives \/ LeaveArrives \/ ActionArrives
  BY <1>3, JoinArrivesIs, LeaveArrivesIs, ActionArrivesIs DEF Going
<1>4. CASE RowCommits \/ \E row \in judging : RowJudged(row)
  BY <1>4, RowIs DEF Going
<1>5. CASE Client
  BY <1>5, AckIs, RefusalIs, RowArrivesIs, PresenceIs DEF Client, Going
<1>6. CASE SocketCloses
  BY <1>6, ClosesIs DEF Going
<1>7. CASE SocketOpens
  BY <1>7, OpensIs DEF Going
<1>8. CASE \E p \in Peers : PeerActs(p)
  BY <1>8, PeerIs DEF Going
<1> QED
  BY <1>1, <1>2, <1>3, <1>4, <1>5, <1>6, <1>7, <1>8 DEF Next, Server

-----------------------------------------------------------------------------
(* Types.                                                                  *)

Shape ==
    /\ handles \in Seq(Handles) /\ IsInjective(handles)
    /\ listens \in [Handles -> Targets \cup {NoTarget}]
    /\ status \in [Handles -> Statuses]
    /\ subscribed \in BOOLEAN /\ joinSent \in BOOLEAN /\ silentJoin \in BOOLEAN /\ up \in BOOLEAN
    /\ members \in [Everyone -> Nat]
    /\ tracks \in 0 .. MaxTracks /\ losses \in 0 .. MaxLosses

LEMMA ShapeIs == ASSUME TypeInv PROVE Shape
BY DEF TypeInv, TypeOK, Shape

LEMMA NotifyIs ==
    ASSUME TypeInv, NEW hs, NEW s \in Statuses
    PROVE  notifyHandles(hs, s) \in [Handles -> Statuses]
<1>1. "none" \in Statuses
  BY DEF Statuses
<1> QED
  BY <1>1 DEF notifyHandles

LEMMA LeaveShape ==
    ASSUME TypeInv, leaveChannel, UNCHANGED <<up, toClient, serverVars, tracks, losses>>
    PROVE  Shape'
<1>1. /\ handles' = <<>> /\ status' = [h \in Handles |-> "none"] /\ listens' = [h \in Handles |-> NoTarget]
      /\ subscribed' = FALSE /\ joinSent' = FALSE /\ silentJoin' = FALSE
      /\ members' = [p \in Everyone |-> 0]
  BY DEF leaveChannel, forgetJoins, forgetMembers
<1>2. handles' \in Seq(Handles) /\ IsInjective(handles')
  BY <1>1 DEF IsInjective
<1>3. status' \in [Handles -> Statuses]
  BY <1>1 DEF Statuses
<1>4. up' \in BOOLEAN /\ tracks' \in 0 .. MaxTracks /\ losses' \in 0 .. MaxLosses
  BY ShapeIs DEF Shape
<1> QED
  BY <1>1, <1>2, <1>3, <1>4 DEF Shape

LEMMA CallShape ==
    ASSUME TypeInv, Caller
    PROVE  Shape'
<1>1. Shape
  BY ShapeIs
<1>2. ASSUME NEW h \in Handles, NEW t \in Targets \cup {NoTarget}, Channel(h, t) PROVE Shape'
  <2>1. /\ handles' = Append(handles, h) /\ listens' = [listens EXCEPT ![h] = t]
        /\ \A i \in DOMAIN handles : handles[i] # h
        /\ UNCHANGED <<status, subscribed, joinSent, silentJoin, up, members, tracks, losses>>
    BY <1>2 DEF Channel, Range, joinVars
  <2>2. handles' \in Seq(Handles)
    BY <2>1, <1>1 DEF Shape
  <2>3. IsInjective(handles')
    <3>1. \A i, k \in DOMAIN handles : handles[i] = handles[k] => i = k
      BY <1>1 DEF Shape, IsInjective
    <3>2. /\ \A i \in DOMAIN handles' : i \in DOMAIN handles \/ i = Len(handles) + 1
          /\ \A i \in DOMAIN handles : handles'[i] = handles[i]
          /\ handles'[Len(handles) + 1] = h
      BY <2>1, <1>1, AppendIs DEF Shape
    <3>3. \A i, k \in DOMAIN handles' : handles'[i] = handles'[k] => i = k
      BY <2>1, <3>1, <3>2
    <3> QED BY <3>3 DEF IsInjective
  <2>4. listens' \in [Handles -> Targets \cup {NoTarget}]
    BY <2>1, <1>1 DEF Shape
  <2> QED
    BY <1>1, <2>1, <2>2, <2>3, <2>4 DEF Shape
<1>3. ASSUME NEW h \in Handles, Subscribe(h) PROVE Shape'
  <2>1. /\ status' = [status EXCEPT ![h] = IF subscribed THEN "SUBSCRIBED" ELSE "asked"]
        /\ UNCHANGED <<handles, listens, members, up, tracks, losses>>
    BY <1>3 DEF Subscribe
  <2>2. status' \in [Handles -> Statuses]
    BY <1>1, <2>1 DEF Shape, Statuses
  <2>3. subscribed' \in BOOLEAN /\ joinSent' \in BOOLEAN /\ silentJoin' \in BOOLEAN
    BY <1>1, <1>3 DEF Shape, Subscribe, sendSubscribe, joinVars
  <2> QED
    BY <1>1, <2>1, <2>2, <2>3 DEF Shape
<1>4. ASSUME NEW h \in Handles, Unsubscribe(h) PROVE Shape'
  <2>1. PICK n \in DOMAIN handles : handles[n] = h /\
         LET left == RemoveAt(handles, n)
         IN  IF left = <<>> THEN leaveChannel
             ELSE /\ handles' = left
                  /\ listens' = [listens EXCEPT ![h] = NoTarget]
                  /\ IF unheard(left)
                     THEN /\ subscribed' = FALSE
                          /\ forgetMembers
                          /\ status' = notifyHandles(left, "SUBSCRIBING")
                          /\ sendSubscribe(left)
                     ELSE /\ status' = [status EXCEPT ![h] = "none"]
                          /\ silentJoin' = (silentJoin \/ pgListenersOf(left) = {})
                          /\ UNCHANGED <<subscribed, joinSent, joined, joining, joinRef, lastRef,
                                         ackedRef, members, toServer>>
    BY <1>4 DEF Unsubscribe
  <2>2. UNCHANGED <<up, toClient, serverVars, tracks, losses>>
    BY <1>4 DEF Unsubscribe
  <2>3. PICK left : left = RemoveAt(handles, n)
    OBVIOUS
  <2>4. CASE left = <<>>
    BY <2>1, <2>2, <2>3, <2>4, LeaveShape
  <2>5. CASE left # <<>>
    <3>1. handles' = left /\ listens' = [listens EXCEPT ![handles[n]] = NoTarget]
      BY <2>1, <2>3, <2>5
    <3>2. handles' \in Seq(Handles) /\ IsInjective(handles')
      BY <2>3, <3>1, LeftBehind
    <3>3. listens' \in [Handles -> Targets \cup {NoTarget}]
      BY <1>1, <3>1 DEF Shape
    <3>4. CASE unheard(left)
      <4>1. /\ subscribed' = FALSE /\ forgetMembers
            /\ status' = notifyHandles(left, "SUBSCRIBING") /\ sendSubscribe(left)
        BY <2>1, <2>3, <2>5, <3>4
      <4>2. status' \in [Handles -> Statuses]
        BY <4>1, NotifyIs DEF Statuses
      <4>3. joinSent' \in BOOLEAN /\ silentJoin' \in BOOLEAN /\ members' \in [Everyone -> Nat]
        BY <4>1 DEF sendSubscribe, forgetMembers
      <4> QED
        BY <1>1, <2>2, <3>2, <3>3, <4>1, <4>2, <4>3 DEF Shape
    <3>5. CASE ~unheard(left)
      <4>1. /\ status' = [status EXCEPT ![h] = "none"]
            /\ silentJoin' = (silentJoin \/ pgListenersOf(left) = {})
            /\ UNCHANGED <<subscribed, joinSent, members>>
        BY <2>1, <2>3, <2>5, <3>5
      <4>2. status' \in [Handles -> Statuses]
        BY <1>1, <4>1 DEF Statuses, Shape
      <4> QED
        BY <1>1, <2>2, <3>2, <3>3, <4>1, <4>2 DEF Shape
    <3> QED BY <3>4, <3>5
  <2> QED BY <2>4, <2>5
<1>5. CASE RemoveChannel
  BY <1>5, LeaveShape DEF RemoveChannel
<1>6. ASSUME NEW type \in {"track", "untrack"}, Announce(type) PROVE Shape'
  <2>1. /\ tracks < MaxTracks /\ tracks' = tracks + 1
        /\ UNCHANGED <<handles, listens, status, subscribed, joinSent, silentJoin, up, members, losses>>
    BY <1>6 DEF Announce, handleVars, joinVars
  <2>2. tracks' \in 0 .. MaxTracks
    BY <1>1, <2>1, ChannelAssumption DEF Shape
  <2> QED
    BY <1>1, <2>1, <2>2 DEF Shape
<1> QED
  BY <1>2, <1>3, <1>4, <1>5, <1>6 DEF Caller

LEMMA OtherShape ==
    ASSUME TypeInv, Server \/ Client \/ SocketCloses \/ SocketOpens \/ \E p \in Peers : PeerActs(p)
    PROVE  Shape'
<1>1. Shape
  BY ShapeIs
<1>2. CASE Server
  <2>1. UNCHANGED <<handles, listens, status, subscribed, joinSent, silentJoin, up, members, tracks, losses>>
    BY <1>2 DEF Server, JoinArrives, LeaveArrives, ActionArrives, RowCommits, RowJudged, handleVars, joinVars
  <2> QED
    BY <1>1, <2>1 DEF Shape
<1>3. CASE AckArrives \/ RefusalArrives
  <2>1. UNCHANGED <<handles, listens, up, members, tracks, losses>>
    BY <1>3 DEF AckArrives, RefusalArrives
  <2>2. subscribed' \in BOOLEAN /\ joinSent' \in BOOLEAN /\ silentJoin' \in BOOLEAN
    BY <1>1, <1>3 DEF AckArrives, RefusalArrives, Shape, joinVars
  <2>3. "SUBSCRIBED" \in Statuses /\ "CHANNEL_ERROR" \in Statuses
    BY DEF Statuses
  <2>4. /\ notifyHandles(handles, "SUBSCRIBED") \in [Handles -> Statuses]
        /\ notifyHandles(handles, "CHANNEL_ERROR") \in [Handles -> Statuses]
    BY <2>3, NotifyIs
  <2>5. status' \in [Handles -> Statuses]
    BY <1>1, <1>3, <2>4 DEF AckArrives, RefusalArrives, Shape
  <2> QED
    BY <1>1, <2>1, <2>2, <2>5 DEF Shape
<1>4. CASE RowArrives
  BY <1>1, <1>4 DEF RowArrives, Shape, handleVars, joinVars
<1>5. CASE PresenceArrives
  <2>1. UNCHANGED <<handles, listens, status, subscribed, joinSent, silentJoin, up, tracks, losses>>
    BY <1>5 DEF PresenceArrives, handleVars, joinVars
  <2>2. members' \in [Everyone -> Nat]
    <3>1. CASE handles = <<>>
      BY <1>1, <1>5, <3>1 DEF PresenceArrives, Shape
    <3>2. CASE handles # <<>>
      <4>1. PICK frame : frame = Head(toClient)
        OBVIOUS
      <4>2. PICK more : more = [p \in Everyone |-> IF p \in frame.joins THEN members[p] + 1 ELSE members[p]]
        OBVIOUS
      <4>3. members' = withoutLeaves(more, frame.leaves)
        BY <1>5, <3>2, <4>1, <4>2 DEF PresenceArrives
      <4>4. more \in [Everyone -> Nat]
        BY <1>1, <4>2 DEF Shape
      <4> QED
        BY <4>3, <4>4 DEF withoutLeaves
    <3> QED BY <3>1, <3>2
  <2> QED
    BY <1>1, <2>1, <2>2 DEF Shape
<1>6. CASE SocketCloses
  <2>1. /\ losses < MaxLosses /\ losses' = losses + 1 /\ up' = FALSE
        /\ subscribed' = FALSE /\ joinSent' = FALSE /\ silentJoin' = FALSE
        /\ members' = [p \in Everyone |-> 0]
        /\ status' = notifyHandles(handles, "SUBSCRIBING")
        /\ UNCHANGED <<handles, listens, tracks>>
    BY <1>6 DEF SocketCloses, forgetJoins, forgetMembers
  <2>2. status' \in [Handles -> Statuses]
    BY <2>1, NotifyIs DEF Statuses
  <2>3. losses' \in 0 .. MaxLosses
    BY <1>1, <2>1, ChannelAssumption DEF Shape
  <2> QED
    BY <1>1, <2>1, <2>2, <2>3 DEF Shape
<1>7. CASE SocketOpens
  <2>1. up' = TRUE /\ UNCHANGED <<handles, listens, status, members, tracks, losses>>
    BY <1>7 DEF SocketOpens, handleVars
  <2>2. subscribed' \in BOOLEAN /\ joinSent' \in BOOLEAN /\ silentJoin' \in BOOLEAN
    BY <1>1, <1>7 DEF SocketOpens, Shape, sendSubscribe, joinVars
  <2> QED
    BY <1>1, <2>1, <2>2 DEF Shape
<1>8. ASSUME NEW p \in Peers, PeerActs(p) PROVE Shape'
  <2>1. /\ tracks < MaxTracks /\ tracks' = tracks + 1
        /\ UNCHANGED <<handles, listens, status, subscribed, joinSent, silentJoin, up, members, losses>>
    BY <1>8 DEF PeerActs, handleVars, joinVars
  <2>2. tracks' \in 0 .. MaxTracks
    BY <1>1, <2>1, ChannelAssumption DEF Shape
  <2> QED
    BY <1>1, <2>1, <2>2 DEF Shape
<1> QED
  BY <1>2, <1>3, <1>4, <1>5, <1>6, <1>7, <1>8 DEF Client

LEMMA ShapeKept ==
    ASSUME TypeInv, [Next]_vars
    PROVE  Shape'
<1>1. CASE UNCHANGED vars
  BY <1>1, ShapeIs DEF vars, handleVars, joinVars, Shape
<1> QED
  BY <1>1, CallShape, OtherShape DEF Next

Outgoing ==
    /\ toServer \in Seq(ClientFrames)
    /\ \A i \in DOMAIN toServer : IsJoin(toServer[i]) => toServer[i].ref # 0

Incoming ==
    /\ toClient \in Seq(ServerFrames)
    /\ \A i \in DOMAIN toClient : toClient[i].type = "ack" => toClient[i].ref # 0
    /\ \A i \in DOMAIN toClient : toClient[i].type = "presence" => toClient[i].joins \cap toClient[i].leaves = {}

Fields ==
    /\ joined \in Targets \cup {NoTarget} /\ joining \in Targets \cup {NoTarget}
    /\ joinRef \in 0 .. lastRef /\ lastRef \in Refs /\ ackedRef \in 0 .. lastRef
    /\ sub \in Targets \cup {NoTarget} /\ subRef \in 0 .. lastRef
    /\ sub = NoTarget <=> subRef = 0
    /\ judging \subseteq [target : Targets, under : Refs]
    /\ tracked \subseteq Everyone

LEMMA TypeInvIs == TypeInv <=> Shape /\ Outgoing /\ Incoming /\ Fields
BY DEF TypeInv, TypeOK, Shape, Outgoing, Incoming, Fields

LEMMA NextRefIs ==
    ASSUME TypeInv, lastRef < MaxRef + losses
    PROVE  lastRef + 1 \in Refs /\ lastRef + 1 # 0
BY Basics DEF Refs

(* What happens to the frames the client sends. *)
SendingWays ==
    \/ UNCHANGED toServer
    \/ Taking
    \/ toServer' = <<>>
    \/ \E f \in ClientFrames : toServer' = Append(toServer, f) /\ (IsJoin(f) => f.ref # 0)

LEMMA SendingIs ==
    ASSUME TypeInv, Going
    PROVE  SendingWays
<1>1. CASE Joining
  <2>1. PICK f : f = [type |-> "join", target |-> joining', ref |-> lastRef + 1]
    OBVIOUS
  <2>2. joining' \in Targets /\ toServer' = Append(toServer, f) /\ lastRef + 1 \in Refs /\ lastRef + 1 # 0
    BY <1>1, <2>1, NextRefIs DEF Joining
  <2>3. f \in ClientFrames /\ f.ref # 0
    BY <2>1, <2>2 DEF ClientFrames
  <2> QED
    BY <2>2, <2>3 DEF SendingWays
<1>2. ASSUME NEW type \in {"leave", "track", "untrack"}, toServer' = Append(toServer, [type |-> type])
      PROVE  SendingWays
  <2>1. PICK f : f = [type |-> type]
    OBVIOUS
  <2>2. f \in ClientFrames /\ ~IsJoin(f)
    BY <2>1 DEF ClientFrames, IsJoin
  <2> QED
    BY <1>2, <2>1, <2>2 DEF SendingWays
<1>3. CASE Leaving \/ Sending
  BY <1>2, <1>3 DEF Leaving, Sending, SendingWays
<1>4. CASE Registering \/ Refusing \/ Forgetting \/ Presenting
  BY <1>4 DEF Registering, Refusing, Forgetting, Presenting, SendingWays
<1>5. CASE Closing
  BY <1>5 DEF Closing, SendingWays
<1>6. CASE Quiet \/ Adding \/ Dropping \/ Committing \/ Judging \/ Ignoring \/ Acknowledged \/ Refused \/ Seeing \/ Opening
  BY <1>6 DEF Quiet, Adding, Dropping, Committing, Judging, Ignoring, Acknowledged, Refused, Seeing, Opening, SendingWays
<1> QED BY <1>1, <1>3, <1>4, <1>5, <1>6 DEF Going

LEMMA OutgoingKept ==
    ASSUME TypeInv, Going
    PROVE  Outgoing'
<1>1. Outgoing
  BY TypeInvIs
<1>2. CASE UNCHANGED toServer
  BY <1>1, <1>2 DEF Outgoing
<1>3. CASE toServer' = <<>>
  BY <1>3 DEF Outgoing
<1>4. CASE Taking
  <2>1. PICK r : r = toServer'
    OBVIOUS
  <2>2. r \in Seq(ClientFrames) /\ \A i \in DOMAIN r : i + 1 \in DOMAIN toServer /\ r[i] = toServer[i + 1]
    BY <1>1, <1>4, <2>1, TailIs DEF Taking, Outgoing
  <2>3. \A i \in DOMAIN r : IsJoin(r[i]) => r[i].ref # 0
    BY <1>1, <2>2 DEF Outgoing
  <2> QED
    BY <2>1, <2>2, <2>3 DEF Outgoing
<1>5. ASSUME NEW f \in ClientFrames, toServer' = Append(toServer, f), IsJoin(f) => f.ref # 0
      PROVE  Outgoing'
  <2>1. PICK r : r = toServer'
    OBVIOUS
  <2>2. /\ r \in Seq(ClientFrames) /\ \A i \in DOMAIN r : i \in DOMAIN toServer \/ i = Len(toServer) + 1
        /\ \A i \in DOMAIN toServer : r[i] = toServer[i]
        /\ r[Len(toServer) + 1] = f
    BY <1>1, <1>5, <2>1, AppendIs DEF Outgoing
  <2>3. \A i \in DOMAIN r : IsJoin(r[i]) => r[i].ref # 0
    BY <1>1, <1>5, <2>2 DEF Outgoing
  <2> QED
    BY <2>1, <2>2, <2>3 DEF Outgoing
<1> QED
  BY <1>2, <1>3, <1>4, <1>5, SendingIs DEF SendingWays

(* What happens to the frames the server sends. *)
Fine(f) ==
    /\ f \in ServerFrames
    /\ f.type = "ack" => f.ref # 0
    /\ f.type = "presence" => f.joins \cap f.leaves = {}

TellingWays ==
    \/ UNCHANGED toClient
    \/ Hearing
    \/ toClient' = <<>>
    \/ \E f \in {g \in ServerFrames : Fine(g)} : toClient' = Append(toClient, f)
    \/ \E f, g \in {e \in ServerFrames : Fine(e)} : toClient' = Append(Append(toClient, f), g)

LEMMA TellIs ==
    ASSUME TypeInv, NEW joins, NEW leaves, Telling(joins, leaves),
           joins \subseteq Everyone, leaves \subseteq Everyone, joins \cap leaves = {}
    PROVE  TellingWays
<1>1. PICK f : f = [type |-> "presence", joins |-> joins, leaves |-> leaves]
  OBVIOUS
<1>2. f \in ServerFrames /\ Fine(f)
  BY <1>1 DEF ServerFrames, Fine
<1> QED
  BY <1>1, <1>2 DEF Telling, TellingWays

LEMMA TellingWaysIs ==
    ASSUME TypeInv, Going
    PROVE  TellingWays
<1>1. CASE Registering
  <2>1. PICK r : r = toServer[1].ref
    OBVIOUS
  <2>2. r \in Refs /\ r # 0 /\ tracked \subseteq Everyone
    <3>1. 1 \in DOMAIN toServer
      BY <1>1, Basics, TailIs DEF Registering, Taking
    <3> QED
      BY <1>1, <2>1, <3>1, FramesAre, TypeInvIs DEF Registering, Fields
  <2>3. PICK f : f = [type |-> "ack", ref |-> r]
    OBVIOUS
  <2>4. PICK g : g = [type |-> "presence", joins |-> tracked, leaves |-> {}]
    OBVIOUS
  <2>5. f \in ServerFrames /\ Fine(f)
    BY <2>2, <2>3 DEF ServerFrames, Fine
  <2>6. g \in ServerFrames /\ Fine(g)
    BY <2>2, <2>4 DEF ServerFrames, Fine
  <2>7. toClient' = Append(toClient, f) \/ toClient' = Append(Append(toClient, f), g)
    BY <1>1, <2>1, <2>3, <2>4 DEF Registering
  <2> QED
    BY <2>5, <2>6, <2>7 DEF TellingWays
<1>2. CASE Refusing
  <2>1. PICK r \in Refs : toClient' = Append(toClient, [type |-> "refusal", ref |-> r])
    BY <1>2 DEF Refusing
  <2>2. PICK f : f = [type |-> "refusal", ref |-> r]
    OBVIOUS
  <2>3. f \in ServerFrames /\ Fine(f)
    BY <2>2 DEF ServerFrames, Fine
  <2> QED
    BY <2>1, <2>2, <2>3 DEF TellingWays
<1>3. CASE Presenting
  <2>1. ASSUME NEW p \in Everyone, Telling({p}, {}) \/ Telling({}, {p}) PROVE TellingWays
    <3>1. {p} \subseteq Everyone /\ {} \subseteq Everyone /\ {p} \cap {} = {} /\ {} \cap {p} = {}
      OBVIOUS
    <3> QED
      BY <2>1, <3>1, TellIs
  <2> QED
    BY <1>3, <2>1 DEF Presenting, TellingWays
<1>4. CASE Judging
  <2>1. ASSUME NEW row \in judging, NEW late \in BOOLEAN,
               toClient' = Append(toClient, [type |-> "row", target |-> row.target,
                                             under |-> row.under, late |-> late])
        PROVE  TellingWays
    <3>1. row.target \in Targets /\ row.under \in Refs
      BY TypeInvIs DEF Fields
    <3>2. PICK f : f = [type |-> "row", target |-> row.target, under |-> row.under, late |-> late]
      OBVIOUS
    <3>3. f \in ServerFrames /\ Fine(f)
      BY <3>1, <3>2 DEF ServerFrames, Fine
    <3> QED
      BY <2>1, <3>2, <3>3 DEF TellingWays
  <2> QED
    BY <1>4, <2>1 DEF Judging, TellingWays
<1>5. CASE Ignoring \/ Acknowledged \/ Refused \/ Seeing
  BY <1>5 DEF Ignoring, Acknowledged, Refused, Seeing, TellingWays
<1>6. CASE Closing
  BY <1>6 DEF Closing, TellingWays
<1>7. CASE Quiet \/ Adding \/ Dropping \/ Joining \/ Leaving \/ Sending \/ Forgetting \/ Committing \/ Opening
  BY <1>7 DEF Quiet, Adding, Dropping, Joining, Leaving, Sending, Forgetting, Committing, Opening, TellingWays
<1> QED BY <1>1, <1>2, <1>3, <1>4, <1>5, <1>6, <1>7 DEF Going

LEMMA AllFine ==
    ASSUME Incoming
    PROVE  \A i \in DOMAIN toClient : Fine(toClient[i])
BY DEF Incoming, Fine

LEMMA IncomingKept ==
    ASSUME TypeInv, Going
    PROVE  Incoming'
<1>1. toClient \in Seq(ServerFrames) /\ \A i \in DOMAIN toClient : Fine(toClient[i])
  BY TypeInvIs, AllFine, Basics
<1>2. ASSUME NEW r \in Seq(ServerFrames), r = toClient', \A i \in DOMAIN r : Fine(r[i])
      PROVE  Incoming'
  BY <1>2 DEF Incoming, Fine
<1>3. ASSUME NEW q \in Seq(ServerFrames), \A i \in DOMAIN q : Fine(q[i]), NEW f \in ServerFrames, Fine(f),
             NEW r, r = Append(q, f)
      PROVE  r \in Seq(ServerFrames) /\ \A i \in DOMAIN r : Fine(r[i])
  <2>1. /\ r \in Seq(ServerFrames) /\ \A i \in DOMAIN r : i \in DOMAIN q \/ i = Len(q) + 1
        /\ \A i \in DOMAIN q : r[i] = q[i]
        /\ r[Len(q) + 1] = f
    BY <1>3, AppendIs
  <2> QED BY <1>3, <2>1
<1>4. CASE UNCHANGED toClient
  BY <1>1, <1>2, <1>4
<1>5. CASE toClient' = <<>>
  BY <1>5 DEF Incoming
<1>6. CASE Hearing
  <2>1. PICK r : r = toClient'
    OBVIOUS
  <2>2. r \in Seq(ServerFrames) /\ \A i \in DOMAIN r : i + 1 \in DOMAIN toClient /\ r[i] = toClient[i + 1]
    BY <1>1, <1>6, <2>1, TailIs DEF Hearing
  <2> QED BY <1>1, <1>2, <2>1, <2>2
<1>7. ASSUME NEW f \in ServerFrames, Fine(f), toClient' = Append(toClient, f)
      PROVE  Incoming'
  <2>1. PICK r : r = toClient'
    OBVIOUS
  <2> QED BY <1>1, <1>2, <1>3, <1>7, <2>1
<1>8. ASSUME NEW f \in ServerFrames, Fine(f), NEW g \in ServerFrames, Fine(g),
             toClient' = Append(Append(toClient, f), g)
      PROVE  Incoming'
  <2>1. PICK r : r = toClient'
    OBVIOUS
  <2>2. PICK q : q = Append(toClient, f)
    OBVIOUS
  <2>3. q \in Seq(ServerFrames) /\ \A i \in DOMAIN q : Fine(q[i])
    BY <1>1, <1>3, <1>8, <2>2
  <2>4. r \in Seq(ServerFrames) /\ \A i \in DOMAIN r : Fine(r[i])
    BY <1>3, <1>8, <2>1, <2>2, <2>3
  <2> QED BY <1>2, <2>1, <2>4
<1> QED
  BY <1>4, <1>5, <1>6, <1>7, <1>8, TellingWaysIs DEF TellingWays

LEMMA FieldsKept ==
    ASSUME TypeInv, OrderInv, Going
    PROVE  Fields'
<1>1. Fields
  BY TypeInvIs
<1>2. CASE Joining
  <2>1. /\ joining' \in Targets /\ joinRef' = lastRef + 1 /\ lastRef' = lastRef + 1
        /\ joined' = (IF joined = NoTarget THEN joining' ELSE joined)
        /\ lastRef < MaxRef + losses
        /\ UNCHANGED <<ackedRef, sub, subRef, judging, tracked>>
    BY <1>2 DEF Joining, serverVars
  <2>2. lastRef + 1 \in Refs /\ lastRef \in Nat
    BY <2>1, NextRefIs, Basics
  <2>3. joinRef' \in 0 .. lastRef' /\ ackedRef' \in 0 .. lastRef' /\ subRef' \in 0 .. lastRef'
    BY <1>1, <2>1, <2>2 DEF Fields
  <2> QED
    BY <1>1, <2>1, <2>2, <2>3 DEF Fields
<1>3. CASE Leaving
  BY <1>1, <1>3, Basics DEF Leaving, Fields, serverVars
<1>4. CASE Registering
  <2>1. PICK f : f = toServer[1]
    OBVIOUS
  <2>2. f.target \in Targets /\ f.ref \in Nat /\ f.ref # 0 /\ f.ref <= lastRef
    <3>1. 1 \in DOMAIN toServer
      BY <1>4, Basics, TailIs DEF Registering, Taking
    <3> QED
      BY <1>4, <2>1, <3>1, FramesAre DEF Registering, OrderInv
  <2>3. /\ sub' = f.target /\ subRef' = f.ref
        /\ UNCHANGED <<joined, joining, joinRef, lastRef, ackedRef, judging, tracked>>
    BY <1>4, <2>1 DEF Registering, joinVars
  <2>4. subRef' \in 0 .. lastRef'
    BY <2>2, <2>3, Basics
  <2> QED
    BY <1>1, <2>2, <2>3, <2>4, ChannelAssumption DEF Fields
<1>5. CASE Forgetting \/ Closing
  BY <1>1, <1>5, Basics DEF Forgetting, Closing, Fields, joinVars
<1>6. CASE Presenting
  BY <1>1, <1>6 DEF Presenting, Fields, joinVars
<1>7. CASE Committing
  <2>1. /\ sub # NoTarget /\ judging' = judging \cup {[target |-> sub, under |-> subRef]}
        /\ UNCHANGED <<joined, joining, joinRef, lastRef, ackedRef, sub, subRef, tracked>>
    BY <1>7 DEF Committing, joinVars
  <2>2. sub \in Targets /\ subRef \in Refs
    BY <1>1, <2>1, Basics DEF Fields, Refs
  <2> QED
    BY <1>1, <2>1, <2>2 DEF Fields
<1>8. CASE Judging
  BY <1>1, <1>8 DEF Judging, Fields, joinVars
<1>9. CASE Acknowledged \/ Refused
  BY <1>1, <1>9, Basics DEF Acknowledged, Refused, Fields, serverVars
<1>10. CASE Quiet \/ Adding \/ Dropping \/ Sending \/ Refusing \/ Ignoring \/ Seeing \/ Opening
  BY <1>1, <1>10 DEF Quiet, Adding, Dropping, Sending, Refusing, Ignoring, Seeing, Opening, Fields, joinVars, serverVars
<1> QED BY <1>2, <1>3, <1>4, <1>5, <1>6, <1>7, <1>8, <1>9, <1>10 DEF Going

LEMMA TypeInvKept ==
    ASSUME TypeInv, OrderInv, Going, Shape'
    PROVE  TypeInv'
<1>1. Outgoing' /\ Incoming' /\ Fields'
  BY OutgoingKept, IncomingKept, FieldsKept
<1> QED
  BY <1>1 DEF TypeInv, TypeOK, Shape, Outgoing, Incoming, Fields

-----------------------------------------------------------------------------
(* The socket, and the join pending on the channel.                        *)

LEMMA SocketKept ==
    ASSUME TypeInv, SocketInv, Going
    PROVE  SocketInv'
<1> USE Basics
<1>1. CASE Joining
  BY <1>1 DEF Joining, SocketInv
<1>2. CASE Leaving
  BY <1>2 DEF Leaving, SocketInv, serverVars
<1>3. CASE Sending
  BY <1>3 DEF Sending, SocketInv, joinVars, serverVars
<1>4. CASE Registering \/ Refusing \/ Forgetting
  <2>1. up
    BY <1>4 DEF Registering, Refusing, Forgetting, Taking, SocketInv
  <2>2. UNCHANGED <<handles, joinRef, ackedRef, joinSent, subscribed, lastRef, up, losses>>
    BY <1>4 DEF Registering, Refusing, Forgetting, joinVars
  <2> QED
    BY <2>1, <2>2 DEF SocketInv
<1>5. CASE Presenting
  <2>1. UNCHANGED <<handles, listens, joinVars, members, up, sub, subRef, judging, losses>>
    BY <1>5 DEF Presenting
  <2>2. ~up => UNCHANGED <<toServer, toClient>>
    BY <1>5 DEF Presenting, Telling, Taking, SocketInv
  <2> QED
    BY <2>1, <2>2 DEF SocketInv, joinVars
<1>6. CASE Committing \/ Judging
  <2>1. up \/ (UNCHANGED toClient /\ judging' \subseteq judging)
    BY <1>6 DEF Committing, Judging, SocketInv
  <2> QED
    BY <1>6, <2>1 DEF Committing, Judging, SocketInv, joinVars
<1>7. CASE Ignoring \/ Acknowledged \/ Refused \/ Seeing
  <2>1. up
    BY <1>7 DEF Ignoring, Acknowledged, Refused, Seeing, Hearing, SocketInv
  <2>2. UNCHANGED <<handles, lastRef, up, losses>>
    BY <1>7 DEF Ignoring, Acknowledged, Refused, Seeing, joinVars
  <2>3. handles = <<>> => joinRef' = 0 /\ ackedRef' = 0 /\ ~joinSent' /\ ~subscribed'
    BY <1>7 DEF Ignoring, Acknowledged, Refused, Seeing, SocketInv, joinVars
  <2> QED
    BY <2>1, <2>2, <2>3 DEF SocketInv
<1>8. CASE Closing
  BY <1>8, ChannelAssumption DEF Closing, SocketInv
<1>9. CASE Quiet \/ Opening
  BY <1>9 DEF Quiet, Opening, SocketInv, joinVars, serverVars
<1>10. CASE Adding \/ Dropping
  BY <1>10 DEF Adding, Dropping, SocketInv, joinVars, serverVars
<1> QED
  BY <1>1, <1>2, <1>3, <1>4, <1>5, <1>6, <1>7, <1>8, <1>9, <1>10 DEF Going

LEMMA PendingKept ==
    ASSUME TypeInv, PendingInv, Going
    PROVE  PendingInv'
<1> USE Basics
<1>1. CASE Joining
  BY <1>1 DEF Joining, PendingInv
<1>2. CASE Leaving \/ Closing
  BY <1>2 DEF Leaving, Closing, PendingInv
<1>3. CASE Acknowledged \/ Refused
  BY <1>3 DEF Acknowledged, Refused, PendingInv
<1>4. CASE UNCHANGED <<subscribed, joinSent, joined, joining, joinRef, lastRef, ackedRef>>
  BY <1>4 DEF PendingInv
<1>5. CASE \/ Quiet \/ Adding \/ Dropping \/ Sending \/ Registering \/ Refusing \/ Forgetting
           \/ Presenting \/ Committing \/ Judging \/ Ignoring \/ Seeing \/ Opening
  <2>1. UNCHANGED <<subscribed, joinSent, joined, joining, joinRef, lastRef, ackedRef>>
    BY <1>5 DEF Quiet, Adding, Dropping, Sending, Registering, Refusing, Forgetting,
                Presenting, Committing, Judging, Ignoring, Seeing, Opening, joinVars
  <2> QED BY <1>4, <2>1
<1> QED
  BY <1>1, <1>2, <1>3, <1>5 DEF Going

(* A listener of the channel's is for the join held, or there has been none. *)
LEMMA ServedKept ==
    ASSUME TypeInv, PendingInv, ServedInv, Going
    PROVE  ServedInv'
<1> USE Basics
<1>1. ASSUME UNCHANGED <<handles, listens>> PROVE Listened' = Listened
  BY <1>1 DEF Listened, Wanted
<1>2. PICK L : L = Listened
  OBVIOUS
<1>3. PICK M : M = Listened'
  OBVIOUS
<1>4. joinSent => (L = {} => silentJoin) /\ (~silentJoin => Held \in L)
  BY <1>2 DEF ServedInv
<1>5. ASSUME joinSent' => (M = {} => silentJoin') /\ (~silentJoin' => Held' \in M) PROVE ServedInv'
  BY <1>3, <1>5 DEF ServedInv
<1>6. CASE Joining
  BY <1>3, <1>5, <1>6 DEF Joining, Held
<1>7. CASE Leaving \/ Closing
  BY <1>5, <1>7 DEF Leaving, Closing
<1>8. CASE Acknowledged
  <2>1. UNCHANGED <<handles, listens, joinSent, silentJoin>> /\ Held' = joining /\ joining # NoTarget
    BY <1>8 DEF Acknowledged, Held, PendingInv
  <2> QED
    BY <1>1, <1>2, <1>3, <1>4, <1>5, <2>1 DEF Held
<1>9. CASE Refused
  <2>1. UNCHANGED <<handles, listens, silentJoin, joined, joining>> /\ (joinSent' => joinSent)
    BY <1>9 DEF Refused
  <2> QED
    BY <1>1, <1>2, <1>3, <1>4, <1>5, <2>1 DEF Held
<1>10. CASE Adding
  <2>1. UNCHANGED <<joinSent, silentJoin, joined, joining>> /\ L \subseteq M
    BY <1>2, <1>3, <1>10 DEF Adding, joinVars
  <2> QED
    BY <1>4, <1>5, <2>1 DEF Held
<1>11. CASE Dropping
  <2>1. /\ UNCHANGED <<joinSent, joined, joining>>
        /\ silentJoin' <=> silentJoin \/ M = {}
        /\ joinSent /\ Held # NoTarget /\ M # {} => Held \in M
    BY <1>3, <1>11 DEF Dropping
  <2>2. joinSent => Held # NoTarget
    BY DEF PendingInv, Held
  <2> QED
    BY <1>4, <1>5, <2>1, <2>2 DEF Held
<1>12. CASE \/ Quiet \/ Sending \/ Registering \/ Refusing \/ Forgetting
            \/ Presenting \/ Committing \/ Judging \/ Ignoring \/ Seeing \/ Opening
  <2>1. UNCHANGED <<handles, listens, joinSent, silentJoin, joined, joining>>
    BY <1>12 DEF Quiet, Sending, Registering, Refusing, Forgetting,
                Presenting, Committing, Judging, Ignoring, Seeing, Opening, joinVars
  <2> QED
    BY <1>1, <1>2, <1>3, <1>4, <1>5, <2>1 DEF Held
<1> QED
  BY <1>6, <1>7, <1>8, <1>9, <1>10, <1>11, <1>12 DEF Going

-----------------------------------------------------------------------------
(* The order of joins and their answers.                                   *)

Ordered(ts, tc, last, acked, pending, target) ==
    /\ \A i \in DOMAIN ts : IsJoin(ts[i]) =>
            /\ ts[i].ref <= last
            /\ acked < ts[i].ref
            /\ ts[i].ref = pending => ts[i].target = target
    /\ \A i, k \in DOMAIN ts : i < k /\ IsJoin(ts[i]) /\ IsJoin(ts[k]) => ts[i].ref < ts[k].ref
    /\ \A i \in DOMAIN ts, k \in DOMAIN tc : IsJoin(ts[i]) /\ Answers(tc[k]) => tc[k].ref < ts[i].ref
    /\ \A i \in DOMAIN tc : Answers(tc[i]) => tc[i].ref <= last
    /\ \A i, k \in DOMAIN tc : tc[i].type = "ack" /\ tc[k].type = "refusal" => tc[i].ref # tc[k].ref

LEMMA OrderIs == OrderInv <=> Ordered(toServer, toClient, lastRef, ackedRef, joinRef, joining)
BY DEF OrderInv, Ordered

(* The joins of one queue stand in the other, d places on; and the answers. *)
JoinsFrom(ts2, ts, d)   == \A i \in DOMAIN ts2 : IsJoin(ts2[i]) => i + d \in DOMAIN ts /\ ts2[i] = ts[i + d]
AnswersFrom(tc2, tc, d) == \A i \in DOMAIN tc2 : Answers(tc2[i]) => i + d \in DOMAIN tc /\ tc2[i] = tc[i + d]

(* Nothing new: frames are taken, or others sent. *)
LEMMA StillOrdered ==
    ASSUME NEW ts \in Seq(ClientFrames), NEW tc \in Seq(ServerFrames),
           NEW ts2 \in Seq(ClientFrames), NEW tc2 \in Seq(ServerFrames),
           NEW last, NEW acked, NEW pending, NEW target, Ordered(ts, tc, last, acked, pending, target),
           NEW d \in Nat, JoinsFrom(ts2, ts, d), NEW e \in Nat, AnswersFrom(tc2, tc, e),
           NEW acked2, \A i \in DOMAIN ts : IsJoin(ts[i]) => acked2 < ts[i].ref,
           NEW pending2, NEW target2,
           \A i \in DOMAIN ts : IsJoin(ts[i]) /\ ts[i].ref = pending2 => ts[i].target = target2
    PROVE  Ordered(ts2, tc2, last, acked2, pending2, target2)
<1>1. \A i \in DOMAIN ts2 : i \in Nat
  OBVIOUS
<1>2. \A i \in DOMAIN tc2 : i \in Nat
  OBVIOUS
<1>3. ASSUME NEW i \in DOMAIN ts2, IsJoin(ts2[i])
      PROVE  /\ ts2[i].ref <= last /\ acked2 < ts2[i].ref
             /\ ts2[i].ref = pending2 => ts2[i].target = target2
  <2>1. i + d \in DOMAIN ts /\ ts2[i] = ts[i + d]
    BY <1>3 DEF JoinsFrom
  <2> QED
    BY <1>3, <2>1 DEF Ordered
<1>4. ASSUME NEW i \in DOMAIN ts2, NEW k \in DOMAIN ts2, i < k, IsJoin(ts2[i]), IsJoin(ts2[k])
      PROVE  ts2[i].ref < ts2[k].ref
  <2>1. i + d \in DOMAIN ts /\ ts2[i] = ts[i + d] /\ k + d \in DOMAIN ts /\ ts2[k] = ts[k + d]
    BY <1>4 DEF JoinsFrom
  <2>2. i + d < k + d
    BY <1>1, <1>4
  <2> QED
    BY <1>4, <2>1, <2>2 DEF Ordered
<1>5. ASSUME NEW i \in DOMAIN ts2, NEW k \in DOMAIN tc2, IsJoin(ts2[i]), Answers(tc2[k])
      PROVE  tc2[k].ref < ts2[i].ref
  <2>1. i + d \in DOMAIN ts /\ ts2[i] = ts[i + d] /\ k + e \in DOMAIN tc /\ tc2[k] = tc[k + e]
    BY <1>5 DEF JoinsFrom, AnswersFrom
  <2> QED
    BY <1>5, <2>1 DEF Ordered
<1>6. ASSUME NEW i \in DOMAIN tc2, Answers(tc2[i]) PROVE tc2[i].ref <= last
  <2>1. i + e \in DOMAIN tc /\ tc2[i] = tc[i + e]
    BY <1>6 DEF AnswersFrom
  <2> QED
    BY <1>6, <2>1 DEF Ordered
<1>7. ASSUME NEW i \in DOMAIN tc2, NEW k \in DOMAIN tc2, tc2[i].type = "ack", tc2[k].type = "refusal"
      PROVE  tc2[i].ref # tc2[k].ref
  <2>1. i + e \in DOMAIN tc /\ tc2[i] = tc[i + e] /\ k + e \in DOMAIN tc /\ tc2[k] = tc[k + e]
    BY <1>7 DEF AnswersFrom, Answers
  <2> QED
    BY <1>7, <2>1 DEF Ordered
<1> QED
  BY <1>3, <1>4, <1>5, <1>6, <1>7 DEF Ordered

LEMMA JoinOrdered ==
    ASSUME NEW ts \in Seq(ClientFrames), NEW tc, NEW last \in Nat, NEW acked \in Nat, NEW pending, NEW target,
           Ordered(ts, tc, last, acked, pending, target), acked <= last,
           \A i \in DOMAIN ts : IsJoin(ts[i]) => ts[i].ref \in Nat,
           \A i \in DOMAIN tc : Answers(tc[i]) => tc[i].ref \in Nat,
           NEW f \in ClientFrames, IsJoin(f), f.ref = last + 1, NEW ts2, ts2 = Append(ts, f)
    PROVE  Ordered(ts2, tc, last + 1, acked, last + 1, f.target)
<1>1. /\ Len(ts) \in Nat /\ DOMAIN ts = 1 .. Len(ts)
      /\ \A i \in DOMAIN ts : i \in DOMAIN ts2 /\ ts2[i] = ts[i]
      /\ ts2[Len(ts) + 1] = f
      /\ \A i \in DOMAIN ts2 : i \in DOMAIN ts \/ i = Len(ts) + 1
  BY AppendIs
<1>2. \A i \in DOMAIN ts : IsJoin(ts[i]) => ts[i].ref <= last /\ acked < ts[i].ref
  BY DEF Ordered
<1>3. ASSUME NEW i \in DOMAIN ts2, IsJoin(ts2[i])
      PROVE  /\ ts2[i].ref <= last + 1 /\ acked < ts2[i].ref
             /\ ts2[i].ref = last + 1 => ts2[i].target = f.target
  <2>1. CASE i \in DOMAIN ts
    BY <1>1, <1>2, <1>3, <2>1
  <2>2. CASE i = Len(ts) + 1
    BY <1>1, <2>2
  <2> QED BY <1>1, <2>1, <2>2
<1>4. ASSUME NEW i \in DOMAIN ts2, NEW k \in DOMAIN ts2, i < k, IsJoin(ts2[i]), IsJoin(ts2[k])
      PROVE  ts2[i].ref < ts2[k].ref
  <2>1. i \in DOMAIN ts
    BY <1>1, <1>4
  <2>2. ts2[i] = ts[i] /\ ts[i].ref <= last /\ ts[i].ref \in Nat
    BY <1>1, <1>2, <1>4, <2>1
  <2>3. CASE k \in DOMAIN ts
    BY <1>1, <1>4, <2>1, <2>2, <2>3 DEF Ordered
  <2>4. CASE k = Len(ts) + 1
    BY <1>1, <2>2, <2>4
  <2> QED BY <1>1, <2>3, <2>4
<1>5. ASSUME NEW i \in DOMAIN ts2, NEW k \in DOMAIN tc, IsJoin(ts2[i]), Answers(tc[k])
      PROVE  tc[k].ref < ts2[i].ref
  <2>1. CASE i \in DOMAIN ts
    BY <1>1, <1>5, <2>1 DEF Ordered
  <2>2. CASE i = Len(ts) + 1
    <3>1. tc[k].ref <= last /\ tc[k].ref \in Nat
      BY <1>5 DEF Ordered
    <3> QED BY <1>1, <2>2, <3>1
  <2> QED BY <1>1, <2>1, <2>2
<1>6. \A i \in DOMAIN tc : Answers(tc[i]) => tc[i].ref <= last + 1
  <2>1. \A i \in DOMAIN tc : Answers(tc[i]) => tc[i].ref <= last
    BY DEF Ordered
  <2> QED BY <2>1
<1>7. \A i, k \in DOMAIN tc : tc[i].type = "ack" /\ tc[k].type = "refusal" => tc[i].ref # tc[k].ref
  BY DEF Ordered
<1> QED
  BY <1>3, <1>4, <1>5, <1>6, <1>7 DEF Ordered

LEMMA AnswerOrdered ==
    ASSUME NEW ts, NEW tc \in Seq(ServerFrames), NEW last, NEW acked, NEW pending, NEW target,
           Ordered(ts, tc, last, acked, pending, target),
           NEW f \in ServerFrames, Answers(f), f.ref <= last, NEW tc2, tc2 = Append(tc, f),
           \A i \in DOMAIN ts : IsJoin(ts[i]) => f.ref < ts[i].ref,
           \A i \in DOMAIN tc : Answers(tc[i]) /\ tc[i].type # f.type => tc[i].ref # f.ref
    PROVE  Ordered(ts, tc2, last, acked, pending, target)
<1>1. /\ \A i \in DOMAIN tc : i \in DOMAIN tc2 /\ tc2[i] = tc[i]
      /\ tc2[Len(tc) + 1] = f
      /\ \A i \in DOMAIN tc2 : i \in DOMAIN tc \/ i = Len(tc) + 1
  BY AppendIs
<1>2. ASSUME NEW i \in DOMAIN ts, NEW k \in DOMAIN tc2, IsJoin(ts[i]), Answers(tc2[k])
      PROVE  tc2[k].ref < ts[i].ref
  BY <1>1, <1>2 DEF Ordered
<1>3. ASSUME NEW i \in DOMAIN tc2, Answers(tc2[i]) PROVE tc2[i].ref <= last
  BY <1>1, <1>3 DEF Ordered
<1>4. ASSUME NEW i \in DOMAIN tc2, NEW k \in DOMAIN tc2, tc2[i].type = "ack", tc2[k].type = "refusal"
      PROVE  tc2[i].ref # tc2[k].ref
  <2>1. CASE i \in DOMAIN tc /\ k \in DOMAIN tc
    BY <1>1, <1>4, <2>1 DEF Ordered
  <2>2. CASE i \in DOMAIN tc /\ k = Len(tc) + 1
    BY <1>1, <1>4, <2>2 DEF Answers
  <2>3. CASE i = Len(tc) + 1 /\ k \in DOMAIN tc
    BY <1>1, <1>4, <2>3 DEF Answers
  <2>4. CASE i = Len(tc) + 1 /\ k = Len(tc) + 1
    BY <1>1, <1>4, <2>4
  <2> QED BY <1>1, <2>1, <2>2, <2>3, <2>4
<1> QED
  BY <1>2, <1>3, <1>4 DEF Ordered

LEMMA FromIs ==
    ASSUME NEW S, NEW q \in Seq(S)
    PROVE  /\ JoinsFrom(q, q, 0) /\ AnswersFrom(q, q, 0)
           /\ JoinsFrom(<<>>, q, 0) /\ AnswersFrom(<<>>, q, 0)
           /\ q # <<>> => JoinsFrom(Tail(q), q, 1) /\ AnswersFrom(Tail(q), q, 1)
           /\ \A f : ~IsJoin(f) => JoinsFrom(Append(q, f), q, 0)
           /\ \A f : ~Answers(f) => AnswersFrom(Append(q, f), q, 0)
<1>1. \A i \in DOMAIN q : i + 0 = i
  OBVIOUS
<1>2. JoinsFrom(q, q, 0) /\ AnswersFrom(q, q, 0)
  BY <1>1 DEF JoinsFrom, AnswersFrom
<1>3. JoinsFrom(<<>>, q, 0) /\ AnswersFrom(<<>>, q, 0)
  BY DEF JoinsFrom, AnswersFrom
<1>4. ASSUME q # <<>> PROVE JoinsFrom(Tail(q), q, 1) /\ AnswersFrom(Tail(q), q, 1)
  <2>1. PICK r : r = Tail(q)
    OBVIOUS
  <2>2. \A i \in DOMAIN r : i + 1 \in DOMAIN q /\ r[i] = q[i + 1]
    BY <1>4, <2>1, TailIs
  <2> QED
    BY <2>1, <2>2 DEF JoinsFrom, AnswersFrom
<1>5. ASSUME NEW f PROVE (~IsJoin(f) => JoinsFrom(Append(q, f), q, 0)) /\ (~Answers(f) => AnswersFrom(Append(q, f), q, 0))
  <2>1. PICK r : r = Append(q, f)
    OBVIOUS
  <2>2. /\ \A i \in DOMAIN q : r[i] = q[i] /\ i + 0 = i
        /\ r[Len(q) + 1] = f
        /\ \A i \in DOMAIN r : i \in DOMAIN q \/ i = Len(q) + 1
    BY <1>1, <2>1, AppendIs
  <2>3. ~IsJoin(f) => JoinsFrom(r, q, 0)
    BY <2>2 DEF JoinsFrom
  <2>4. ~Answers(f) => AnswersFrom(r, q, 0)
    BY <2>2 DEF AnswersFrom
  <2> QED BY <2>1, <2>3, <2>4
<1> QED BY <1>2, <1>3, <1>4, <1>5

(* The server takes the first frame: the joins behind it were sent later. *)
LEMMA TakenOrdered ==
    ASSUME TypeInv, OrderInv, Taking, NEW ts2, ts2 = toServer'
    PROVE  /\ Ordered(ts2, toClient, lastRef, ackedRef, joinRef, joining)
           /\ ts2 \in Seq(ClientFrames)
           /\ \A i \in DOMAIN ts2 : IsJoin(ts2[i]) =>
                /\ ts2[i].ref > 0
                /\ IsJoin(toServer[1]) => ts2[i].ref > toServer[1].ref
           /\ toServer[1] \in ClientFrames /\ 1 \in DOMAIN toServer
<1>1. PICK ts : ts = toServer
  OBVIOUS
<1>2. PICK tc : tc = toClient
  OBVIOUS
<1>3. PICK last : last = lastRef
  OBVIOUS
<1>4. PICK acked : acked = ackedRef
  OBVIOUS
<1>5. PICK pending : pending = joinRef
  OBVIOUS
<1>6. PICK target : target = joining
  OBVIOUS
<1>7. ts \in Seq(ClientFrames) /\ tc \in Seq(ServerFrames) /\ Ordered(ts, tc, last, acked, pending, target)
  BY <1>1, <1>2, <1>3, <1>4, <1>5, <1>6, Basics, OrderIs
<1>8. ts # <<>> /\ ts2 = Tail(ts)
  BY <1>1 DEF Taking
<1>9. ts2 \in Seq(ClientFrames) /\ 1 \in DOMAIN ts /\ ts[1] \in ClientFrames
      /\ \A i \in DOMAIN ts2 : i \in DOMAIN ts2 /\ i + 1 \in DOMAIN ts /\ ts2[i] = ts[i + 1] /\ 1 < i + 1
  BY <1>7, <1>8, TailIs
<1>10. JoinsFrom(ts2, ts, 1) /\ AnswersFrom(tc, tc, 0)
  BY <1>7, <1>8, FromIs
<1>11. /\ \A i \in DOMAIN ts : IsJoin(ts[i]) => acked < ts[i].ref
       /\ \A i \in DOMAIN ts : IsJoin(ts[i]) /\ ts[i].ref = pending => ts[i].target = target
  BY <1>7 DEF Ordered
<1>12. Ordered(ts2, tc, last, acked, pending, target)
  BY <1>7, <1>9, <1>10, <1>11, StillOrdered
<1>13. \A i \in DOMAIN ts2 : IsJoin(ts2[i]) => ts2[i].ref > 0
  <2>1. \A i \in DOMAIN ts : IsJoin(ts[i]) => ts[i].ref \in Nat /\ ts[i].ref # 0
    BY <1>1, FramesAre
  <2> QED BY <1>9, <2>1
<1>14. ASSUME IsJoin(ts[1]), NEW i \in DOMAIN ts2, IsJoin(ts2[i]) PROVE ts2[i].ref > ts[1].ref
  <2>1. ts[1].ref < ts[i + 1].ref
    BY <1>7, <1>9, <1>14 DEF Ordered
  <2>2. ts[1].ref \in Nat /\ ts[i + 1].ref \in Nat
    BY <1>1, <1>9, <1>14, FramesAre
  <2> QED BY <1>9, <2>1, <2>2
<1> QED
  BY <1>1, <1>2, <1>3, <1>4, <1>5, <1>6, <1>9, <1>12, <1>13, <1>14

(* It answers it, and it may say who is present. *)
LEMMA AnsweredOrdered ==
    ASSUME TypeInv, OrderInv, Taking,
           UNCHANGED <<lastRef, ackedRef, joinRef, joining>>,
           NEW f \in ServerFrames, NEW tc1, tc1 = Append(toClient, f),
           \/ f.type = "ack" /\ IsJoin(toServer[1]) /\ f.ref = toServer[1].ref
           \/ f.type = "refusal" /\ f.ref = IF IsJoin(toServer[1]) THEN toServer[1].ref ELSE 0,
           \/ toClient' = tc1
           \/ \E g \in ServerFrames : ~Answers(g) /\ toClient' = Append(tc1, g)
    PROVE  OrderInv'
<1>1. PICK ts2 : ts2 = toServer'
  OBVIOUS
<1>2. PICK tc : tc = toClient
  OBVIOUS
<1>3. PICK last : last = lastRef
  OBVIOUS
<1>4. PICK acked : acked = ackedRef
  OBVIOUS
<1>5. PICK pending : pending = joinRef
  OBVIOUS
<1>6. PICK target : target = joining
  OBVIOUS
<1>7. PICK tc2 : tc2 = toClient'
  OBVIOUS
<1>8. PICK head : head = toServer[1]
  OBVIOUS
<1>9. /\ Ordered(ts2, tc, last, acked, pending, target) /\ ts2 \in Seq(ClientFrames) /\ tc \in Seq(ServerFrames)
      /\ \A i \in DOMAIN ts2 : IsJoin(ts2[i]) => ts2[i].ref > 0 /\ (IsJoin(head) => ts2[i].ref > head.ref)
  BY <1>1, <1>2, <1>3, <1>4, <1>5, <1>6, <1>8, TakenOrdered, Basics
<1>10. /\ IsJoin(head) => head.ref \in Nat /\ head.ref <= last
       /\ \A i \in DOMAIN tc : Answers(tc[i]) /\ IsJoin(head) => tc[i].ref < head.ref
       /\ \A i \in DOMAIN tc : Answers(tc[i]) => tc[i].ref \in Nat
       /\ \A i \in DOMAIN tc : tc[i].type = "ack" => tc[i].ref # 0
       /\ last \in Nat
  <2>1. 1 \in DOMAIN toServer
    BY TakenOrdered, <1>1
  <2>2. last \in Nat
    BY <1>3, Basics
  <2>3. IsJoin(head) => head.ref \in Nat
    BY <1>8, <2>1, FramesAre
  <2>4. IsJoin(head) => head.ref <= last
    BY <1>3, <1>8, <2>1 DEF OrderInv
  <2>5. \A i \in DOMAIN tc : Answers(tc[i]) /\ IsJoin(head) => tc[i].ref < head.ref
    BY <1>2, <1>8, <2>1 DEF OrderInv
  <2> QED
    BY <1>2, <2>2, <2>3, <2>4, <2>5, FramesAre
<1>11. /\ Answers(f) /\ f.ref <= last /\ f.ref \in Nat
       /\ \A i \in DOMAIN ts2 : IsJoin(ts2[i]) => f.ref < ts2[i].ref
       /\ \A i \in DOMAIN tc : Answers(tc[i]) /\ tc[i].type # f.type => tc[i].ref # f.ref
  <2>1. CASE IsJoin(head)
    <3>1. f.ref = head.ref /\ Answers(f)
      BY <1>8, <2>1 DEF Answers
    <3>2. \A i \in DOMAIN ts2 : IsJoin(ts2[i]) => ts2[i].ref > head.ref
      BY <1>9, <2>1
    <3>3. \A i \in DOMAIN tc : Answers(tc[i]) => tc[i].ref < head.ref /\ tc[i].ref \in Nat
      BY <1>10, <2>1
    <3>4. \A i \in DOMAIN ts2 : IsJoin(ts2[i]) => f.ref < ts2[i].ref
      BY <3>1, <3>2
    <3>5. \A i \in DOMAIN tc : Answers(tc[i]) => tc[i].ref # f.ref
      BY <1>10, <2>1, <3>1, <3>3
    <3> QED BY <1>10, <2>1, <3>1, <3>4, <3>5
  <2>2. CASE ~IsJoin(head)
    <3>1. f.ref = 0 /\ Answers(f) /\ f.type = "refusal"
      BY <1>8, <2>2 DEF Answers
    <3> QED BY <1>9, <1>10, <3>1 DEF Answers
  <2> QED BY <2>1, <2>2
<1>12. Ordered(ts2, tc1, last, acked, pending, target)
  <2>1. tc1 = Append(tc, f)
    BY <1>2
  <2> QED
    BY <1>9, <1>11, <2>1, AnswerOrdered
<1>13. tc1 \in Seq(ServerFrames)
  BY <1>2, <1>9
<1>14. Ordered(ts2, tc2, last, acked, pending, target)
  <2>1. CASE tc2 = tc1
    BY <1>12, <2>1
  <2>2. ASSUME NEW g \in ServerFrames, ~Answers(g), tc2 = Append(tc1, g)
        PROVE  Ordered(ts2, tc2, last, acked, pending, target)
    <3>1. AnswersFrom(tc2, tc1, 0) /\ JoinsFrom(ts2, ts2, 0)
      BY <1>9, <1>13, <2>2, FromIs
    <3>2. tc2 \in Seq(ServerFrames)
      BY <1>13, <2>2
    <3>3. /\ \A i \in DOMAIN ts2 : IsJoin(ts2[i]) => acked < ts2[i].ref
          /\ \A i \in DOMAIN ts2 : IsJoin(ts2[i]) /\ ts2[i].ref = pending => ts2[i].target = target
      BY <1>12 DEF Ordered
    <3> QED
      BY <1>9, <1>12, <1>13, <3>1, <3>2, <3>3, StillOrdered
  <2> QED BY <1>7, <2>1, <2>2
<1> QED
  BY <1>1, <1>3, <1>4, <1>5, <1>6, <1>7, <1>14 DEF OrderInv, Ordered

(* No join or answer is new. *)
LEMMA SameOrder ==
    ASSUME TypeInv, TypeInv', OrderInv, lastRef' = lastRef,
           NEW d \in Nat, JoinsFrom(toServer', toServer, d), NEW e \in Nat, AnswersFrom(toClient', toClient, e),
           \A i \in DOMAIN toServer : IsJoin(toServer[i]) => ackedRef' < toServer[i].ref,
           joinRef' = 0 \/ (joinRef' = joinRef /\ joining' = joining)
    PROVE  OrderInv'
<1>1. PICK ts : ts = toServer
  OBVIOUS
<1>2. PICK tc : tc = toClient
  OBVIOUS
<1>3. PICK ts2 : ts2 = toServer'
  OBVIOUS
<1>4. PICK tc2 : tc2 = toClient'
  OBVIOUS
<1>5. ts \in Seq(ClientFrames) /\ tc \in Seq(ServerFrames)
  BY <1>1, <1>2, Basics
<1>6. ts2 \in Seq(ClientFrames) /\ tc2 \in Seq(ServerFrames)
  BY <1>3, <1>4 DEF TypeInv, TypeOK
<1>7. PICK last : last = lastRef
  OBVIOUS
<1>8. PICK acked : acked = ackedRef
  OBVIOUS
<1>9. PICK pending : pending = joinRef
  OBVIOUS
<1>10. PICK target : target = joining
  OBVIOUS
<1>11. PICK acked2 : acked2 = ackedRef'
  OBVIOUS
<1>12. PICK pending2 : pending2 = joinRef'
  OBVIOUS
<1>13. PICK target2 : target2 = joining'
  OBVIOUS
<1>14. Ordered(ts, tc, last, acked, pending, target)
  BY <1>1, <1>2, <1>7, <1>8, <1>9, <1>10, OrderIs
<1>15. \A i \in DOMAIN ts : IsJoin(ts[i]) => acked2 < ts[i].ref
  BY <1>1, <1>11
<1>16. \A i \in DOMAIN ts : IsJoin(ts[i]) /\ ts[i].ref = pending2 => ts[i].target = target2
  <2>1. \A i \in DOMAIN ts : IsJoin(ts[i]) => ts[i].ref # 0
    BY <1>1, FramesAre
  <2>2. \A i \in DOMAIN ts : IsJoin(ts[i]) /\ ts[i].ref = pending => ts[i].target = target
    BY <1>14 DEF Ordered
  <2> QED
    BY <1>9, <1>10, <1>12, <1>13, <2>1, <2>2
<1>17. JoinsFrom(ts2, ts, d) /\ AnswersFrom(tc2, tc, e)
  BY <1>1, <1>2, <1>3, <1>4
<1>18. Ordered(ts2, tc2, last, acked2, pending2, target2)
  BY <1>5, <1>6, <1>14, <1>15, <1>16, <1>17, StillOrdered
<1> QED
  BY <1>3, <1>4, <1>7, <1>11, <1>12, <1>13, <1>18 DEF OrderInv, Ordered

LEMMA OrderKept ==
    ASSUME TypeInv, TypeInv', OrderInv, PendingInv, Going
    PROVE  OrderInv'
<1>1. toServer \in Seq(ClientFrames) /\ toClient \in Seq(ServerFrames)
  BY Basics
<1>2. PICK d : d = 0
  OBVIOUS
<1>3. PICK e : e = 1
  OBVIOUS
<1>4. d \in Nat /\ e \in Nat
  BY <1>2, <1>3
<1>5. \A i \in DOMAIN toServer : IsJoin(toServer[i]) => ackedRef < toServer[i].ref /\ 0 < toServer[i].ref
  <2>1. \A i \in DOMAIN toServer : IsJoin(toServer[i]) => 0 < toServer[i].ref
    BY FramesAre
  <2> QED
    BY <2>1 DEF OrderInv
<1>6. /\ JoinsFrom(toServer, toServer, d) /\ AnswersFrom(toClient, toClient, d)
      /\ JoinsFrom(<<>>, toServer, d) /\ AnswersFrom(<<>>, toClient, d)
      /\ toServer # <<>> => JoinsFrom(Tail(toServer), toServer, e)
      /\ toClient # <<>> => AnswersFrom(Tail(toClient), toClient, e)
      /\ \A f : ~IsJoin(f) => JoinsFrom(Append(toServer, f), toServer, d)
      /\ \A f : ~Answers(f) => AnswersFrom(Append(toClient, f), toClient, d)
  BY <1>1, <1>2, <1>3, FromIs
<1>7. CASE Joining
  <2>1. PICK f : f = [type |-> "join", target |-> joining', ref |-> lastRef + 1]
    OBVIOUS
  <2>2. /\ toServer' = Append(toServer, f) /\ toClient' = toClient /\ ackedRef' = ackedRef
        /\ joinRef' = lastRef + 1 /\ lastRef' = lastRef + 1 /\ joining' \in Targets /\ lastRef < MaxRef + losses
    BY <1>7, <2>1 DEF Joining
  <2>3. f \in ClientFrames /\ IsJoin(f) /\ f.ref = lastRef + 1 /\ f.target = joining'
    BY <2>1, <2>2, NextRefIs DEF ClientFrames, IsJoin
  <2>4. PICK ts : ts = toServer
    OBVIOUS
  <2>5. PICK tc : tc = toClient
    OBVIOUS
  <2>6. PICK last : last = lastRef
    OBVIOUS
  <2>7. PICK acked : acked = ackedRef
    OBVIOUS
  <2>8. PICK pending : pending = joinRef
    OBVIOUS
  <2>9. PICK target : target = joining
    OBVIOUS
  <2>10. PICK ts2 : ts2 = Append(ts, f)
    OBVIOUS
  <2>11. /\ Ordered(ts, tc, last, acked, pending, target) /\ last \in Nat /\ acked \in Nat /\ acked <= last
         /\ ts \in Seq(ClientFrames)
    BY <2>4, <2>5, <2>6, <2>7, <2>8, <2>9, OrderIs, Basics
  <2>12. /\ \A i \in DOMAIN ts : IsJoin(ts[i]) => ts[i].ref \in Nat
         /\ \A i \in DOMAIN tc : Answers(tc[i]) => tc[i].ref \in Nat
    BY <2>4, <2>5, FramesAre
  <2>13. f.ref = last + 1
    BY <2>3, <2>6
  <2>14. Ordered(ts2, tc, last + 1, acked, last + 1, f.target)
    BY <2>3, <2>10, <2>11, <2>12, <2>13, JoinOrdered
  <2> QED
    BY <2>2, <2>3, <2>4, <2>5, <2>6, <2>7, <2>10, <2>14 DEF OrderInv, Ordered
<1>8. CASE Leaving
  <2>1. /\ lastRef' = lastRef /\ joinRef' = 0 /\ ackedRef' = 0 /\ toClient' = toClient
        /\ toServer' = toServer \/ toServer' = Append(toServer, [type |-> "leave"])
    BY <1>8 DEF Leaving
  <2>2. ~IsJoin([type |-> "leave"])
    BY DEF IsJoin
  <2>3. JoinsFrom(toServer', toServer, d) /\ AnswersFrom(toClient', toClient, d)
    BY <1>6, <2>1, <2>2
  <2> QED
    BY <1>4, <1>5, <2>1, <2>3, SameOrder
<1>9. CASE Sending
  <2>1. PICK type \in {"track", "untrack"} : toServer' = Append(toServer, [type |-> type])
    BY <1>9 DEF Sending
  <2>2. ~IsJoin([type |-> type])
    BY DEF IsJoin
  <2>3. UNCHANGED <<lastRef, joinRef, ackedRef, joining, toClient>>
    BY <1>9 DEF Sending, joinVars
  <2>4. JoinsFrom(toServer', toServer, d) /\ AnswersFrom(toClient', toClient, d)
    BY <1>6, <2>1, <2>2, <2>3
  <2> QED
    BY <1>4, <1>5, <2>3, <2>4, SameOrder
<1>10. CASE Registering
  <2>1. PICK f : f = [type |-> "ack", ref |-> toServer[1].ref]
    OBVIOUS
  <2>2. PICK g : g = [type |-> "presence", joins |-> tracked, leaves |-> {}]
    OBVIOUS
  <2>3. /\ Taking /\ IsJoin(toServer[1]) /\ UNCHANGED <<lastRef, joinRef, ackedRef, joining>>
        /\ toClient' = Append(toClient, f) \/ toClient' = Append(Append(toClient, f), g)
    BY <1>10, <2>1, <2>2 DEF Registering, joinVars
  <2>4. f \in ServerFrames
    <3>1. 1 \in DOMAIN toServer
      BY <1>1, <2>3, TailIs DEF Taking
    <3> QED
      BY <2>1, <2>3, <3>1, FramesAre DEF ServerFrames
  <2>5. g \in ServerFrames /\ ~Answers(g)
    BY <2>2, TypeInvIs DEF ServerFrames, Answers, Fields
  <2>6. f.type = "ack" /\ f.ref = toServer[1].ref
    BY <2>1
  <2>7. PICK tc1 : tc1 = Append(toClient, f)
    OBVIOUS
  <2>8. toClient' = tc1 \/ \E h \in ServerFrames : ~Answers(h) /\ toClient' = Append(tc1, h)
    BY <2>3, <2>5, <2>7
  <2> QED
    BY <2>3, <2>4, <2>6, <2>7, <2>8, AnsweredOrdered
<1>11. CASE Refusing
  <2>1. /\ Taking /\ UNCHANGED <<lastRef, joinRef, ackedRef, joining>>
    BY <1>11 DEF Refusing, joinVars
  <2>2. PICK r \in Refs : /\ r = IF IsJoin(toServer[1]) THEN toServer[1].ref ELSE 0
                          /\ toClient' = Append(toClient, [type |-> "refusal", ref |-> r])
    BY <1>11 DEF Refusing
  <2>3. PICK f : f = [type |-> "refusal", ref |-> r]
    OBVIOUS
  <2>4. /\ f \in ServerFrames /\ f.type = "refusal" /\ f.ref = r /\ toClient' = Append(toClient, f)
    BY <2>2, <2>3 DEF ServerFrames
  <2>5. f.ref = IF IsJoin(toServer[1]) THEN toServer[1].ref ELSE 0
    BY <2>2, <2>4
  <2>6. PICK tc1 : tc1 = Append(toClient, f)
    OBVIOUS
  <2>7. toClient' = tc1
    BY <2>4, <2>6
  <2> QED
    BY <2>1, <2>4, <2>5, <2>6, <2>7, AnsweredOrdered
<1>12. CASE Forgetting
  <2>1. UNCHANGED <<lastRef, joinRef, ackedRef, joining, toClient>> /\ toServer # <<>> /\ toServer' = Tail(toServer)
    BY <1>12 DEF Forgetting, Taking, joinVars
  <2>2. JoinsFrom(toServer', toServer, e) /\ AnswersFrom(toClient', toClient, d)
    BY <1>6, <2>1
  <2> QED
    BY <1>4, <1>5, <2>1, <2>2, SameOrder
<1>13. CASE Presenting
  <2>1. /\ UNCHANGED <<lastRef, joinRef, ackedRef, joining>>
        /\ toServer' = toServer \/ (toServer # <<>> /\ toServer' = Tail(toServer))
    BY <1>13 DEF Presenting, Taking, joinVars
  <2>2. JoinsFrom(toServer', toServer, d) \/ JoinsFrom(toServer', toServer, e)
    BY <1>6, <2>1
  <2>3. ASSUME NEW joins, NEW leaves, Telling(joins, leaves) PROVE AnswersFrom(toClient', toClient, d)
    <3>1. ~Answers([type |-> "presence", joins |-> joins, leaves |-> leaves])
      BY DEF Answers
    <3> QED
      BY <1>6, <2>3, <3>1 DEF Telling
  <2>4. AnswersFrom(toClient', toClient, d)
    BY <1>6, <1>13, <2>3 DEF Presenting
  <2> QED
    BY <1>4, <1>5, <2>1, <2>2, <2>4, SameOrder
<1>14. CASE Judging
  <2>1. UNCHANGED <<lastRef, joinRef, ackedRef, joining, toServer>>
    BY <1>14 DEF Judging, joinVars
  <2>2. \A t, u, late : ~Answers([type |-> "row", target |-> t, under |-> u, late |-> late])
    BY DEF Answers
  <2>3. JoinsFrom(toServer', toServer, d) /\ AnswersFrom(toClient', toClient, d)
    BY <1>6, <1>14, <2>1, <2>2 DEF Judging
  <2> QED
    BY <1>4, <1>5, <2>1, <2>3, SameOrder
<1>15. CASE Ignoring \/ Seeing \/ Refused
  <2>1. /\ UNCHANGED <<lastRef, ackedRef, joining, toServer>> /\ toClient # <<>> /\ toClient' = Tail(toClient)
        /\ joinRef' = joinRef \/ joinRef' = 0
    BY <1>15 DEF Ignoring, Seeing, Refused, Hearing, joinVars
  <2>2. JoinsFrom(toServer', toServer, d) /\ AnswersFrom(toClient', toClient, e)
    BY <1>6, <2>1
  <2> QED
    BY <1>4, <1>5, <2>1, <2>2, SameOrder
<1>16. CASE Acknowledged
  <2>1. /\ UNCHANGED <<lastRef, toServer>> /\ toClient # <<>> /\ toClient' = Tail(toClient)
        /\ joinRef' = 0 /\ ackedRef' = joinRef /\ IsAck(toClient[1], joinRef)
    BY <1>16 DEF Acknowledged, Hearing
  <2>2. JoinsFrom(toServer', toServer, d) /\ AnswersFrom(toClient', toClient, e)
    BY <1>6, <2>1
  <2>3. 1 \in DOMAIN toClient
    BY <1>1, <2>1, TailIs
  <2>4. \A i \in DOMAIN toServer : IsJoin(toServer[i]) => ackedRef' < toServer[i].ref
    BY <2>1, <2>3 DEF OrderInv, Answers, IsAck
  <2> QED
    BY <1>4, <2>1, <2>2, <2>4, SameOrder
<1>17. CASE Closing
  <2>1. lastRef' = lastRef /\ joinRef' = 0 /\ ackedRef' = 0 /\ toServer' = <<>> /\ toClient' = <<>>
    BY <1>17 DEF Closing
  <2>2. JoinsFrom(toServer', toServer, d) /\ AnswersFrom(toClient', toClient, d)
    BY <1>6, <2>1
  <2> QED
    BY <1>4, <1>5, <2>1, <2>2, SameOrder
<1>18. CASE Quiet \/ Adding \/ Dropping \/ Committing \/ Opening
  <2>1. UNCHANGED <<lastRef, joinRef, ackedRef, joining, toServer, toClient>>
    BY <1>18 DEF Quiet, Adding, Dropping, Committing, Opening, joinVars
  <2>2. JoinsFrom(toServer', toServer, d) /\ AnswersFrom(toClient', toClient, d)
    BY <1>6, <2>1
  <2> QED
    BY <1>4, <1>5, <2>1, <2>2, SameOrder
<1> QED
  BY <1>7, <1>8, <1>9, <1>10, <1>11, <1>12, <1>13, <1>14, <1>15, <1>16, <1>17, <1>18 DEF Going

-----------------------------------------------------------------------------
(* Rows are of the join they are sent under.                               *)

(* A pair that is of its join stays so. *)
LEMMA CarriedOn ==
    ASSUME TypeInv, PendingInv, Going, NEW t, NEW u \in Nat, OfItsJoin(t, u)
    PROVE  OfItsJoin(t, u)'
<1>1. /\ u <= lastRef /\ (u # 0 /\ u = ackedRef => t = joined) /\ (u # 0 /\ u = joinRef => t = joining)
  BY DEF OfItsJoin
<1>2. CASE Joining
  <2>1. /\ joinRef' = lastRef + 1 /\ lastRef' = lastRef + 1 /\ ackedRef' = ackedRef
        /\ joined' = IF joined = NoTarget THEN joining' ELSE joined
    BY <1>2 DEF Joining
  <2>2. u <= lastRef' /\ u # joinRef'
    BY <1>1, <2>1, Basics
  <2>3. ackedRef # 0 => joined' = joined
    BY <2>1 DEF PendingInv
  <2> QED
    BY <1>1, <2>1, <2>2, <2>3 DEF OfItsJoin
<1>3. CASE Leaving \/ Closing
  <2>1. lastRef' = lastRef /\ joinRef' = 0 /\ ackedRef' = 0
    BY <1>3 DEF Leaving, Closing
  <2> QED
    BY <1>1, <2>1 DEF OfItsJoin
<1>4. CASE Acknowledged
  <2>1. lastRef' = lastRef /\ joinRef' = 0 /\ ackedRef' = joinRef /\ joined' = joining
    BY <1>4 DEF Acknowledged
  <2> QED
    BY <1>1, <2>1 DEF OfItsJoin
<1>5. CASE Refused
  <2>1. UNCHANGED <<lastRef, ackedRef, joined, joining>> /\ joinRef' \in {joinRef, 0}
    BY <1>5 DEF Refused
  <2> QED
    BY <1>1, <2>1 DEF OfItsJoin
<1>6. CASE \/ Quiet \/ Adding \/ Dropping \/ Sending \/ Registering \/ Refusing \/ Forgetting
           \/ Presenting \/ Committing \/ Judging \/ Ignoring \/ Seeing \/ Opening
  <2>1. UNCHANGED <<lastRef, ackedRef, joined, joining, joinRef>>
    BY <1>6 DEF Quiet, Adding, Dropping, Sending, Registering, Refusing, Forgetting,
                Presenting, Committing, Judging, Ignoring, Seeing, Opening, joinVars
  <2> QED
    BY <1>1, <2>1 DEF OfItsJoin
<1> QED
  BY <1>2, <1>3, <1>4, <1>5, <1>6 DEF Going

(* The rows of one queue are rows of the other. *)
RowsFrom(tc2, tc) ==
    \A i \in DOMAIN tc2 : tc2[i].type = "row" => \E k \in DOMAIN tc : tc2[i] = tc[k]

LEMMA RowsFromIs ==
    ASSUME NEW S, NEW q \in Seq(S)
    PROVE  /\ RowsFrom(q, q) /\ RowsFrom(<<>>, q)
           /\ q # <<>> => RowsFrom(Tail(q), q)
           /\ \A f : f.type # "row" => RowsFrom(Append(q, f), q)
           /\ \A f, g : f.type # "row" /\ g.type # "row" => RowsFrom(Append(Append(q, f), g), q)
<1>1. RowsFrom(q, q) /\ RowsFrom(<<>>, q)
  BY DEF RowsFrom
<1>2. ASSUME q # <<>> PROVE RowsFrom(Tail(q), q)
  <2>1. PICK r : r = Tail(q)
    OBVIOUS
  <2>2. \A i \in DOMAIN r : i + 1 \in DOMAIN q /\ r[i] = q[i + 1]
    BY <1>2, <2>1, TailIs
  <2> QED
    BY <2>1, <2>2 DEF RowsFrom
<1>3. ASSUME NEW f, f.type # "row" PROVE RowsFrom(Append(q, f), q)
  <2>1. PICK r : r = Append(q, f)
    OBVIOUS
  <2>2. /\ \A i \in DOMAIN q : r[i] = q[i]
        /\ r[Len(q) + 1] = f
        /\ \A i \in DOMAIN r : i \in DOMAIN q \/ i = Len(q) + 1
    BY <2>1, AppendIs
  <2>3. RowsFrom(r, q)
    BY <1>3, <2>2 DEF RowsFrom
  <2> QED BY <2>1, <2>3
<1>4. ASSUME NEW f, NEW g, f.type # "row", g.type # "row" PROVE RowsFrom(Append(Append(q, f), g), q)
  <2>1. PICK T : T = S \cup {f}
    OBVIOUS
  <2>2. PICK r : r = Append(q, f)
    OBVIOUS
  <2>3. q \in Seq(T) /\ f \in T
    BY <2>1
  <2>4. r \in Seq(T)
    BY <2>2, <2>3, AppendIs
  <2>5. PICK s : s = Append(r, g)
    OBVIOUS
  <2>6. /\ \A i \in DOMAIN r : s[i] = r[i]
        /\ s[Len(r) + 1] = g
        /\ \A i \in DOMAIN s : i \in DOMAIN r \/ i = Len(r) + 1
    BY <2>4, <2>5, AppendIs
  <2>7. RowsFrom(r, q)
    BY <1>3, <1>4, <2>2
  <2>8. RowsFrom(s, q)
    BY <1>4, <2>6, <2>7 DEF RowsFrom
  <2> QED BY <2>2, <2>5, <2>8
<1> QED BY <1>1, <1>2, <1>3, <1>4

(* What the rows of the client's queue were, unless one was just judged. *)
LEMMA RowsComeFrom ==
    ASSUME TypeInv, Going
    PROVE  RowsFrom(toClient', toClient) \/ Judging
<1>1. toClient \in Seq(ServerFrames)
  BY Basics
<1>2. \A j, l : [type |-> "presence", joins |-> j, leaves |-> l].type # "row"
  OBVIOUS
<1>3. CASE Registering
  <2>1. PICK f : f = [type |-> "ack", ref |-> toServer[1].ref]
    OBVIOUS
  <2>2. PICK g : g = [type |-> "presence", joins |-> tracked, leaves |-> {}]
    OBVIOUS
  <2>3. toClient' = Append(toClient, f) \/ toClient' = Append(Append(toClient, f), g)
    BY <1>3, <2>1, <2>2 DEF Registering
  <2>4. f.type # "row" /\ g.type # "row"
    BY <2>1, <2>2
  <2> QED BY <1>1, <2>3, <2>4, RowsFromIs
<1>4. CASE Refusing
  <2>1. PICK r : toClient' = Append(toClient, [type |-> "refusal", ref |-> r])
    BY <1>4 DEF Refusing
  <2>2. [type |-> "refusal", ref |-> r].type # "row"
    OBVIOUS
  <2> QED BY <1>1, <2>1, <2>2, RowsFromIs
<1>5. CASE Presenting
  <2>1. ASSUME NEW joins, NEW leaves, Telling(joins, leaves) PROVE RowsFrom(toClient', toClient)
    BY <1>1, <1>2, <2>1, RowsFromIs DEF Telling
  <2> QED
    BY <1>1, <1>5, <2>1, RowsFromIs DEF Presenting
<1>6. CASE Ignoring \/ Acknowledged \/ Refused \/ Seeing
  BY <1>1, <1>6, RowsFromIs DEF Ignoring, Acknowledged, Refused, Seeing, Hearing
<1>7. CASE Closing
  BY <1>1, <1>7, RowsFromIs DEF Closing
<1>8. CASE Quiet \/ Adding \/ Dropping \/ Joining \/ Leaving \/ Sending \/ Forgetting \/ Committing \/ Opening
  <2>1. toClient' = toClient
    BY <1>8 DEF Quiet, Adding, Dropping, Joining, Leaving, Sending, Forgetting, Committing, Opening
  <2> QED BY <1>1, <2>1, RowsFromIs
<1> QED
  BY <1>3, <1>4, <1>5, <1>6, <1>7, <1>8 DEF Going

LEMMA RowsKept ==
    ASSUME TypeInv, TypeInv', PendingInv, OrderInv, RowsInv, Going
    PROVE  RowsInv'
<1>2. ASSUME NEW t, NEW u \in Nat, OfItsJoin(t, u) PROVE OfItsJoin(t, u)'
  BY <1>2, CarriedOn
<1>3. subRef \in Nat /\ OfItsJoin(sub, subRef)
  BY Basics DEF RowsInv
<1>4. PICK t0 : t0 = sub
  OBVIOUS
<1>5. PICK u0 : u0 = subRef
  OBVIOUS
<1>6. OfItsJoin(t0, u0)'
  BY <1>2, <1>3, <1>4, <1>5
<1>7. OfItsJoin(sub, subRef)'
  <2>1. CASE Registering
    <3>1. PICK t : t = toServer[1].target
      OBVIOUS
    <3>2. PICK u : u = toServer[1].ref
      OBVIOUS
    <3>3. 1 \in DOMAIN toServer /\ IsJoin(toServer[1])
      BY <2>1, Basics, TailIs DEF Registering, Taking
    <3>4. u \in Nat
      BY <3>2, <3>3, FramesAre
    <3>5. OfItsJoin(t, u)
      <4>1. u <= lastRef /\ ackedRef < u /\ (u = joinRef => t = joining)
        BY <3>1, <3>2, <3>3 DEF OrderInv
      <4> QED
        BY <3>4, <4>1, Basics DEF OfItsJoin
    <3>6. OfItsJoin(t, u)'
      BY <1>2, <3>4, <3>5
    <3>7. sub' = t /\ subRef' = u
      BY <2>1, <3>1, <3>2 DEF Registering
    <3> QED
      BY <3>6, <3>7 DEF OfItsJoin
  <2>2. CASE Forgetting \/ Closing
    <3>1. sub' = NoTarget /\ subRef' = 0 /\ lastRef' = lastRef
      BY <2>2 DEF Forgetting, Closing, joinVars
    <3> QED
      BY <3>1, Basics DEF OfItsJoin
  <2>3. CASE \/ Quiet \/ Adding \/ Dropping \/ Joining \/ Leaving \/ Sending \/ Refusing \/ Presenting \/ Committing
             \/ Judging \/ Ignoring \/ Acknowledged \/ Refused \/ Seeing \/ Opening
    <3>1. sub' = sub /\ subRef' = subRef
      BY <2>3 DEF Quiet, Adding, Dropping, Joining, Leaving, Sending, Refusing, Presenting, Committing,
                  Judging, Ignoring, Acknowledged, Refused, Seeing, Opening, serverVars
    <3> QED
      BY <1>4, <1>5, <1>6, <3>1 DEF OfItsJoin
  <2> QED
    BY <2>1, <2>2, <2>3 DEF Going
<1>8. ASSUME NEW row \in judging' PROVE OfItsJoin(row.target, row.under)'
  <2>1. row \in judging \/ (row = [target |-> sub, under |-> subRef])
    <3>1. CASE Committing
      BY <1>8, <3>1 DEF Committing
    <3>2. CASE Judging \/ Closing
      BY <1>8, <3>2 DEF Judging, Closing
    <3>3. CASE \/ Quiet \/ Adding \/ Dropping \/ Joining \/ Leaving \/ Sending \/ Registering \/ Refusing \/ Forgetting
               \/ Presenting \/ Ignoring \/ Acknowledged \/ Refused \/ Seeing \/ Opening
      <4>1. judging' = judging
        BY <3>3 DEF Quiet, Adding, Dropping, Joining, Leaving, Sending, Registering, Refusing, Forgetting,
                    Presenting, Ignoring, Acknowledged, Refused, Seeing, Opening, serverVars
      <4> QED BY <1>8, <4>1
    <3> QED
      BY <3>1, <3>2, <3>3 DEF Going
  <2>2. CASE row \in judging
    <3>1. row.under \in Nat /\ OfItsJoin(row.target, row.under)
      <4>1. row.under \in Refs
        BY <2>2, TypeInvIs DEF Fields
      <4> QED
        BY <2>2, <4>1, ChannelAssumption DEF RowsInv, Refs
    <3> QED
      BY <1>2, <3>1
  <2>3. CASE row = [target |-> sub, under |-> subRef]
    <3>1. row.target = t0 /\ row.under = u0
      BY <1>4, <1>5, <2>3
    <3> QED
      BY <1>6, <3>1
  <2> QED BY <2>1, <2>2, <2>3
<1>9. PICK queue : queue = toClient'
  OBVIOUS
<1>10. ASSUME NEW i \in DOMAIN queue, queue[i].type = "row"
      PROVE  OfItsJoin(queue[i].target, queue[i].under)'
  <2>1. PICK f : f = queue[i]
    OBVIOUS
  <2>2. ASSUME NEW k \in DOMAIN toClient, f = toClient[k] PROVE OfItsJoin(f.target, f.under)'
    <3>1. f \in ServerFrames /\ f.type = "row"
      BY <1>10, <2>1, <2>2, Basics
    <3>2. f.under \in Nat
      BY <3>1, ChannelAssumption DEF ServerFrames, Refs
    <3>3. OfItsJoin(f.target, f.under)
      BY <2>2, <3>1 DEF RowsInv
    <3> QED
      BY <1>2, <3>2, <3>3
  <2>3. CASE RowsFrom(toClient', toClient)
    <3>1. \E k \in DOMAIN toClient : f = toClient[k]
      BY <1>9, <1>10, <2>1, <2>3 DEF RowsFrom
    <3> QED
      BY <2>1, <2>2, <3>1
  <2>4. CASE Judging
    <3>1. CASE toClient' = toClient
      BY <1>9, <1>10, <2>1, <2>2, <3>1
    <3>2. CASE toClient' # toClient
      <4>1. PICK row \in judging, late \in BOOLEAN :
              toClient' = Append(toClient, [type |-> "row", target |-> row.target, under |-> row.under, late |-> late])
        BY <2>4, <3>2 DEF Judging
      <4>2. PICK g : g = [type |-> "row", target |-> row.target, under |-> row.under, late |-> late]
        OBVIOUS
      <4>3. queue = Append(toClient, g)
        BY <1>9, <4>1, <4>2
      <4>4. /\ \A n \in DOMAIN toClient : queue[n] = toClient[n]
            /\ queue[Len(toClient) + 1] = g
            /\ \A n \in DOMAIN queue : n \in DOMAIN toClient \/ n = Len(toClient) + 1
        BY <4>3, Basics, AppendIs
      <4>5. CASE i \in DOMAIN toClient
        BY <2>1, <2>2, <4>4, <4>5
      <4>6. CASE i = Len(toClient) + 1
        <5>1. f.target = row.target /\ f.under = row.under
          BY <2>1, <4>2, <4>4, <4>6
        <5>2. row.under \in Nat /\ OfItsJoin(row.target, row.under)
          <6>1. row.under \in Refs
            BY TypeInvIs DEF Fields
          <6> QED
            BY <6>1, ChannelAssumption DEF RowsInv, Refs
        <5>3. OfItsJoin(row.target, row.under)'
          BY <1>2, <5>2
        <5> QED
          BY <2>1, <5>1, <5>3
      <4> QED
        BY <1>10, <4>4, <4>5, <4>6
    <3> QED BY <3>1, <3>2
  <2> QED
    BY <2>1, <2>3, <2>4, RowsComeFrom
<1> QED
  BY <1>7, <1>8, <1>9, <1>10 DEF RowsInv

-----------------------------------------------------------------------------
(* What the server has registered.                                         *)

LEMMA TailKeeps ==
    ASSUME NEW S, NEW q \in Seq(S), q # <<>>, NEW r, r = Tail(q)
    PROVE  /\ \A n : Covered(q, n) => Covered(r, n)
           /\ NoLeave(q) => NoLeave(r)
           /\ \A n : OnlyJoin(q, n) => OnlyJoin(r, n)
           /\ \A n : AckComes(r, n) => AckComes(q, n)
           /\ \A n : AckComes(q, n) /\ ~IsAck(q[1], n) => AckComes(r, n)
<1>1. /\ \A i \in DOMAIN r : i \in Nat /\ i + 1 \in DOMAIN q /\ r[i] = q[i + 1]
      /\ \A i \in DOMAIN q : i = 1 \/ (i \in Nat /\ i - 1 \in DOMAIN r /\ r[i - 1] = q[i])
      /\ \A i \in DOMAIN q : i \in Nat
  BY TailIs
<1>2. ASSUME NEW n, Covered(q, n), NEW i \in DOMAIN r, r[i].type = "leave"
      PROVE  \E k \in DOMAIN r : i < k /\ IsJoin(r[k]) /\ r[k].ref = n
  <2>1. PICK k \in DOMAIN q : i + 1 < k /\ IsJoin(q[k]) /\ q[k].ref = n
    BY <1>1, <1>2 DEF Covered
  <2>2. k - 1 \in DOMAIN r /\ r[k - 1] = q[k] /\ i < k - 1
    BY <1>1, <2>1
  <2> QED BY <2>1, <2>2
<1>3. \A n : Covered(q, n) => Covered(r, n)
  BY <1>2 DEF Covered
<1>4. NoLeave(q) => NoLeave(r)
  BY <1>1 DEF NoLeave
<1>5. \A n : OnlyJoin(q, n) => OnlyJoin(r, n)
  BY <1>1 DEF OnlyJoin
<1>6. \A n : AckComes(r, n) => AckComes(q, n)
  BY <1>1 DEF AckComes
<1>7. \A n : AckComes(q, n) /\ ~IsAck(q[1], n) => AckComes(r, n)
  BY <1>1 DEF AckComes
<1> QED BY <1>3, <1>4, <1>5, <1>6, <1>7

LEMMA AppendKeeps ==
    ASSUME NEW S, NEW q \in Seq(S), NEW f, NEW r, r = Append(q, f)
    PROVE  /\ \A n : Covered(q, n) /\ f.type # "leave" => Covered(r, n)
           /\ IsJoin(f) => Covered(r, f.ref)
           /\ NoLeave(q) /\ f.type # "leave" => NoLeave(r)
           /\ \A n : OnlyJoin(q, n) /\ (IsJoin(f) => f.ref = n) => OnlyJoin(r, n)
           /\ \A n : AckComes(r, n) <=> AckComes(q, n) \/ IsAck(f, n)
<1>1. /\ Len(q) \in Nat /\ DOMAIN q = 1 .. Len(q) /\ DOMAIN r = 1 .. Len(q) + 1
      /\ \A i \in DOMAIN q : i \in DOMAIN r /\ r[i] = q[i]
      /\ r[Len(q) + 1] = f
      /\ \A i \in DOMAIN r : i \in DOMAIN q \/ i = Len(q) + 1
  BY AppendIs
<1>2. Len(q) + 1 \in DOMAIN r /\ \A i \in DOMAIN q : i < Len(q) + 1
  BY <1>1
<1>3. \A n : Covered(q, n) /\ f.type # "leave" => Covered(r, n)
  BY <1>1 DEF Covered
<1>4. IsJoin(f) => Covered(r, f.ref)
  BY <1>1, <1>2 DEF Covered, IsJoin
<1>5. NoLeave(q) /\ f.type # "leave" => NoLeave(r)
  BY <1>1 DEF NoLeave
<1>6. \A n : OnlyJoin(q, n) /\ (IsJoin(f) => f.ref = n) => OnlyJoin(r, n)
  BY <1>1 DEF OnlyJoin
<1>7. \A n : AckComes(r, n) <=> AckComes(q, n) \/ IsAck(f, n)
  BY <1>1, <1>2 DEF AckComes
<1> QED BY <1>3, <1>4, <1>5, <1>6, <1>7

(* Once the pending join is acknowledged, no join or leave is on its way. *)
LEMMA AnsweredLast ==
    ASSUME TypeInv, PendingInv, OrderInv, RegisteredInv, joinRef # 0,
           AckComes(toClient, joinRef) \/ \E i \in DOMAIN toClient : toClient[i].type = "refusal" /\ toClient[i].ref = joinRef
    PROVE  /\ \A i \in DOMAIN toServer : ~IsJoin(toServer[i])
           /\ NoLeave(toServer)
<1>1. PICK i \in DOMAIN toClient : Answers(toClient[i]) /\ toClient[i].ref = joinRef
  BY DEF AckComes, IsAck, Answers
<1>2. ASSUME NEW k \in DOMAIN toServer, IsJoin(toServer[k]) PROVE FALSE
  <2>1. joinRef < toServer[k].ref /\ toServer[k].ref <= lastRef
    BY <1>1, <1>2 DEF OrderInv
  <2>2. joinRef = lastRef /\ lastRef \in Nat
    BY Basics DEF PendingInv
  <2>3. toServer[k].ref \in Nat
    BY <1>2, FramesAre
  <2> QED BY <2>1, <2>2, <2>3
<1>3. Covered(toServer, joinRef)
  BY DEF RegisteredInv
<1> QED
  BY <1>2, <1>3 DEF Covered, NoLeave

(* The frames say no less of the join pending, nor of the join registered. *)
LEMMA StillRegistered ==
    ASSUME RegisteredInv, UNCHANGED <<subscribed, joined, joinRef, sub, subRef>>,
           joinRef # 0 /\ Covered(toServer, joinRef) => Covered(toServer', joinRef),
           subscribed /\ NoLeave(toServer) => NoLeave(toServer'),
           subscribed /\ OnlyJoin(toServer, joinRef) => OnlyJoin(toServer', joinRef),
           AckComes(toClient', joinRef) => AckComes(toClient, joinRef),
           subscribed /\ AckComes(toClient, joinRef) => AckComes(toClient', joinRef)
    PROVE  RegisteredInv'
<1>1. PICK ts2 : ts2 = toServer'
  OBVIOUS
<1>2. PICK tc2 : tc2 = toClient'
  OBVIOUS
<1>3. /\ joinRef # 0 => Covered(ts2, joinRef)
      /\ joinRef # 0 /\ AckComes(tc2, joinRef) => subRef = joinRef
      /\ subscribed => /\ NoLeave(ts2) /\ OnlyJoin(ts2, joinRef) /\ sub # NoTarget
                       /\ sub = joined \/ (joinRef # 0 /\ AckComes(tc2, joinRef))
  BY <1>1, <1>2 DEF RegisteredInv
<1> QED
  BY <1>1, <1>2, <1>3 DEF RegisteredInv

LEMMA RegisteredKept ==
    ASSUME TypeInv, PendingInv, OrderInv, RowsInv, RegisteredInv, Going
    PROVE  RegisteredInv'
<1>1. toServer \in Seq(ClientFrames) /\ toClient \in Seq(ServerFrames)
  BY Basics
<1>2. PICK ts2 : ts2 = toServer'
  OBVIOUS
<1>3. PICK tc2 : tc2 = toClient'
  OBVIOUS
<1>4. ASSUME /\ joinRef' # 0 => Covered(ts2, joinRef')
             /\ joinRef' # 0 /\ AckComes(tc2, joinRef') => subRef' = joinRef'
             /\ subscribed' => /\ NoLeave(ts2) /\ OnlyJoin(ts2, joinRef') /\ sub' # NoTarget
                               /\ sub' = joined' \/ (joinRef' # 0 /\ AckComes(tc2, joinRef'))
      PROVE  RegisteredInv'
  BY <1>2, <1>3, <1>4 DEF RegisteredInv
<1>5. CASE Joining
  <2>1. PICK n : n = lastRef + 1
    OBVIOUS
  <2>2. PICK f : f = [type |-> "join", target |-> joining', ref |-> n]
    OBVIOUS
  <2>3. /\ ~subscribed' \/ (subscribed /\ ~joinSent)
        /\ joinRef' = n /\ joined' = (IF joined = NoTarget THEN joining' ELSE joined)
        /\ ts2 = Append(toServer, f) /\ tc2 = toClient /\ sub' = sub /\ subRef' = subRef
    BY <1>2, <1>3, <1>5, <2>1, <2>2 DEF Joining, serverVars
  <2>4. IsJoin(f) /\ f.ref = n /\ f.type # "leave"
    BY <2>2 DEF IsJoin
  <2>5. Covered(ts2, n) /\ (NoLeave(toServer) => NoLeave(ts2)) /\ (OnlyJoin(toServer, n) => OnlyJoin(ts2, n))
    <3>1. /\ IsJoin(f) => Covered(ts2, f.ref)
          /\ NoLeave(toServer) /\ f.type # "leave" => NoLeave(ts2)
          /\ \A m : OnlyJoin(toServer, m) /\ (IsJoin(f) => f.ref = m) => OnlyJoin(ts2, m)
      BY <1>1, <2>3, AppendKeeps
    <3> QED BY <2>4, <3>1
  <2>6. ~AckComes(tc2, n)
    <3>1. \A i \in DOMAIN toClient : Answers(toClient[i]) => toClient[i].ref <= lastRef /\ toClient[i].ref \in Nat
      BY FramesAre DEF OrderInv
    <3>2. \A i \in DOMAIN toClient : Answers(toClient[i]) => toClient[i].ref # n
      BY <2>1, <3>1, Basics
    <3> QED
      BY <2>3, <3>2 DEF AckComes, IsAck, Answers
  <2>7. CASE subscribed'
    <3>1. subscribed /\ ~joinSent /\ joinRef = 0 /\ joined # NoTarget
      BY <2>3, <2>7 DEF PendingInv
    <3>2. NoLeave(toServer) /\ OnlyJoin(toServer, 0) /\ sub # NoTarget /\ sub = joined
      BY <3>1 DEF RegisteredInv
    <3>3. OnlyJoin(toServer, n)
      <4>1. \A i \in DOMAIN toServer : ~IsJoin(toServer[i])
        BY <3>2, FramesAre DEF OnlyJoin
      <4> QED BY <4>1 DEF OnlyJoin
    <3> QED
      BY <1>4, <2>3, <2>5, <2>6, <3>1, <3>2, <3>3
  <2>8. CASE ~subscribed'
    BY <1>4, <2>3, <2>5, <2>6, <2>8
  <2> QED BY <2>7, <2>8
<1>6. CASE Leaving \/ Closing
  BY <1>4, <1>6 DEF Leaving, Closing
<1>7. CASE Sending
  <2>1. PICK type \in {"track", "untrack"} : toServer' = Append(toServer, [type |-> type])
    BY <1>7 DEF Sending
  <2>2. PICK f : f = [type |-> type]
    OBVIOUS
  <2>3. ~IsJoin(f) /\ f.type # "leave" /\ ts2 = Append(toServer, f)
    BY <1>2, <2>1, <2>2 DEF IsJoin
  <2>4. UNCHANGED <<subscribed, joined, joinRef, sub, subRef, toClient>>
    BY <1>7 DEF Sending, joinVars, serverVars
  <2>5. /\ Covered(toServer, joinRef) => Covered(ts2, joinRef)
        /\ NoLeave(toServer) => NoLeave(ts2)
        /\ OnlyJoin(toServer, joinRef) => OnlyJoin(ts2, joinRef)
    BY <1>1, <2>3, AppendKeeps
  <2> QED
    BY <1>2, <2>4, <2>5, StillRegistered
<1>8. CASE Registering
  <2>1. PICK join : join = toServer[1]
    OBVIOUS
  <2>2. PICK f : f = [type |-> "ack", ref |-> join.ref]
    OBVIOUS
  <2>3. PICK g : g = [type |-> "presence", joins |-> tracked, leaves |-> {}]
    OBVIOUS
  <2>4. /\ toServer # <<>> /\ ts2 = Tail(toServer) /\ IsJoin(join) /\ sub' = join.target /\ subRef' = join.ref
        /\ tc2 = Append(toClient, f) \/ tc2 = Append(Append(toClient, f), g)
        /\ UNCHANGED <<subscribed, joined, joinRef>>
    BY <1>2, <1>3, <1>8, <2>1, <2>2, <2>3 DEF Registering, Taking, joinVars
  <2>5. 1 \in DOMAIN toServer
    BY <1>1, <2>4, TailIs
  <2>6. join.target \in Targets /\ join.ref \in Nat /\ join.ref # 0 /\ join.ref <= lastRef
    BY <2>1, <2>4, <2>5, FramesAre DEF OrderInv
  <2>7. /\ \A n : Covered(toServer, n) => Covered(ts2, n)
        /\ NoLeave(toServer) => NoLeave(ts2)
        /\ \A n : OnlyJoin(toServer, n) => OnlyJoin(ts2, n)
    BY <1>1, <2>4, TailKeeps
  <2>8. \A n : AckComes(tc2, n) <=> AckComes(toClient, n) \/ n = join.ref
    <3>1. PICK tc1 : tc1 = Append(toClient, f)
      OBVIOUS
    <3>2. f \in ServerFrames
      BY <2>1, <2>2, <2>4, <2>5, FramesAre DEF ServerFrames
    <3>3. tc1 \in Seq(ServerFrames)
      BY <1>1, <3>1, <3>2, AppendIs
    <3>4. \A n : AckComes(tc1, n) <=> AckComes(toClient, n) \/ IsAck(f, n)
      BY <1>1, <3>1, AppendKeeps
    <3>5. \A n : (IsAck(f, n) <=> n = join.ref) /\ ~IsAck(g, n)
      BY <2>2, <2>3 DEF IsAck
    <3>6. CASE tc2 = tc1
      BY <3>4, <3>5, <3>6
    <3>7. CASE tc2 = Append(tc1, g)
      <4>1. \A n : AckComes(tc2, n) <=> AckComes(tc1, n) \/ IsAck(g, n)
        BY <3>3, <3>7, AppendKeeps
      <4> QED BY <3>4, <3>5, <4>1
    <3> QED BY <2>4, <3>1, <3>6, <3>7
  <2>9. joinRef # 0 /\ AckComes(tc2, joinRef) => join.ref = joinRef
    <3>1. ASSUME joinRef # 0, AckComes(toClient, joinRef) PROVE FALSE
      BY <2>1, <2>4, <2>5, <3>1, AnsweredLast
    <3> QED BY <2>8, <3>1
  <2>10. CASE subscribed
    <3>1. NoLeave(toServer) /\ OnlyJoin(toServer, joinRef)
      BY <2>10 DEF RegisteredInv
    <3>2. join.ref = joinRef
      BY <2>1, <2>4, <2>5, <3>1 DEF OnlyJoin
    <3> QED
      BY <1>4, <2>4, <2>6, <2>7, <2>8, <2>9, <3>1, <3>2, ChannelAssumption DEF RegisteredInv
  <2>11. CASE ~subscribed
    BY <1>4, <2>4, <2>7, <2>9, <2>11 DEF RegisteredInv
  <2> QED BY <2>10, <2>11
<1>9. CASE Refusing
  <2>1. toServer # <<>> /\ ts2 = Tail(toServer) /\ UNCHANGED <<subscribed, joined, joinRef, sub, subRef>>
    BY <1>2, <1>9 DEF Refusing, Taking, joinVars, serverVars
  <2>2. PICK r \in Refs : toClient' = Append(toClient, [type |-> "refusal", ref |-> r])
    BY <1>9 DEF Refusing
  <2>3. PICK f : f = [type |-> "refusal", ref |-> r]
    OBVIOUS
  <2>4. \A n : ~IsAck(f, n)
    BY <2>3 DEF IsAck
  <2>5. tc2 = Append(toClient, f)
    BY <1>3, <2>2, <2>3
  <2>6. \A n : AckComes(tc2, n) <=> AckComes(toClient, n)
    BY <1>1, <2>4, <2>5, AppendKeeps
  <2>7. /\ \A n : Covered(toServer, n) => Covered(ts2, n)
        /\ NoLeave(toServer) => NoLeave(ts2)
        /\ \A n : OnlyJoin(toServer, n) => OnlyJoin(ts2, n)
    BY <1>1, <2>1, TailKeeps
  <2> QED
    BY <1>2, <1>3, <2>1, <2>6, <2>7, StillRegistered
<1>10. CASE Forgetting
  <2>1. /\ toServer # <<>> /\ ts2 = Tail(toServer) /\ toServer[1].type = "leave" /\ tc2 = toClient
        /\ UNCHANGED <<subscribed, joined, joinRef>>
    BY <1>2, <1>3, <1>10 DEF Forgetting, Taking, joinVars
  <2>2. 1 \in DOMAIN toServer
    BY <1>1, <2>1, TailIs
  <2>3. ~NoLeave(toServer)
    BY <2>1, <2>2 DEF NoLeave
  <2>4. ~subscribed
    BY <2>3 DEF RegisteredInv
  <2>5. ~(joinRef # 0 /\ AckComes(toClient, joinRef))
    BY <2>3, AnsweredLast
  <2>6. joinRef # 0 => Covered(ts2, joinRef)
    BY <1>1, <2>1, TailKeeps DEF RegisteredInv
  <2> QED
    BY <1>4, <2>1, <2>4, <2>5, <2>6
<1>11. CASE Presenting
  <2>1. /\ UNCHANGED <<subscribed, joined, joinRef, sub, subRef>>
        /\ ts2 = toServer \/ (toServer # <<>> /\ ts2 = Tail(toServer))
    BY <1>2, <1>11 DEF Presenting, Taking, joinVars
  <2>2. ASSUME NEW joins, NEW leaves, Telling(joins, leaves)
        PROVE  \A n : AckComes(tc2, n) <=> AckComes(toClient, n)
    <3>1. PICK f : f = [type |-> "presence", joins |-> joins, leaves |-> leaves]
      OBVIOUS
    <3>2. \A n : ~IsAck(f, n)
      BY <3>1 DEF IsAck
    <3>3. tc2 = toClient \/ tc2 = Append(toClient, f)
      BY <1>3, <2>2, <3>1 DEF Telling
    <3>4. CASE tc2 = Append(toClient, f)
      BY <1>1, <3>2, <3>4, AppendKeeps
    <3> QED BY <3>3, <3>4
  <2>3. \A n : AckComes(tc2, n) <=> AckComes(toClient, n)
    BY <1>3, <1>11, <2>2 DEF Presenting
  <2>4. /\ \A n : Covered(toServer, n) => Covered(ts2, n)
        /\ NoLeave(toServer) => NoLeave(ts2)
        /\ \A n : OnlyJoin(toServer, n) => OnlyJoin(ts2, n)
    BY <1>1, <2>1, TailKeeps
  <2> QED
    BY <1>2, <1>3, <2>1, <2>3, <2>4, StillRegistered
<1>12. CASE Judging
  <2>1. UNCHANGED <<subscribed, joined, joinRef, sub, subRef, toServer>>
    BY <1>12 DEF Judging, joinVars
  <2>2. ASSUME NEW row \in judging, NEW late \in BOOLEAN,
               toClient' = Append(toClient, [type |-> "row", target |-> row.target,
                                             under |-> row.under, late |-> late])
        PROVE  \A n : AckComes(tc2, n) <=> AckComes(toClient, n)
    <3>1. PICK f : f = [type |-> "row", target |-> row.target, under |-> row.under, late |-> late]
      OBVIOUS
    <3>2. \A n : ~IsAck(f, n)
      BY <3>1 DEF IsAck
    <3>3. tc2 = Append(toClient, f)
      BY <1>3, <2>2, <3>1
    <3> QED
      BY <1>1, <3>2, <3>3, AppendKeeps
  <2>3. \A n : AckComes(tc2, n) <=> AckComes(toClient, n)
    BY <1>3, <1>12, <2>2 DEF Judging
  <2> QED
    BY <1>2, <1>3, <2>1, <2>3, StillRegistered
<1>13. CASE Ignoring \/ Seeing
  <2>1. /\ UNCHANGED <<subscribed, joined, joinRef, sub, subRef, toServer>>
        /\ toClient # <<>> /\ tc2 = Tail(toClient)
        /\ IsAck(toClient[1], joinRef) => ~subscribed
    BY <1>3, <1>13 DEF Ignoring, Seeing, Hearing, IsAck, joinVars, serverVars
  <2>2. /\ AckComes(tc2, joinRef) => AckComes(toClient, joinRef)
        /\ subscribed /\ AckComes(toClient, joinRef) => AckComes(tc2, joinRef)
    BY <1>1, <2>1, TailKeeps
  <2> QED
    BY <1>2, <1>3, <2>1, <2>2, StillRegistered
<1>14. CASE Acknowledged
  <2>1. /\ toClient # <<>> /\ IsAck(toClient[1], joinRef) /\ joinRef # 0
        /\ joinRef' = 0 /\ joined' = joining /\ ts2 = toServer /\ sub' = sub
    BY <1>2, <1>14 DEF Acknowledged, Hearing, serverVars
  <2>2. 1 \in DOMAIN toClient
    BY <1>1, <2>1, TailIs
  <2>3. AckComes(toClient, joinRef)
    BY <2>1, <2>2 DEF AckComes
  <2>4. subRef = joinRef /\ sub = joining /\ sub # NoTarget
    <3>1. subRef = joinRef
      BY <2>1, <2>3 DEF RegisteredInv
    <3>2. sub = joining
      BY <2>1, <3>1 DEF RowsInv, OfItsJoin
    <3> QED
      BY <2>1, <3>1, <3>2 DEF PendingInv
  <2>5. NoLeave(ts2) /\ OnlyJoin(ts2, joinRef')
    BY <2>1, <2>3, AnsweredLast DEF OnlyJoin
  <2> QED
    BY <1>4, <2>1, <2>4, <2>5
<1>15. CASE Refused
  <2>1. /\ toClient # <<>> /\ tc2 = Tail(toClient) /\ toClient[1].type = "refusal"
        /\ joinRef' = joinRef \/ (toClient[1].ref = joinRef /\ joinRef # 0 /\ joinRef' = 0)
        /\ UNCHANGED <<subscribed, joined, sub, subRef, toServer>>
    BY <1>3, <1>15 DEF Refused, Hearing, serverVars
  <2>2. 1 \in DOMAIN toClient /\ ~IsAck(toClient[1], joinRef)
    BY <1>1, <2>1, TailIs DEF IsAck
  <2>3. AckComes(tc2, joinRef) <=> AckComes(toClient, joinRef)
    BY <1>1, <2>1, <2>2, TailKeeps
  <2>4. CASE joinRef' = joinRef
    BY <1>2, <1>3, <2>1, <2>3, <2>4, StillRegistered
  <2>5. CASE toClient[1].ref = joinRef /\ joinRef # 0 /\ joinRef' = 0
    <3>1. ~AckComes(toClient, joinRef)
      BY <2>1, <2>2, <2>5 DEF AckComes, IsAck, OrderInv
    <3>2. \A i \in DOMAIN toServer : ~IsJoin(toServer[i])
      BY <2>1, <2>2, <2>5, AnsweredLast
    <3>3. OnlyJoin(ts2, 0) /\ ts2 = toServer
      BY <1>2, <2>1, <3>2 DEF OnlyJoin
    <3>4. subscribed' => /\ NoLeave(ts2) /\ sub' # NoTarget /\ sub' = joined'
      BY <2>1, <3>1, <3>3 DEF RegisteredInv
    <3> QED
      BY <1>4, <2>5, <3>3, <3>4
  <2> QED BY <2>1, <2>4, <2>5
<1>16. CASE Quiet \/ Adding \/ Dropping \/ Committing \/ Opening
  <2>1. UNCHANGED <<subscribed, joined, joinRef, sub, subRef, toServer, toClient>>
    BY <1>16 DEF Quiet, Adding, Dropping, Committing, Opening, joinVars, serverVars
  <2> QED
    BY <2>1, StillRegistered
<1> QED
  BY <1>5, <1>6, <1>7, <1>8, <1>9, <1>10, <1>11, <1>12, <1>13, <1>14, <1>15, <1>16 DEF Going

-----------------------------------------------------------------------------
(* Who is present.                                                         *)

LEMMA TailShows ==
    ASSUME NEW S, NEW q \in Seq(S), q # <<>>, NEW r, r = Tail(q)
    PROVE  /\ \A p : Corrected(q, p) => Corrected(r, p)
           /\ \A n, p : ToldAfter(q, n, p) => ToldAfter(r, n, p)
           /\ \A p : Shown(q, p) => Shows(q[1], p) \/ Shown(r, p)
           /\ \A p : ShownLater(q, 1, p) => Shown(r, p)
<1>1. /\ 1 \in DOMAIN q
      /\ \A i \in DOMAIN r : i \in Nat /\ i + 1 \in DOMAIN q /\ r[i] = q[i + 1]
      /\ \A i \in DOMAIN q : i = 1 \/ (i \in Nat /\ i - 1 \in DOMAIN r /\ r[i - 1] = q[i])
      /\ \A i \in DOMAIN q : i \in Nat
  BY TailIs
<1>2. ASSUME NEW p, NEW i \in DOMAIN r, ShownLater(q, i + 1, p) PROVE ShownLater(r, i, p)
  <2>1. PICK k \in DOMAIN q : i + 1 < k /\ Shows(q[k], p)
    BY <1>2 DEF ShownLater
  <2>2. k - 1 \in DOMAIN r /\ r[k - 1] = q[k] /\ i < k - 1
    BY <1>1, <2>1
  <2> QED BY <2>1, <2>2 DEF ShownLater
<1>3. \A p : Corrected(q, p) => Corrected(r, p)
  BY <1>1, <1>2 DEF Corrected
<1>4. \A n, p : ToldAfter(q, n, p) => ToldAfter(r, n, p)
  BY <1>1, <1>2 DEF ToldAfter
<1>5. \A p : Shown(q, p) => Shows(q[1], p) \/ Shown(r, p)
  BY <1>1 DEF Shown
<1>6. ASSUME NEW p, ShownLater(q, 1, p) PROVE Shown(r, p)
  <2>1. PICK k \in DOMAIN q : 1 < k /\ Shows(q[k], p)
    BY <1>6 DEF ShownLater
  <2>2. k # 1
    BY <2>1
  <2> QED
    BY <1>1, <2>1, <2>2 DEF Shown
<1> QED BY <1>3, <1>4, <1>5, <1>6

LEMMA AppendShows ==
    ASSUME NEW S, NEW q \in Seq(S), NEW f, NEW r, r = Append(q, f), NEW p
    PROVE  /\ Corrected(q, p) /\ ~Hides(f, p) => Corrected(r, p)
           /\ \A n : ToldAfter(q, n, p) /\ ~IsAck(f, n) => ToldAfter(r, n, p)
           /\ Shown(q, p) => Shown(r, p)
           /\ Shows(f, p) /\ ~Hides(f, p) => /\ Corrected(r, p) /\ Shown(r, p)
                                             /\ \A n : ToldAfter(r, n, p)
<1>1. /\ Len(q) \in Nat /\ DOMAIN q = 1 .. Len(q)
      /\ \A i \in DOMAIN q : i \in DOMAIN r /\ r[i] = q[i]
      /\ r[Len(q) + 1] = f
      /\ \A i \in DOMAIN r : i \in DOMAIN q \/ i = Len(q) + 1
      /\ DOMAIN r = 1 .. Len(q) + 1
  BY AppendIs
<1>2. Len(q) + 1 \in DOMAIN r /\ \A i \in DOMAIN q : i < Len(q) + 1
  BY <1>1
<1>3. ASSUME NEW i \in DOMAIN q, ShownLater(q, i, p) PROVE ShownLater(r, i, p)
  BY <1>1, <1>3 DEF ShownLater
<1>4. Corrected(q, p) /\ ~Hides(f, p) => Corrected(r, p)
  BY <1>1, <1>3 DEF Corrected
<1>5. \A n : ToldAfter(q, n, p) /\ ~IsAck(f, n) => ToldAfter(r, n, p)
  BY <1>1, <1>3 DEF ToldAfter
<1>6. Shown(q, p) => Shown(r, p)
  BY <1>1 DEF Shown
<1>7. ASSUME Shows(f, p), ~Hides(f, p) PROVE Corrected(r, p) /\ Shown(r, p) /\ \A n : ToldAfter(r, n, p)
  <2>1. \A i \in DOMAIN q : ShownLater(r, i, p)
    BY <1>1, <1>2, <1>7 DEF ShownLater
  <2>2. \A n : ~IsAck(f, n)
    BY <1>7 DEF Shows, IsAck
  <2> QED
    BY <1>1, <1>2, <1>7, <2>1, <2>2 DEF Corrected, Shown, ToldAfter
<1> QED BY <1>4, <1>5, <1>6, <1>7

(* A frame that says nothing of presence. *)
LEMMA PresenceSilent ==
    ASSUME TypeInv, PresenceInv, NEW f \in ServerFrames, f.type # "presence", ~IsAck(f, joinRef),
           toClient' = Append(toClient, f),
           UNCHANGED <<sub, joinRef, subscribed, members, tracked>>
    PROVE  PresenceInv'
<1>1. PICK r : r = toClient'
  OBVIOUS
<1>2. toClient \in Seq(ServerFrames) /\ r = Append(toClient, f)
  BY <1>1, Basics
<1>3. \A p : ~Hides(f, p)
  BY DEF Hides
<1>4. ASSUME NEW p \in tracked
      PROVE  /\ Corrected(toClient, p) => Corrected(r, p)
             /\ ToldAfter(toClient, joinRef, p) => ToldAfter(r, joinRef, p)
             /\ Shown(toClient, p) => Shown(r, p)
  BY <1>2, <1>3, AppendShows
<1>5. /\ sub # NoTarget => \A p \in tracked : Corrected(r, p)
      /\ joinRef # 0 => \A p \in tracked : ToldAfter(r, joinRef, p)
      /\ subscribed => \A p \in tracked : members[p] > 0 \/ Shown(r, p)
  BY <1>4 DEF PresenceInv
<1> QED
  BY <1>1, <1>5 DEF PresenceInv

LEMMA PresenceKept ==
    ASSUME TypeInv, PendingInv, OrderInv, RegisteredInv, PresenceInv, Going
    PROVE  PresenceInv'
<1>1. toClient \in Seq(ServerFrames) /\ tracked \subseteq Everyone
  BY Basics, TypeInvIs DEF Fields
<1>2. PICK r : r = toClient'
  OBVIOUS
<1>3. ASSUME /\ sub' # NoTarget => \A p \in tracked' : Corrected(r, p)
             /\ joinRef' # 0 => \A p \in tracked' : ToldAfter(r, joinRef', p)
             /\ subscribed' => \A p \in tracked' : members'[p] > 0 \/ Shown(r, p)
      PROVE  PresenceInv'
  BY <1>2, <1>3 DEF PresenceInv
<1>4. CASE Joining
  <2>1. PICK n : n = lastRef + 1
    OBVIOUS
  <2>2. /\ r = toClient /\ sub' = sub /\ tracked' = tracked /\ joinRef' = n
        /\ subscribed' => subscribed /\ members' = members
    BY <1>2, <1>4, <2>1 DEF Joining, serverVars
  <2>3. \A i \in DOMAIN toClient : ~IsAck(toClient[i], n)
    <3>1. \A i \in DOMAIN toClient : Answers(toClient[i]) => toClient[i].ref <= lastRef /\ toClient[i].ref \in Nat
      BY FramesAre DEF OrderInv
    <3>2. \A i \in DOMAIN toClient : Answers(toClient[i]) => toClient[i].ref # n
      BY <2>1, <3>1, Basics
    <3> QED
      BY <3>2 DEF IsAck, Answers
  <2>4. \A p : ToldAfter(r, n, p)
    BY <2>2, <2>3 DEF ToldAfter
  <2> QED
    BY <1>3, <2>2, <2>4 DEF PresenceInv
<1>5. CASE Leaving
  <2>1. r = toClient /\ sub' = sub /\ tracked' = tracked /\ joinRef' = 0 /\ ~subscribed'
    BY <1>2, <1>5 DEF Leaving, serverVars
  <2> QED
    BY <1>3, <2>1 DEF PresenceInv
<1>6. CASE Closing
  <2>1. sub' = NoTarget /\ joinRef' = 0 /\ ~subscribed'
    BY <1>6 DEF Closing
  <2> QED
    BY <1>3, <2>1
<1>7. CASE Registering
  <2>1. tracked' = tracked
    BY <1>7 DEF Registering
  <2>2. CASE tracked = {}
    BY <1>3, <2>1, <2>2
  <2>3. CASE tracked # {}
    <3>1. PICK f : f = [type |-> "ack", ref |-> toServer[1].ref]
      OBVIOUS
    <3>2. PICK g : g = [type |-> "presence", joins |-> tracked, leaves |-> {}]
      OBVIOUS
    <3>3. r = Append(Append(toClient, f), g)
      BY <1>2, <1>7, <2>3, <3>1, <3>2 DEF Registering
    <3>4. PICK q : q = Append(toClient, f)
      OBVIOUS
    <3>5. q \in Seq(ServerFrames \cup {f})
      BY <1>1, <3>4
    <3>6. ASSUME NEW p \in tracked PROVE Corrected(r, p) /\ Shown(r, p) /\ \A n : ToldAfter(r, n, p)
      <4>1. Shows(g, p) /\ ~Hides(g, p)
        BY <3>2 DEF Shows, Hides
      <4>2. r = Append(q, g)
        BY <3>3, <3>4
      <4> QED
        BY <3>5, <4>1, <4>2, AppendShows
    <3> QED
      BY <1>3, <2>1, <3>6
  <2> QED BY <2>2, <2>3
<1>8. CASE Refusing
  <2>1. PICK ref \in Refs : toClient' = Append(toClient, [type |-> "refusal", ref |-> ref])
    BY <1>8 DEF Refusing
  <2>2. PICK f : f = [type |-> "refusal", ref |-> ref]
    OBVIOUS
  <2>3. f \in ServerFrames /\ f.type # "presence" /\ ~IsAck(f, joinRef) /\ toClient' = Append(toClient, f)
    BY <2>1, <2>2 DEF ServerFrames, IsAck
  <2>4. UNCHANGED <<sub, joinRef, subscribed, members, tracked>>
    BY <1>8 DEF Refusing, joinVars, serverVars
  <2> QED
    BY <2>3, <2>4, PresenceSilent
<1>9. CASE Forgetting
  <2>1. sub' = NoTarget /\ tracked' \subseteq tracked /\ r = toClient /\ UNCHANGED <<joinRef, subscribed, members>>
    BY <1>2, <1>9 DEF Forgetting, joinVars
  <2> QED
    BY <1>3, <2>1 DEF PresenceInv
<1>10. CASE Presenting
  <2>1. UNCHANGED <<sub, joinRef, subscribed, members>>
    BY <1>10 DEF Presenting, joinVars
  <2>2. CASE UNCHANGED <<tracked, toClient>>
    BY <1>2, <1>3, <2>1, <2>2 DEF PresenceInv
  <2>3. CASE sub = NoTarget
    <3>1. ~subscribed
      BY <2>3 DEF RegisteredInv
    <3>2. ASSUME joinRef # 0 PROVE ~AckComes(toClient, joinRef)
      BY <2>3, <3>2 DEF RegisteredInv, TypeInv
    <3>3. r = toClient
      BY <1>2, <1>10, <2>3 DEF Presenting, Telling
    <3>4. joinRef # 0 => \A p : ToldAfter(r, joinRef, p)
      BY <3>2, <3>3 DEF AckComes, ToldAfter
    <3> QED
      BY <1>3, <2>1, <2>3, <3>1, <3>4
  <2>4. CASE sub # NoTarget
    <3>1. ASSUME NEW joins, NEW leaves, Telling(joins, leaves), joins \cap leaves = {},
                 \A p \in tracked' : p \in joins \/ p \in tracked,
                 \A p \in tracked' : p \notin leaves
          PROVE  PresenceInv'
      <4>1. PICK f : f = [type |-> "presence", joins |-> joins, leaves |-> leaves]
        OBVIOUS
      <4>2. r = Append(toClient, f)
        BY <1>2, <2>4, <3>1, <4>1 DEF Telling
      <4>3. \A n : ~IsAck(f, n)
        BY <4>1 DEF IsAck
      <4>4. ASSUME NEW p \in tracked'
            PROVE  /\ sub # NoTarget => Corrected(r, p)
                   /\ joinRef # 0 => ToldAfter(r, joinRef, p)
                   /\ subscribed => members[p] > 0 \/ Shown(r, p)
        <5>1. ~Hides(f, p)
          BY <3>1, <4>1 DEF Hides
        <5>2. CASE p \in joins
          <6>1. Shows(f, p)
            BY <4>1, <5>2 DEF Shows
          <6> QED
            BY <1>1, <4>2, <5>1, <6>1, AppendShows
        <5>3. CASE p \in tracked
          <6>1. /\ sub # NoTarget => Corrected(toClient, p)
                /\ joinRef # 0 => ToldAfter(toClient, joinRef, p)
                /\ subscribed => members[p] > 0 \/ Shown(toClient, p)
            BY <5>3 DEF PresenceInv
          <6>2. /\ Corrected(toClient, p) => Corrected(r, p)
                /\ ToldAfter(toClient, joinRef, p) => ToldAfter(r, joinRef, p)
                /\ Shown(toClient, p) => Shown(r, p)
            BY <1>1, <4>2, <4>3, <5>1, AppendShows
          <6> QED BY <6>1, <6>2
        <5> QED BY <3>1, <5>2, <5>3
      <4> QED
        BY <1>3, <2>1, <4>4
    <3>2. ASSUME NEW p \in Everyone, tracked' = tracked \cup {p}, Telling({p}, {}) PROVE PresenceInv'
      <4>1. {p} \cap {} = {} /\ \A x \in tracked' : (x \in {p} \/ x \in tracked) /\ x \notin {}
        BY <3>2
      <4> QED BY <3>1, <3>2, <4>1
    <3>3. ASSUME NEW p \in Everyone, tracked' = tracked \ {p}, Telling({}, {p}) PROVE PresenceInv'
      <4>1. {} \cap {p} = {} /\ \A x \in tracked' : (x \in {} \/ x \in tracked) /\ x \notin {p}
        BY <3>3
      <4> QED BY <3>1, <3>3, <4>1
    <3> QED
      BY <1>10, <2>2, <3>2, <3>3 DEF Presenting
  <2> QED BY <2>3, <2>4
<1>11. CASE Judging
  <2>1. UNCHANGED <<sub, joinRef, subscribed, members, tracked>>
    BY <1>11 DEF Judging, joinVars
  <2>2. CASE toClient' = toClient
    BY <1>2, <1>3, <2>1, <2>2 DEF PresenceInv
  <2>3. ASSUME NEW row \in judging, NEW late \in BOOLEAN,
               toClient' = Append(toClient, [type |-> "row", target |-> row.target,
                                             under |-> row.under, late |-> late])
        PROVE  PresenceInv'
    <3>1. PICK f : f = [type |-> "row", target |-> row.target, under |-> row.under, late |-> late]
      OBVIOUS
    <3>2. row.target \in Targets /\ row.under \in Refs
      BY TypeInvIs DEF Fields
    <3>3. f \in ServerFrames /\ f.type # "presence" /\ ~IsAck(f, joinRef) /\ toClient' = Append(toClient, f)
      BY <2>3, <3>1, <3>2 DEF ServerFrames, IsAck
    <3> QED
      BY <2>1, <3>3, PresenceSilent
  <2> QED
    BY <1>11, <2>2, <2>3 DEF Judging
<1>12. ASSUME Hearing
       PROVE  /\ toClient # <<>> /\ r = Tail(toClient)
              /\ \A p : Corrected(toClient, p) => Corrected(r, p)
              /\ \A n, p : ToldAfter(toClient, n, p) => ToldAfter(r, n, p)
              /\ \A p : Shown(toClient, p) => Shows(toClient[1], p) \/ Shown(r, p)
              /\ \A p : ShownLater(toClient, 1, p) => Shown(r, p)
              /\ 1 \in DOMAIN toClient
  <2>1. toClient # <<>> /\ r = Tail(toClient)
    BY <1>2, <1>12 DEF Hearing
  <2>2. 1 \in DOMAIN toClient
    BY <1>1, <2>1, TailIs
  <2> QED
    BY <1>1, <2>1, <2>2, TailShows
<1>13. CASE Ignoring \/ Refused
  <2>1. /\ Hearing /\ UNCHANGED <<sub, subscribed, members, tracked>> /\ joinRef' \in {joinRef, 0}
        /\ toClient[1].type = "presence" => ~subscribed
    BY <1>13 DEF Ignoring, Refused, joinVars, serverVars
  <2>2. subscribed => \A p : ~Shows(toClient[1], p)
    BY <2>1 DEF Shows
  <2>3. /\ sub # NoTarget => \A p \in tracked : Corrected(r, p)
        /\ joinRef # 0 => \A p \in tracked : ToldAfter(r, joinRef, p)
        /\ subscribed => \A p \in tracked : members[p] > 0 \/ Shown(r, p)
    BY <1>12, <2>1, <2>2 DEF PresenceInv
  <2> QED
    BY <1>3, <2>1, <2>3
<1>14. CASE Acknowledged
  <2>1. Hearing /\ joinRef' = 0 /\ IsAck(toClient[1], joinRef) /\ joinRef # 0 /\ UNCHANGED <<sub, tracked>>
    BY <1>14 DEF Acknowledged, serverVars
  <2>2. \A p \in tracked : ToldAfter(toClient, joinRef, p)
    BY <2>1 DEF PresenceInv
  <2>3. \A p \in tracked : Shown(r, p)
    BY <1>12, <2>1, <2>2 DEF ToldAfter
  <2>4. sub # NoTarget => \A p \in tracked : Corrected(r, p)
    BY <1>12, <2>1 DEF PresenceInv
  <2> QED
    BY <1>3, <2>1, <2>3, <2>4
<1>15. CASE Seeing
  <2>1. Hearing /\ UNCHANGED <<sub, joinRef, subscribed, tracked>> /\ toClient[1].type = "presence"
    BY <1>15 DEF Seeing, joinVars, serverVars
  <2>2. ASSUME subscribed, NEW p \in tracked PROVE members'[p] > 0 \/ Shown(r, p)
    <3>1. sub # NoTarget /\ (members[p] > 0 \/ Shown(toClient, p)) /\ p \in Everyone
      BY <1>1, <2>2 DEF RegisteredInv, PresenceInv
    <3>2. CASE Hides(toClient[1], p)
      <4>1. Corrected(toClient, p)
        BY <3>1, <2>2 DEF PresenceInv
      <4> QED
        BY <1>12, <2>1, <3>2, <4>1 DEF Corrected
    <3>3. CASE ~Hides(toClient[1], p)
      <4>1. p \notin toClient[1].leaves
        BY <2>1, <3>3 DEF Hides
      <4>2. Shows(toClient[1], p) \/ members[p] > 0 => members'[p] > 0
        BY <1>15, <3>1, <4>1 DEF Seeing, Shows
      <4> QED
        BY <1>12, <2>1, <3>1, <4>2
    <3> QED BY <3>2, <3>3
  <2>3. /\ sub # NoTarget => \A p \in tracked : Corrected(r, p)
        /\ joinRef # 0 => \A p \in tracked : ToldAfter(r, joinRef, p)
    BY <1>12, <2>1 DEF PresenceInv
  <2> QED
    BY <1>3, <2>1, <2>2, <2>3
<1>16. CASE Quiet \/ Adding \/ Dropping \/ Sending \/ Committing \/ Opening
  <2>1. UNCHANGED <<sub, joinRef, subscribed, members, tracked, toClient>>
    BY <1>16 DEF Quiet, Adding, Dropping, Sending, Committing, Opening, joinVars, serverVars
  <2> QED
    BY <1>2, <1>3, <2>1 DEF PresenceInv
<1> QED
  BY <1>4, <1>5, <1>6, <1>7, <1>8, <1>9, <1>10, <1>11, <1>13, <1>14, <1>15, <1>16 DEF Going

-----------------------------------------------------------------------------
(* The theorems.                                                           *)

LEMMA InitHolds == Init => ChannelInv
<1> SUFFICES ASSUME Init PROVE ChannelInv
  OBVIOUS
<1>1. TypeInv
  <2>1. IsInjective(<<>>) /\ "none" \in Statuses /\ 0 \in Refs
    BY ChannelAssumption DEF IsInjective, Statuses, Refs
  <2>2. handles \in Seq(Handles) /\ IsInjective(handles)
    BY <2>1 DEF Init
  <2>3. /\ listens \in [Handles -> Targets \cup {NoTarget}] /\ status \in [Handles -> Statuses]
        /\ members \in [Everyone -> Nat]
    BY <2>1 DEF Init
  <2>4. Shape
    <3>1. /\ subscribed = FALSE /\ joinSent = FALSE /\ silentJoin = FALSE /\ up = FALSE
          /\ tracks = 0 /\ losses = 0
      BY DEF Init
    <3>2. tracks \in 0 .. MaxTracks /\ losses \in 0 .. MaxLosses
      BY <3>1, ChannelAssumption
    <3>3. subscribed \in BOOLEAN /\ joinSent \in BOOLEAN /\ silentJoin \in BOOLEAN /\ up \in BOOLEAN
      BY <3>1
    <3> QED
      BY <2>2, <2>3, <3>2, <3>3 DEF Shape
  <2>5. Outgoing /\ Incoming
    BY DEF Init, Outgoing, Incoming
  <2>6. Fields
    BY <2>1, ChannelAssumption DEF Init, Fields
  <2> QED
    BY <2>4, <2>5, <2>6, TypeInvIs
<1>2. SocketInv /\ PendingInv
  BY ChannelAssumption DEF Init, SocketInv, PendingInv
<1>3. OrderInv
  BY DEF Init, OrderInv
<1>4. RowsInv
  BY DEF Init, RowsInv, OfItsJoin
<1>5. RegisteredInv /\ ServedInv /\ PresenceInv
  BY DEF Init, RegisteredInv, ServedInv, PresenceInv
<1> QED
  BY <1>1, <1>2, <1>3, <1>4, <1>5 DEF ChannelInv

LEMMA ChannelInvKept == ChannelInv /\ [Next]_vars => ChannelInv'
<1> SUFFICES ASSUME ChannelInv, [Next]_vars PROVE ChannelInv'
  OBVIOUS
<1>1. TypeInv /\ SocketInv /\ PendingInv /\ OrderInv /\ RowsInv /\ RegisteredInv /\ ServedInv /\ PresenceInv
  BY DEF ChannelInv
<1>2. Going /\ Shape'
  BY <1>1, StepIs, ShapeKept
<1>3. TypeInv'
  BY <1>1, <1>2, TypeInvKept
<1>4. SocketInv' /\ PendingInv' /\ ServedInv'
  BY <1>1, <1>2, SocketKept, PendingKept, ServedKept
<1>5. OrderInv'
  BY <1>1, <1>2, <1>3, OrderKept
<1>6. RowsInv'
  BY <1>1, <1>2, <1>3, RowsKept
<1>7. RegisteredInv' /\ PresenceInv'
  BY <1>1, <1>2, RegisteredKept, PresenceKept
<1> QED
  BY <1>3, <1>4, <1>5, <1>6, <1>7 DEF ChannelInv

LEMMA ChannelInvHolds == Spec => []ChannelInv
BY InitHolds, ChannelInvKept, PTL DEF Spec

(* The fields of a channel (client/src/realtime.ts) and the server's record *)
(* of it keep their types: above all, a channel's joinRef and the ref of the *)
(* join registered are refs that were sent.                                *)
THEOREM TypeCorrect == Spec => []TypeOK
<1>1. ChannelInv => TypeOK
  BY DEF ChannelInv, TypeInv
<1> QED
  BY <1>1, ChannelInvHolds, PTL

(* A row sent while the join the channel had acknowledged last stood is     *)
(* handed by handleChange to listeners for the row's own target, however    *)
(* joins, leaves and rejoins crossed it on the way (sendSubscribe,          *)
(* acknowledgeJoin and deliverIfVisible).                                   *)
THEOREM RowsAreDelivered == Spec => []RowsReachTheirTarget
<1>1. ASSUME ChannelInv PROVE RowsReachTheirTarget
  <2>1. ASSUME toClient # <<>>, Head(toClient).type = "row", ackedRef # 0, Head(toClient).under = ackedRef
        PROVE  joined = Head(toClient).target
    <3>1. 1 \in DOMAIN toClient /\ Head(toClient) = toClient[1]
      BY <1>1, <2>1, Basics, TailIs DEF ChannelInv
    <3>2. OfItsJoin(toClient[1].target, toClient[1].under)
      BY <1>1, <2>1, <3>1 DEF ChannelInv, RowsInv
    <3> QED
      BY <2>1, <3>1, <3>2 DEF OfItsJoin
  <2> QED
    BY <2>1 DEF RowsReachTheirTarget
<1> QED
  BY <1>1, ChannelInvHolds, PTL

(* The join a channel holds is one that a row listener of it is for, if it  *)
(* has had a listener ever since the join was sent: rejoinIfUnheard sees to *)
(* it when the listener the join was made for leaves.                       *)
THEOREM EveryJoinIsHeard == Spec => []ListenersAreServed
<1>1. ASSUME ChannelInv PROVE ListenersAreServed
  <2>1. PICK hs : hs = handles
    OBVIOUS
  <2>2. PICK L : L = Listened
    OBVIOUS
  <2>3. hs \in Seq(Handles) /\ L = Wanted(hs)
    BY <1>1, <2>1, <2>2, Basics DEF ChannelInv, Listened
  <2>4. \A t : listenedTo(hs, t) <=> t \in L
    BY <1>1, <2>3, JoinTargetIs DEF ChannelInv
  <2>5. joinSent /\ ~silentJoin => listenedTo(handles, Held)
    BY <1>1, <2>1, <2>2, <2>4 DEF ChannelInv, ServedInv
  <2> QED
    BY <2>5 DEF ListenersAreServed, Held
<1> QED
  BY <1>1, ChannelInvHolds, PTL

(* With nothing on its way, a channel that reads SUBSCRIBED is registered   *)
(* on the server for the target it hands its rows out as: acknowledgeJoin   *)
(* believes only the answer to the last join it sent.                       *)
THEOREM BothEndsAgree == Spec => []SubscribedIsRegistered
<1>1. ChannelInv => SubscribedIsRegistered
  BY DEF ChannelInv, RegisteredInv, AckComes, SubscribedIsRegistered, settled
<1> QED
  BY <1>1, ChannelInvHolds, PTL

(* With nothing on its way, a subscribed channel knows everyone whose       *)
(* presence the server holds: sendPresenceState follows each acknowledgement, *)
(* and later comings and goings arrive in order.                            *)
THEOREM EveryoneIsKnown == Spec => []NobodyMissing
<1>1. ChannelInv => NobodyMissing
  BY DEF ChannelInv, PresenceInv, Shown, NobodyMissing, settled
<1> QED
  BY <1>1, ChannelInvHolds, PTL

=============================================================================
