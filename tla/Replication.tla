---------------------------- MODULE Replication ----------------------------
(***************************************************************************)
(* The replication listener of packages/realtime/src/replication.ts        *)
(* (ReplicationListener) with the retry of db-retry.ts: the Postgres       *)
(* client that reads the slot, the two loops that may be connecting one    *)
(* (start() and scheduleReconnect()), the poll, stop(), and the advisory   *)
(* lock a schema push holds while it migrates.                             *)
(*                                                                         *)
(* An action is one callback.  node-postgres reports a lost connection as  *)
(* the client's error event and rejects the query waiting on it before any *)
(* other callback runs, so ConnectionBreaks does both; a query cut short   *)
(* by end() is rejected with "Connection terminated", which db-retry does  *)
(* not count as transient.                                                 *)
(***************************************************************************)
EXTENDS Naturals

CONSTANTS
    Conns,          \* pg clients; one closed and let go of may stand for a new one
    NoConn,         \* null
    MayRefuse,      \* whether the database can refuse a connection for good (a wrong password)
    MaxFaults,      \* bound: failed connects, lost connections, terminated queries
    MaxPushes       \* bound: schema pushes

ASSUME ReplicationAssumption ==
    /\ NoConn \notin Conns
    /\ MayRefuse \in BOOLEAN
    /\ MaxFaults \in Nat
    /\ MaxPushes \in Nat

Loops == {"start", "reconnect"}

VARIABLES
    stopped, running, timer, reconnecting, unsupported, sawSchemaPush,  \* fields of that name
    client,         \* this.client
    loop,           \* where each withDatabaseRetry is
    mine,           \* the client of its attempt, or the dead one reconnect is ending
    asked,          \* the client its slot query waits on
    poll,           \* where the poll in flight is; "idle" is ~pollInFlight
    pollOn,         \* the client its query waits on
    stopper,        \* where stop() is
    stopOn,         \* the client it is ending
    (* Postgres *)
    conn,           \* each client's connection
    slotExists,     \* the replication slot has been created
    decodable,      \* the database offers logical decoding
    pushing,        \* a schema push holds the advisory lock
    pushNo,         \* pushes started so far
    slot,           \* rows the slot holds, as how many pushes had ended when each committed
    transit,        \* rows read from the slot, on their way to the poll
    (* Observations *)
    heldSeen,       \* the last push a poll found holding the lock
    announced,      \* how many pushes had ended when onSchemaChange last fired
    lostInStartup,  \* a connection was lost before start() had settled
    faults          \* used up so far

flagVars == <<stopped, running, timer, reconnecting, unsupported>>
loopVars == <<loop, mine, asked>>
pollVars == <<poll, pollOn, transit>>
stopVars == <<stopper, stopOn>>
pushVars == <<pushing, pushNo>>
seenVars == <<sawSchemaPush, heldSeen, announced>>
dbVars   == <<slotExists, decodable, pushVars, slot>>
faultVars == <<lostInStartup, faults>>
vars == <<flagVars, client, loopVars, pollVars, stopVars, conn, dbVars, seenVars, faultVars>>

FlagsOK ==
    /\ stopped \in BOOLEAN /\ running \in BOOLEAN /\ timer \in BOOLEAN /\ reconnecting \in BOOLEAN
    /\ unsupported \in BOOLEAN /\ sawSchemaPush \in BOOLEAN /\ slotExists \in BOOLEAN
    /\ decodable \in BOOLEAN /\ pushing \in BOOLEAN /\ lostInStartup \in BOOLEAN

DataOK ==
    /\ client \in Conns \cup {NoConn}
    /\ loop \in [Loops -> {"idle", "connecting", "checking", "creating", "retrying", "givingUp",
                           "refused", "sleeping", "disposing", "done", "failed"}]
    /\ mine \in [Loops -> Conns \cup {NoConn}]
    /\ asked \in [Loops -> Conns \cup {NoConn}]
    /\ poll \in {"idle", "asking", "reading", "answered"}
    /\ pollOn \in Conns \cup {NoConn}
    /\ stopper \in {"none", "ending", "done"}
    /\ stopOn \in Conns \cup {NoConn}
    /\ conn \in [Conns -> {"closed", "open", "ending"}]
    /\ pushNo \in (IF pushing THEN 1 ELSE 0) .. MaxPushes
    /\ slot \subseteq 0 .. MaxPushes
    /\ transit \subseteq 0 .. MaxPushes
    /\ heldSeen \in 0 .. MaxPushes
    /\ announced \in 0 .. MaxPushes
    /\ faults \in 0 .. MaxFaults

LoopsOK ==
    /\ reconnecting <=> loop["reconnect"] \notin {"idle", "failed"}
    /\ \A l \in Loops : asked[l] # NoConn <=> loop[l] \in {"checking", "creating"}

(* The type invariant, with where a loop is agreeing with what names it. *)
TypeOK == FlagsOK /\ DataOK /\ LoopsOK

Init ==
    /\ stopped = FALSE /\ running = FALSE /\ timer = FALSE /\ reconnecting = FALSE
    /\ unsupported = FALSE /\ sawSchemaPush = FALSE
    /\ client = NoConn
    /\ loop = [l \in Loops |-> "idle"]
    /\ mine = [l \in Loops |-> NoConn]
    /\ asked = [l \in Loops |-> NoConn]
    /\ poll = "idle" /\ pollOn = NoConn /\ transit = {}
    /\ stopper = "none" /\ stopOn = NoConn
    /\ conn = [k \in Conns |-> "closed"]
    /\ slotExists \in BOOLEAN /\ decodable \in BOOLEAN
    /\ pushing = FALSE /\ pushNo = 0
    /\ slot = {}
    /\ heldSeen = 0 /\ announced = 0 /\ lostInStartup = FALSE
    /\ faults = 0

-----------------------------------------------------------------------------
(* Parts of the handlers.                                                  *)

isConnected == running /\ client # NoConn

pushesEnded == IF pushing THEN pushNo - 1 ELSE pushNo

(* A client nobody holds any more, or never did. *)
unheld(c) ==
    /\ conn[c] = "closed"
    /\ c \notin {client, pollOn, stopOn} \cup {mine[l] : l \in Loops} \cup {asked[l] : l \in Loops}

(* Mutant: nobody calls end(). *)
leftOpen(S) == conn

(* The connections after end() is called on the clients of S. *)
ending(S) == [k \in Conns |-> IF k \in S /\ conn[k] = "open" THEN "ending" ELSE conn[k]]

spendFault == faults < MaxFaults /\ faults' = faults + 1

(* Mutant: a reconnect that throws is never over. *)
loopThrowsNoFinally(l) ==
    /\ loop' = [loop EXCEPT ![l] = "failed"]
    /\ UNCHANGED reconnecting

(* withDatabaseRetry throws: start() rejects, a reconnect is over. *)
loopThrows(l) ==
    /\ loop' = [loop EXCEPT ![l] = "failed"]
    /\ reconnecting' = (reconnecting /\ l = "start")

(* withDatabaseRetry after a transient failure. *)
retries(l) ==
    IF stopped
    THEN loopThrows(l)
    ELSE loop' = [loop EXCEPT ![l] = "sleeping"] /\ UNCHANGED reconnecting

(* The catch of connect(): the client is dropped, whoever set it, and the attempt's own ended. *)
attemptFails(l, next) ==
    /\ client' = NoConn
    /\ conn' = ending({mine[l]})
    /\ loop' = [loop EXCEPT ![l] = next]
    /\ asked' = [asked EXCEPT ![l] = NoConn]

(* A query over this.client; a client that lost its connection refuses it at once, and not *)
(* as a transient failure, as does null.                                                    *)
canQuery == client # NoConn /\ conn[client] = "open"

(* poll(), when running and client are set: its first query asks for the push lock. *)
pollBegins ==
    IF poll = "idle" /\ canQuery
    THEN poll' = "asking" /\ pollOn' = client
    ELSE UNCHANGED <<poll, pollOn>>

(* connect() resolved, and with it start() or the reconnect. *)
loopSettles(l) ==
    /\ asked' = [asked EXCEPT ![l] = NoConn]
    /\ mine' = [mine EXCEPT ![l] = NoConn]
    /\ UNCHANGED <<client, stopped, unsupported>>
    /\ \/ /\ l = "start"
          /\ loop' = [loop EXCEPT ![l] = "done"]
          /\ running' = TRUE
          /\ timer' = TRUE
          /\ pollBegins
          /\ UNCHANGED reconnecting
       \/ /\ l = "reconnect"
          /\ loop' = [loop EXCEPT ![l] = "idle"]
          /\ running' = (running \/ ~stopped)
          /\ reconnecting' = FALSE
          /\ UNCHANGED <<timer, poll, pollOn>>

(* Mutant: the error event is logged, and the next poll left to notice. *)
connectionLostLogged(gone, cut) ==
    /\ conn' = [k \in Conns |-> IF k \in gone THEN "closed" ELSE conn[k]]
    /\ loop' = [l \in Loops |-> IF l \in cut THEN "retrying" ELSE loop[l]]
    /\ asked' = [l \in Loops |-> IF l \in cut THEN NoConn ELSE asked[l]]
    /\ client' = IF cut # {} THEN NoConn ELSE client
    /\ UNCHANGED <<stopped, running, timer, reconnecting, unsupported, mine>>

(* scheduleReconnect, then connect() catching what the queries of the loops in cut were        *)
(* rejected with; gone is the connection that broke, if one did.                                *)
connectionLost(gone, cut) ==
    LET reconnects == ~stopped /\ ~reconnecting
        dead == IF reconnects THEN client ELSE NoConn
        after == ending({dead} \cup {mine[l] : l \in cut})
    IN  /\ conn' = [k \in Conns |-> IF k \in gone THEN "closed" ELSE after[k]]
        /\ loop' = [l \in Loops |->
                      IF l \in cut THEN "retrying"
                      ELSE IF l = "start" \/ ~reconnects THEN loop[l]
                      ELSE IF dead = NoConn THEN "connecting" ELSE "disposing"]
        /\ asked' = [l \in Loops |-> IF l \in cut THEN NoConn ELSE asked[l]]
        /\ mine' = IF reconnects THEN [mine EXCEPT !["reconnect"] = dead] ELSE mine
        /\ client' = IF reconnects \/ cut # {} THEN NoConn ELSE client
        /\ running' = (running /\ ~reconnects)
        /\ reconnecting' = (reconnecting \/ reconnects)
        /\ UNCHANGED <<stopped, timer, unsupported>>

pollEnds == poll' = "idle" /\ pollOn' = NoConn /\ transit' = {}

-----------------------------------------------------------------------------
(* Calls: start() once, stop() once.                                       *)

Start ==
    /\ loop["start"] = "idle"
    /\ stopped' = FALSE
    /\ loop' = [loop EXCEPT !["start"] = "connecting"]
    /\ UNCHANGED <<running, timer, reconnecting, unsupported, client, mine, asked, pollVars,
                   stopVars, conn, dbVars, seenVars, faultVars>>

Stop ==
    /\ stopper = "none"
    /\ stopped' = TRUE
    /\ running' = FALSE
    /\ timer' = FALSE
    /\ conn' = ending({client})
    /\ stopOn' = client
    /\ stopper' = IF client = NoConn THEN "done" ELSE "ending"
    /\ UNCHANGED <<reconnecting, unsupported, client, loopVars, pollVars, dbVars, seenVars,
                   faultVars>>

(* The end() stop() awaits has resolved: whatever this.client is by now becomes null. *)
StopEnds ==
    /\ stopper = "ending"
    /\ conn[stopOn] = "closed"
    /\ client' = NoConn
    /\ stopper' = "done"
    /\ stopOn' = NoConn
    /\ UNCHANGED <<flagVars, loopVars, pollVars, conn, dbVars, seenVars, faultVars>>

-----------------------------------------------------------------------------
(* withDatabaseRetry(connect) of start() and of scheduleReconnect().       *)

Connected(l, c) ==
    /\ loop[l] = "connecting"
    /\ unheld(c)
    /\ conn' = [conn EXCEPT ![c] = "open"]
    /\ client' = c
    /\ mine' = [mine EXCEPT ![l] = c]
    /\ asked' = [asked EXCEPT ![l] = c]
    /\ loop' = [loop EXCEPT ![l] = "checking"]
    /\ UNCHANGED <<flagVars, pollVars, stopVars, dbVars, seenVars, faultVars>>

(* The database is not there, or it refuses the connection. *)
ConnectFails(l) ==
    /\ loop[l] = "connecting"
    /\ spendFault
    /\ retries(l) \/ (MayRefuse /\ loopThrows(l))
    /\ UNCHANGED <<stopped, running, timer, unsupported, client, mine, asked, pollVars, stopVars,
                   conn, dbVars, seenVars, lostInStartup>>

SleepEnds(l) ==
    /\ loop[l] = "sleeping"
    /\ IF stopped
       THEN loopThrows(l)
       ELSE loop' = [loop EXCEPT ![l] = "connecting"] /\ UNCHANGED reconnecting
    /\ UNCHANGED <<stopped, running, timer, unsupported, client, mine, asked, pollVars, stopVars,
                   conn, dbVars, seenVars, faultVars>>

(* ensureSlot's first query: the slot is there, or is to be created over this.client. *)
SlotChecked(l) ==
    /\ loop[l] = "checking"
    /\ conn[asked[l]] = "open"
    /\ \/ /\ slotExists
          /\ loopSettles(l)
          /\ UNCHANGED conn
       \/ /\ ~slotExists /\ canQuery
          /\ asked' = [asked EXCEPT ![l] = client]
          /\ loop' = [loop EXCEPT ![l] = "creating"]
          /\ UNCHANGED <<flagVars, client, mine, poll, pollOn, conn>>
       \/ /\ ~slotExists /\ ~canQuery
          /\ attemptFails(l, "givingUp")
          /\ UNCHANGED <<flagVars, mine, poll, pollOn>>
    /\ UNCHANGED <<transit, stopVars, dbVars, seenVars, faultVars>>

(* Its second query: created, not on this database, or already there. *)
SlotCreated(l) ==
    /\ loop[l] = "creating"
    /\ conn[asked[l]] = "open"
    /\ \/ /\ decodable /\ ~slotExists
          /\ slotExists' = TRUE
          /\ loopSettles(l)
          /\ UNCHANGED conn
       \/ /\ ~decodable
          /\ attemptFails(l, "refused")
          /\ UNCHANGED <<flagVars, mine, poll, pollOn, slotExists>>
       \/ /\ decodable /\ slotExists
          /\ attemptFails(l, "givingUp")
          /\ UNCHANGED <<flagVars, mine, poll, pollOn, slotExists>>
    /\ UNCHANGED <<transit, stopVars, decodable, pushVars, slot, seenVars, faultVars>>

(* The server terminates the query (57P01) before it drops the connection. *)
SlotQueryTerminated(l) ==
    /\ loop[l] \in {"checking", "creating"}
    /\ conn[asked[l]] = "open"
    /\ spendFault
    /\ attemptFails(l, "retrying")
    /\ UNCHANGED <<flagVars, mine, pollVars, stopVars, dbVars, seenVars, lostInStartup>>

(* The failed attempt's client has ended, and the catch of connect() throws. *)
AttemptEnds(l) ==
    /\ loop[l] \in {"retrying", "givingUp", "refused"}
    /\ conn[mine[l]] = "closed"
    /\ mine' = [mine EXCEPT ![l] = NoConn]
    /\ IF loop[l] = "retrying" THEN retries(l) ELSE loopThrows(l)
    /\ stopped' = (stopped \/ loop[l] = "refused")
    /\ unsupported' = (unsupported \/ loop[l] = "refused")
    /\ UNCHANGED <<running, timer, client, asked, pollVars, stopVars, conn, dbVars, seenVars,
                   faultVars>>

(* The dead client has ended, and the reconnect starts its attempts. *)
DeadClientEnded ==
    /\ loop["reconnect"] = "disposing"
    /\ conn[mine["reconnect"]] = "closed"
    /\ mine' = [mine EXCEPT !["reconnect"] = NoConn]
    /\ loop' = [loop EXCEPT !["reconnect"] = "connecting"]
    /\ UNCHANGED <<flagVars, client, asked, pollVars, stopVars, conn, dbVars, seenVars, faultVars>>

-----------------------------------------------------------------------------
(* Connections.                                                            *)

ConnectionBreaks(c) ==
    /\ conn[c] = "open"
    /\ spendFault
    /\ lostInStartup' = (lostInStartup \/ loop["start"] \notin {"done", "failed"})
    /\ connectionLost({c}, {l \in Loops : asked[l] = c})
    /\ IF pollOn = c THEN pollEnds ELSE UNCHANGED pollVars
    /\ UNCHANGED <<stopVars, dbVars, seenVars>>

(* end() completes: what still waited on the client is rejected, not as a transient failure. *)
ConnectionEnds(c) ==
    /\ conn[c] = "ending"
    /\ LET cut == {l \in Loops : asked[l] = c}
           after == ending({mine[l] : l \in cut})
       IN  /\ conn' = [after EXCEPT ![c] = "closed"]
           /\ loop' = [l \in Loops |-> IF l \in cut THEN "givingUp" ELSE loop[l]]
           /\ asked' = [l \in Loops |-> IF l \in cut THEN NoConn ELSE asked[l]]
           /\ client' = IF cut # {} THEN NoConn ELSE client
    /\ IF pollOn = c THEN pollEnds ELSE UNCHANGED pollVars
    /\ UNCHANGED <<flagVars, mine, stopVars, dbVars, seenVars, faultVars>>

-----------------------------------------------------------------------------
(* poll().                                                                 *)

TimerTicks ==
    /\ timer
    /\ running /\ canQuery
    /\ poll = "idle"
    /\ poll' = "asking"
    /\ pollOn' = client
    /\ UNCHANGED <<flagVars, client, loopVars, transit, stopVars, conn, dbVars, seenVars,
                   faultVars>>

(* Mutant: a held lock skips the poll and is not remembered. *)
LockAnsweredForgotten ==
    /\ poll = "asking"
    /\ conn[pollOn] = "open"
    /\ \/ /\ pushing
          /\ heldSeen' = pushNo
          /\ pollEnds
          /\ UNCHANGED <<sawSchemaPush, announced>>
       \/ /\ ~pushing
          /\ poll' = IF canQuery THEN "reading" ELSE "idle"
          /\ pollOn' = IF canQuery THEN client ELSE NoConn
          /\ UNCHANGED <<transit, seenVars>>
    /\ UNCHANGED <<flagVars, client, loopVars, stopVars, conn, dbVars, faultVars>>

(* The lock query: held, and this poll is skipped; or free, and the slot is read, *)
(* over whatever this.client is by now.                                           *)
LockAnswered ==
    /\ poll = "asking"
    /\ conn[pollOn] = "open"
    /\ \/ /\ pushing
          /\ sawSchemaPush' = TRUE
          /\ heldSeen' = pushNo
          /\ pollEnds
          /\ UNCHANGED announced
       \/ /\ ~pushing
          /\ sawSchemaPush' = FALSE
          /\ announced' = IF sawSchemaPush THEN pushesEnded ELSE announced
          /\ poll' = IF canQuery THEN "reading" ELSE "idle"
          /\ pollOn' = IF canQuery THEN client ELSE NoConn
          /\ UNCHANGED <<transit, heldSeen>>
    /\ UNCHANGED <<flagVars, client, loopVars, stopVars, conn, dbVars, faultVars>>

(* Postgres reads the slot, which advances it whether or not the rows arrive. *)
SlotRead ==
    /\ poll = "reading"
    /\ conn[pollOn] = "open"
    /\ poll' = "answered"
    /\ transit' = slot
    /\ slot' = {}
    /\ UNCHANGED <<flagVars, client, loopVars, pollOn, stopVars, conn, slotExists, decodable,
                   pushVars, seenVars, faultVars>>

(* The rows arrive, and each is handed to onChange. *)
RowsArrive ==
    /\ poll = "answered"
    /\ conn[pollOn] = "open"
    /\ pollEnds
    /\ UNCHANGED <<flagVars, client, loopVars, stopVars, conn, dbVars, seenVars, faultVars>>

(* A query of the poll is terminated (57P01) with its connection still up. *)
PollTerminated ==
    /\ poll \in {"asking", "reading"}
    /\ conn[pollOn] = "open"
    /\ spendFault
    /\ connectionLost({}, {})
    /\ pollEnds
    /\ UNCHANGED <<stopVars, dbVars, seenVars, lostInStartup>>

-----------------------------------------------------------------------------
(* The database: schema pushes and the rows of other sessions.             *)

PushStarts ==
    /\ ~pushing
    /\ pushNo < MaxPushes
    /\ pushing' = TRUE
    /\ pushNo' = pushNo + 1
    /\ UNCHANGED <<flagVars, client, loopVars, pollVars, stopVars, conn, slotExists, decodable,
                   slot, seenVars, faultVars>>

PushEnds ==
    /\ pushing
    /\ pushing' = FALSE
    /\ UNCHANGED <<flagVars, client, loopVars, pollVars, stopVars, conn, slotExists, decodable,
                   pushNo, slot, seenVars, faultVars>>

RowCommits ==
    /\ slotExists
    /\ slot' = slot \cup {pushesEnded}
    /\ slot' # slot
    /\ UNCHANGED <<flagVars, client, loopVars, pollVars, stopVars, conn, slotExists, decodable,
                   pushVars, seenVars, faultVars>>

-----------------------------------------------------------------------------

Listener ==
    \/ Start \/ Stop \/ StopEnds \/ DeadClientEnded
    \/ \E l \in Loops : \/ \E c \in Conns : Connected(l, c)
                        \/ ConnectFails(l) \/ SleepEnds(l) \/ SlotChecked(l) \/ SlotCreated(l)
                        \/ SlotQueryTerminated(l) \/ AttemptEnds(l)
    \/ \E c \in Conns : ConnectionBreaks(c) \/ ConnectionEnds(c)
    \/ TimerTicks \/ LockAnswered \/ SlotRead \/ RowsArrive \/ PollTerminated

Next == Listener \/ PushStarts \/ PushEnds \/ RowCommits

Spec == Init /\ [][Next]_vars

(***************************************************************************)
(* What the event loop and the database owe: attempts, queries and ends    *)
(* finish, timers fire, and a push lets go of its lock.  Nobody has to     *)
(* call start() or stop().                                                 *)
(***************************************************************************)
Fairness ==
    /\ WF_vars(StopEnds) /\ WF_vars(DeadClientEnded)
    /\ \A l \in Loops : /\ WF_vars(\E c \in Conns : Connected(l, c))
                        /\ WF_vars(SleepEnds(l))
                        /\ WF_vars(SlotChecked(l) \/ SlotCreated(l))
                        /\ WF_vars(AttemptEnds(l))
    /\ \A c \in Conns : WF_vars(ConnectionEnds(c))
    /\ WF_vars(TimerTicks) /\ WF_vars(LockAnswered) /\ WF_vars(SlotRead) /\ WF_vars(RowsArrive)
    /\ WF_vars(PushEnds)

FairSpec == Spec /\ Fairness

-----------------------------------------------------------------------------
(* Properties.                                                             *)

(* A loss during startup leaves start() and a reconnect both connecting; the *)
(* first two properties are about a listener with one loop at a time.        *)
oneLoop == ~stopped /\ ~lostInStartup

(* While it runs, the listener keeps one connection: an established one it  *)
(* no longer holds would never be read, and would end the next one when it  *)
(* failed.                                                                  *)
OneConnection == oneLoop => \A c \in Conns : conn[c] = "open" => c = client

(* What /health/ready reports is so: a running listener's connection is     *)
(* there, and so is the slot it reads.                                      *)
ReadyIsReal == oneLoop /\ isConnected => conn[client] = "open" /\ slotExists

(* No row is handed on under rules from before a push some poll saw hold    *)
(* the lock: onSchemaChange came first.                                     *)
RulesBeforeRows == transit # {} => announced >= heldSeen

(* Realtime reconnects and resumes decoding: a committed row is read, unless *)
(* the listener is stopped, lost a connection while starting, or met a       *)
(* failure that no retry cures.                                              *)
ResumesDecoding ==
    loop["start"] # "idle" /\ slot # {}
      ~> slot = {} \/ ~oneLoop \/ \E l \in Loops : loop[l] = "failed"

(* stop() stops polling: nothing polls, or is set to, once it has returned. *)
StoppedIsQuiet == stopper = "done" /\ stopped => ~running /\ ~timer

(* Once start() has settled, a listener that reports itself connected has a *)
(* timer to poll with.                                                      *)
ConnectedIsPolled == isConnected /\ loop["start"] \in {"done", "failed"} => timer

=============================================================================
