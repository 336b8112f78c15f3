# TLA+ models of supatype

This directory models the parts of supatype whose correctness depends on the order in which
callbacks, timers, network events and processes run. The modules are translated from the code;
`PROJECT.json` maps every definition to the lines it stands for.

Run a model with `tlc -config RealtimeClient.cfg MCRealtimeClient`, check the proofs about it with
`tlapm RealtimeClientProofs.tla`. Every invariant that a passing run checks is also a theorem, for every value
of the constants the module's assumptions allow; where a theorem says less than the run, its section says so.

## The system

supatype is a TypeScript monorepo. A schema written in TypeScript becomes a Postgres database, an
API, realtime, storage and a typed client; the CLI runs the stack, and a self-hosted control plane
deploys to it. The program logic that keeps state is in a handful of packages:

| Part | State | Operations | Talks to |
|---|---|---|---|
| Realtime client (`client/src/realtime.ts`) | one socket, the connect in flight, timers, channels | subscribe, unsubscribe, disconnect, reauthenticate; socket and timer callbacks | auth session (token, identity change), realtime server (frames) |
| Replication listener (`realtime/src/replication.ts`, `db-retry.ts`) | one Postgres client, retry loops, a poll, flags | start, stop, poll, reconnect | Postgres (slot, advisory lock), realtime server (rows, schema change, readiness) |
| Realtime server (`server.ts`, `channels.ts`) | connections, subscriptions, presence | join, leave, broadcast, track, dispatch of a change | replication, row visibility, clients |
| Row visibility and masking (`rls.ts`, `field-mask.ts`, `ttl-cache.ts`) | caches of table shapes and field rules | judge, mask, invalidate | Postgres, schema pushes |
| Token expiry (`token-expiry.ts`) | a timer per socket | watch, renew, remove | realtime server |
| Inspector (`admin/tap.ts`) | a bounded queue and token bucket per session | enqueue, drain, pause | realtime server, the admin's HTTP stream |
| Auth session (`client/src/auth.ts`) | current session, refresh in flight, persisted copy | sign in, sign out, refresh, hydrate | auth server, storage of the page |
| Query cache (`query-cache.ts`) | answers keyed by identity | read, write, clear | auth session |
| Storage (`storage/src`) | rows in Postgres, bytes in S3 or on disk | upload, read, delete, empty, buckets | Postgres, the object store |
| Control plane (`self-host-control/src`) | deployed files, hash loaded, restart owed, live deployment | deploy, env, hooks, promote, roll back | Docker, file system |
| Functions worker (`functions-worker`) | requests in flight | invoke, drain | user code |
| CLI dev session and downloads (`cli/src`) | lock files, child processes | start, recover, shut down, download | file system, Docker, child processes |
| CLI generation, types, framework bindings, Studio, UI | none, or view state | | |

What is hard in each, and what makes it correct:

- *Realtime client.* Every operation is split by an await; a sign-in, a disconnect or a close event
  may come between. Correct means: one socket, opened as the current user; a channel's status never
  outlives the join it reports; a channel that waits is always going to hear something.
- *Replication listener.* Connections are lost at any point, and the loss is reported twice, by an
  event and by the query. Correct means: one connection, readiness that is true, rows read again
  after every loss, rules refreshed before rows that depend on them, and silence after stop().
- *Realtime server.* Rows are dispatched asynchronously against a snapshot of subscribers, while
  sockets join and leave. Correct means: what a socket is sent belongs to a join it holds, a member
  leaves once for each time it joined.
- *Auth session.* Sign-out, sign-in and refresh overlap. Correct means: the last thing the user did
  decides the session, in memory and in storage.
- *Storage.* Two stores and no transaction across them. Correct means: a committed row has its bytes,
  and bytes without a row do not accumulate.
- *Control plane.* Concurrent deploys and crashes. Correct means: the worker runs what the last
  successful deploy wrote, or a restart is owed; the live site is one deployment.
- *CLI locks.* Two processes race over one file. Correct means: one holder.

The full list, each at its line, is under `hazards` in `PROJECT.json`.

## Modules

| Module | Models | Runs | Proofs |
|---|---|---|---|
| `RealtimeClient` | the client's socket, connects, timers and what channels are told | `client` | `RealtimeClientProofs` |
| `Replication` | the listener's connections, retry loops, polls and schema pushes | `replication` | `ReplicationProofs` |
| `ChannelJoin` | one channel: the client's joins and the server's subscription, composed over the frames between them | `channel`, `channel_presence`, `channel_late_joiner`, `channel_rows` | `ChannelJoinProofs` |
| `FieldRules` | the cached rules a change is judged by, from the announcement of a push on | `field_rules`, `rules_push` | `FieldRulesProofs` |
| `TapSession` | the inspector's sessions: sampling, queue, drain, sink | `tap` | `TapSessionProofs` |
| `AuthSession` | the client's session, its refreshes and the requests that carry its token | `auth` | `AuthSessionProofs` |
| `ObjectMap`, `StorageObjects` | what a bucket promises, and how two stores keep it | `storage` | `StorageObjectsProofs` |
| `WorkerDeploy` | deploys, the hash of what the worker loaded, the restart owed | `worker` | `WorkerDeployProofs` |

`Replication` announces a push (`RulesBeforeRows`) before it hands on the rows decoded after it;
`FieldRules` starts from that announcement and follows the rules to the row that is sent; `ChannelJoin` takes the row
from there to the listener. `AuthSession` ends where `RealtimeClient` begins: at an identity change.

Left for later, in this order:

1. an abstract channel that only delivers rows of the table it reports SUBSCRIBED for, and the conditions
   under which `ChannelJoin` implements it;
2. `Deployments`: promotion and rollback of the static site with a crash between two writes;
3. `CliLocks`: two processes and a stale lock file; the query cache of the client.

Modules that are proved about declare no RECURSIVE operator.

## RealtimeClient

An action is one JavaScript callback, run to its end, with everything the handler calls: `OpenSocket`
is the continuation of `openSocket`, `SocketCloses` is `onclose` with the `forgetJoins` and
`scheduleReconnect` it makes. `attempt` is the promise in flight and `known` the token passed to it;
`heldTimer` is the timer `this.reconnectTimer` names, and `strayTimers` those it named before it was
overwritten. `attached` are the sockets whose handlers are in place, so an abandoned socket can
still close unheard (`DetachedCloses`). `identity` is what the headers provider would hand out;
`reauths` counts `reauthenticate()` calls awaiting it. `waiting`, `hungUp`, `gaveUp` and `overtaken` are
observations no action reads.

Abstracted: backoff delays (a timer may fire at any time), the frames of a channel (a join is
acknowledged, or refused naming its channel), broadcasts, presence and rows, and the callbacks' own
calls back into the client. A channel stands for its single handle.

A socket may be CLOSING for any time, from the server's close frame to the close event
(`ServerStartsClose`), as it may in browsers and in `ws`, and every callback may run meanwhile. `overtaken` notes that
a connect opened a socket while the one held was CLOSING; the old one's `onclose` then nulls `this.ws`, which names the
new one. `OneLiveSocket` and `SubscribedIsJoined` hold until that has happened and not after it (below).

| Run | Bounds | Shows |
|---|---|---|
| `client` | 2 channels, 2 sockets, 2 tokens, 1 reconnect attempt, 2 faults, 1 sign-in, fair | type, one live socket and no stale SUBSCRIBED until a close is overtaken, the socket is the current user's, no waiting channel is stranded, every one is told |

Two sockets suffice because a socket that closed and is held by nothing stands for a new one: the
actions need the one held, and one being replaced or still closing. Two tokens tell the current user
from any other. One sign-in gives a re-authentication beside a connect, a close, a timer and a disconnect; that
two of them overtaking each other change nothing is what the theorems add. The limit of ten attempts is one
here: what matters is a timer before the limit, and the limit. Two faults let a token fail or a socket close before
and after that.

Fairness: a pending promise settles, a timer fires, a connecting socket opens or fails, a closing one
closes, and the server answers a join. The event loop and the WebSocket give that. No caller action and
no failure is fair, so liveness holds whoever stops calling.

Proved in `RealtimeClientProofs` for every set of channels, sockets and tokens and every bound:

- `TypeCorrect`. The reconnect counter's limit needs the guard of `scheduleReconnect`, nothing else.
- `SocketCarriesCurrentUser`. Inductive with `TokenInv`: the socket was opened with `currentToken`; a
  connect that was handed a token is in flight and `currentToken` is undefined meanwhile, so a later
  `reauthenticate()` cannot mistake it; with nothing pending both are the signed-in user's.
- `OneConnection` (`OneLiveSocket`) and `SubscribedMeansJoined` (`SubscribedIsJoined`), with sockets CLOSING at any
  time. Inductive with `ConnectionInv`, which holds until `overtaken`: a connect in flight means there is no live
  socket, the only attached socket is the one held, and a join exists only on the one held. Only a connect that opens a
  socket over one that is CLOSING takes it away, so that step is all there is to mend.
- `NobodyIsStranded`, whatever has been overtaken. Inductive with `SocketsInv` (attached sockets still have an
  event to come) and `WakeupInv` (whatever a waiting channel waits for exists).

The liveness property `WaitingChannelIsTold` is model-checked only: fairness is outside the prover.

## Replication

An action is one callback of the listener or a step of Postgres. `loop` says where each of the two
`withDatabaseRetry(connect)` is: `start()`'s and `scheduleReconnect()`'s, which may run together. Each
has the client of its attempt (`mine`) and the client its query waits on (`asked`), which differ when
another callback replaced `this.client`. `poll` and `pollOn` are the poll in flight, `stopper` and
`stopOn` the `stop()` in flight.
A query on a connection that breaks is rejected before any other callback runs, so
`ConnectionBreaks` does both: the error event's `scheduleReconnect`, then the catch of `connect()` or
`poll()`. A query cut short by `end()` fails as "Connection terminated", which `db-retry.ts` does not
call transient (`ConnectionEnds`). Postgres is modelled from its use: the slot, its rows, the advisory
lock of a schema push. Rows are told apart by how many pushes had ended when they committed.

Abstracted: `wal2json` parsing, retry delays, and an embedder that calls start() or stop() twice.

| Run | Bounds | Shows |
|---|---|---|
| `replication` | 3 clients, 2 faults, 1 push, refusals, fair | type, one connection, truthful readiness, rules before rows, decoding resumes |

Three clients are the one held, the dead one and the one connecting. Two faults give a loss during the
recovery from a loss, or in each of the two loops. One push gives a lock seen held, seen released and
rows from either side. `CHECK_DEADLOCK FALSE`: a stopped or failed listener may do nothing more.

`OneConnection`, `ReadyIsReal` and `ResumesDecoding` are about a listener with one connect loop: not
stopped, and no connection lost before `start()` had settled. Past that the code does not keep them (below).
`ResumesDecoding` also stops at a failure no retry cures (a loop that failed), as the docs say.

Fairness: attempts, queries and ends finish, timers fire, a push lets go of its lock. The database's
failures are bounded, not fair.

Proved in `ReplicationProofs` for every set of clients and every bound: `TypeCorrect`, which includes
that `reconnecting` is set exactly while the reconnect loop runs (the `finally` of
`scheduleReconnect`), and `RulesComeFirst`, inductive with `RulesInv`: a push seen and not yet announced is
remembered in `sawSchemaPush`, whose memory no reconnect resets, and rows are in transit only when
nothing is remembered.

`OneConnectionIsKept` and `ReadyMeansReady` (`OneConnection`, `ReadyIsReal`) follow from `LoneInv`. Half of
it, `HistoryInv`, holds of every listener: nothing precedes `start()`, only its success arms the timer, only
the timer polls. The other half, `AloneInv`, holds with one loop: what is established is `this.client`, a
loop on its way has left nothing established, and the query it waits on is of its own client, which
`this.client` is. `HistoryInv` is needed because whether a reconnect may begin depends on where `start()`
is. The liveness property is model-checked only.

## ChannelJoin

The client's side of one channel name and the server's side of one socket, with the frames between
them in two queues. `handles` is the `Set` of the channel's handles, in order; an empty one is also a channel the client does not
have, and its other fields are then as new. `subscribed`, `joinSent`, `joined`, `joining`, `joinRef` and
`members` are the fields of `ChannelState`; `members` counts entries per peer. `sub` is the
subscription the server holds, `subRef` the join that registered it. `judging` are the pairs `dispatchChange`
has read from the subscribers and not yet delivered: `RowCommits` is its snapshot, `RowJudged` the send
after its awaits, on whatever the socket has joined by then. `ackedRef` and `silentJoin` are observations no
action reads.

How the two sides move: a call sends frames (`sendSubscribe`, `leaveChannel`, `Announce`); the server
handles one at a time (`JoinArrives`, `LeaveArrives`, `ActionArrives`) and replies; each kind of reply has an
action of the client (`AckArrives`, `RefusalArrives`, `RowArrives`, `PresenceArrives`).

Abstracted: a join target is a name, with one target per table, so the event and filter of a listener do not
filter; the server refuses a join only for its filter; the socket has claims, so track() is refused only
before the join; the reconnect limit (it is `RealtimeClient`'s); another channel keeps the socket open; the
server sees a lost socket when the client does, the presence it leaves behind counting as a peer's;
broadcasts, which keep no state.

| Run | Bounds | Shows |
|---|---|---|
| `channel` | 2 handles, 3 targets of which one is refused, 3 joins by call, 2 frames ahead, 1 row in judgement, 1 lost socket, fair | rows of the acknowledged join reach their target, the join kept serves a listener, client and server agree when settled, every watcher is told |
| `channel_presence` | the same handles and joins, a peer, 2 presence frames, no rows | type, nobody present is missing from a settled subscribed channel |
| `channel_late_joiner` | the bounds of `channel_presence` | violated: a client that joins late is sent who is there |
| `channel_rows` | 2 targets, no lost socket | violated: an old join's rows are handed on as the new one's |

Two handles are the one leaving and the one that stays; a handle that has left stands for a new one. Three
joins give a join, its rejoin and one that overtakes the rejoin's answer. Two frames ahead hold a leave and
the join after it. One lost socket gives joins before and after. Symmetry is over the handles, and only where no
liveness is checked. `CHECK_DEADLOCK FALSE`: with the calls used up and the frames delivered the system rests.

What the properties do not claim. `RowsReachTheirTarget` is about rows sent while the join the client had
acknowledged still stood: `channel_rows` shows the others. `ListenersAreServed` leaves out a channel that was without any row
listener since its join was sent: `rejoinIfUnheard` runs in unsubscribe() only, so a listener that
comes after all others have gone is not joined for until something else rejoins. `NobodyMissing` says
nobody is missing and not that nobody is counted twice: a peer that tracks again is announced again as a join.
It is the promise `sendPresenceState` (`server.ts:467-491`) makes to whoever joins late, and `docs-content/realtime.md:117`
says the opposite: `channel_late_joiner` states the page's version and shows the code against it.

Proved in `ChannelJoinProofs` for any handles, targets, peers, refused targets and bounds, with at least one
join by call (`MaxRef` not 0): `TypeCorrect`, `RowsAreDelivered` (`RowsReachTheirTarget`),
`EveryJoinIsHeard` (`ListenersAreServed`), `BothEndsAgree` (`SubscribedIsRegistered`) and `EveryoneIsKnown`
(`NobodyMissing`). None of the last four is inductive: each is about frames that have arrived and says
nothing of those on their way. `ChannelInv` does:

- `OrderInv`: the refs of the joins on their way ascend, above those answered and above the one acknowledged
  last. No ref is used twice, so the answer to the last join sent has no join behind it.
- `RowsInv`: what the server has registered, is judging or has sent under a ref is of the target the client
  means by that ref.
- `RegisteredInv`: a leave on its way has the pending join behind it, and a channel that is subscribed has
  no leave on its way at all; so the join acknowledged is the one the server still holds.
- `ServedInv`: with a listener since the join was sent, one of the listeners is for its target.
- `PresenceInv`: for whoever is present, the last thing said of them on the way is that they are, and an
  acknowledgement on its way has such a frame behind it.

Its other parts are the types, that nothing outlives the socket, and which ref is pending. A step is first
put in one of the ways a step can go (`StepIs`: a frame sent, taken, both ends reset...), then each part is
shown for each way.

Fairness: the open socket delivers what it carries, in order, and a lost one is opened again. Losses are
bounded, not fair.

## FieldRules

The rules come from three lookups in a `TtlCache` each: the recorded masking, which says how the database
enforces field rules (`tier`); the masks; and the shape of the table. A cache entry holds a promise, so it is a load
in progress (`on`) or the rules it answered (`got`), and `get` begins a load on a miss. `loads` are the
loads in progress, those of entries cleared since included, and `changes` the changes being dispatched, each with the
two lookups it waits for. A set of rules is the number of pushes it was read after: what a rule says is data.

`Dispatch` is `dispatchChange` up to its first await, `rulesFor` the second look at the caches that
judging takes, `Judged` the end of it. `LoadSettles` settles the entry if it is still the cache's, and runs every
waiter: one that waited for the recorded masking looks up the masks in the same go, in whatever the caches have
become. Where the engine keeps the mapping (tier 2, `views`) the masks need no query and are taken
from the masking that was recorded.

Time passes (`Tick`) while loads are in progress, so an entry, whose TTL runs from the beginning of its load, may
expire before its load answers; `LoadTime` is how long a load may take. Nothing in the code limits that: it is the
patience of the database connection.

Abstracted: one table and one subscriber per change; what claims, filters and the row policy say. Not
modelled: a token that changes between the judgement and the send, the order changes are sent in, the service
role, which skips the rules.

| Run | Bounds | Shows |
|---|---|---|
| `field_rules` | 2 changes, 3 loads of up to 2 ticks, TTL of 2 ticks, 4 ticks, 1 push, 1 failed load, both tiers | type, rules no older than the push announced, expiry of rules of an unseen push |
| `rules_push` | tier 2, 5 loads of no time, 5 ticks, no failure | violated: masks of the old rules enter the cleared cache |

Two changes share a load or find it cleared; the third and later ones repeat them. One push has a before and an
after, and pushes never take each other back. Four ticks hold a push seen by nobody, the TTL after it and the
time the masks of tier 2 add to it; a load as long as the TTL answers when its entry has just expired. `Loads` are
names a load gives back, and `RoomForLoads` lets two free ones be a condition of a lookup: with three, a change begins
new loads while the load of a cleared or expired entry is still about and the other change waits for it.

`PushedRulesJudge` leaves out tier 2 once a lookup waited for the recorded masking as a push was announced
(`straddled`): `rules_push` shows what happens then. `OldRulesExpire` has the one TTL of `field-mask.ts:225-226`, but for
the masks of tier 2, which may be taken from a masking that is itself a TTL old, or that took a load to arrive
(`AgeWhenTaken`).

A lookup that waits holds the promise of its load and not the cache entry, and goes on when the load ends whichever way
Postgres answers: nothing the caches do could keep it, and no property is spent on it.

Proved in `FieldRulesProofs` for any changes, loads, TTL and bounds: `TypeCorrect` and
`AnnouncedRulesAreUsed` (`PushedRulesJudge`), from `RulesInv`. Its part `Sound` says
that what the caches hold, a load in progress or rules, is no older than the last push announced; its part
`Good` that what a change has found or waits for is no older than the push announced before its dispatch.
Clearing the caches restores `Sound`, and the loads it orphans can be found by nobody again, which is all
that keeps them from being cached later. With tier 2 the masks are taken from the recorded masking, so both
parts are given up once a lookup straddles a push. The assumptions are those of the module on its constants:
`None` is not a load, a number or a record.

`OldRulesGoOutOfUse` (`OldRulesExpire`) adds `AgeInv`: a load has run its query after it began and no later than
`LoadTime` after that, so its rules are those of every push committed before it began, and the entry, which has the
time its load began, keeps them. Under tier 2 the masks come from a recorded masking that may have been in the cache
for up to a TTL, or may have been waited for as long as a load takes, when they enter the cache as new: `AgeWhenTaken`
bounds both.

## TapSession

A session of the inspector is a record with the fields of `TapSession`, the buffer of the response it writes to
(`sink`) and counts of what became of its items. `channelEvent` and `Begin`/`End` are the delivery path: an
item for every session whose filters select it and that has a token, queued at once for a broadcast, and once
every subscriber has been judged for a change. `makeRoom` is the full queue. The consumer is
`StartDrain` (the `setImmediate`), `drainOn` (the loop up to the next render or its end) and `Rendered` (the await
settled, the event written, the loop gone round). `write` pauses the session when the sink is full, and every write to
a full sink, a ping or a report of skipped items too, leaves a listener behind that `SinkDrains` runs.

Abstracted: an item is its place in the order its session was handed items; what it renders to is an event,
nothing or a failure; time refills a bucket one token at a time. Not modelled: the limit of sessions per
actor, and what the views show.

| Run | Bounds | Shows |
|---|---|---|
| `tap` | 1 slot for successive sessions, 2 changes, queue of 2, rate of 2, sink of 2 chunks, 2 heartbeats, 5 items, fair | type with the queue's limit, every item accounted for, items in order, the queue is drained |

Sessions only share the record of a change, so the one slot, opened again after each close while a render or a
record of the session before may still be about, has the cases. Five items fill the queue of two, one
rendering and one for a change, with one left to be dropped. Heartbeats are bounded in the code as well, by
the longest life of a session.

Fairness: a `setImmediate` runs, a render settles (the view's database call answers or times out), and the
reader of an open stream reads. Deliveries, reports and refills are not fair.

Proved in `TapSessionProofs` for any sessions, any finite set of changes and all bounds: `TypeCorrect`,
`StreamsAreInOrder` and `NothingIsLost`. The inductive `StreamsInv` says four things of each session.
`OneDrain`: a drain runs exactly while an item is being rendered, one item, and none is scheduled then.
`Ordered`: written before rendering before queued before the next. `Accounted`: the sum of
`EverythingIsAccounted`, and for closed streams, whose queue is thrown away, the inequality left of it.
`Buffered`: a session that is not paused has room in its sink, and one that is paused has room for the item
still being rendered. Each method has a lemma that it keeps the four, and each action is put together from
these.

## AuthSession

A call of an application, a data request, the timer and the start of the client are records in `calls`; `pc` is
the await each stands at, and an action runs from one await to the next. `inFlight` is `refreshInFlight`,
by the call whose refresh it is; a call that found it set is `joined` and resumes with it (`Resumed`). A token
stands for the access token and the refresh token issued with it. `heard` is what the listeners were last
told and `stored` what storage holds. `SetSession` is `_setSession` with its write, its timer and its event.
`options` is what the client was given: a storage that answers at once or later, `autoRefreshToken`,
`refreshExpiredToken`, and which tokens come without a refresh token (`bare`), so that an expired session is refreshed,
cleared, or left for the server to refuse.

`request` is a data request: `ensureValidSession`, `Headers` (the credential headers), and after a refusal
`refreshRefusedSession`, `Verdict` and a second attempt. `dead` holds the tokens the call has itself found expired or
seen refused. `Hydrate`, `Announce` and `completeRedirect` are the constructor's promise.

Abstracted: every sign-in is one request that ends in `_setSession`; a server that refuses, a spent refresh token
and an answer that is lost are one outcome, no session; an asynchronous storage answers its first load late and its
writes at once. PKCE verifiers, identities and MFA keep nothing the calls here read. The server
rotates tokens and is not modelled further.

| Run | Bounds | Shows |
|---|---|---|
| `auth` | 1 user, 2 calls and the start of the client, 2 tokens, 5 configurations, fair | type, no dead token sent, one refresh at a time, session, storage and listeners agree, calls return |

The configurations (`MCOptions`) are the default on either storage, each of the two options turned off, and a
token without a refresh token at the start and later. Two calls and the start give three that need one refresh: the one that makes it and two that wait. Two
tokens are the one refused and its successor. The bound on tokens makes later refreshes fail, which the
server may do anyway. One user is enough because no property here compares users but by their token.

`SessionIsStoredAndAnnounced` is about a synchronous storage, since `Announce` breaks it for the other (below).
`OneRefreshAtATime` is about the refreshes the client makes of its own accord; `refreshSession()`, which an application
calls, does not share them, by design of the API.

Fairness: the server answers or `fetch` gives up, continuations run, and a timer that is due fires. Nobody has
to call anything.

Proved in `AuthSessionProofs` for any users and calls, one token or more, and any options:
`TypeCorrect`, `DeadTokenStaysHome` (`DeadTokenIsNotSent`), `OneRefresh` (`OneRefreshAtATime`) and
`SessionIsOne` (`SessionIsStoredAndAnnounced`). `AuthInv` has a part for each. `InFlightInv`:
`refreshInFlight` is the refresh in flight, so whoever finds it empty is alone. `FreshInv`: a token on its
way, in an answer not yet handled, is new to the session, to storage and to every call. `DeadInv` needs it:
a session that another call puts in place during an await can then not be one this call has found dead. It
also says what a client that leaves expired sessions to the server knows: the one token it was refused with.
`StoredInv`: with a synchronous storage only a redirect sets the session aside, and its answer puts that
right. The liveness property is model-checked only.

## StorageObjects and ObjectMap

A request of the storage service is a sequence of transactions and calls of the object store; each is an action. `rows`
is `storage.objects`, the version each name's row holds, and `stored` the keys in the object store. An upload
puts its bytes under a fresh version (`PutObject`), switches the row (`CommitUpload`), and discards what the row pointed
at before, or its own bytes when anything failed. `emptyBucket` deletes rows in a transaction left open
while it deletes the bytes: `locked` says which rows others have to wait for. A fault is a call that fails, one that is done
and whose answer is lost, or a crash of the service, and `lost` are the names whose row is there although
its request was answered with an error. `CreateBucket` makes the store's bucket before the insert can find
the row there (`buckets.ts:50-51`), so the create of an existing bucket restores the store's, as in the code.

`ObjectMap` is what readers are promised: a name holds one upload or none, and a reader is given the upload it found, or
told that it is missing when it has been replaced or removed since, or is in doubt. `ImplementsObjectMap`
maps `content` to the rows, `doubtful` to what is locked or lost, and a request that reads to its reader.
It allows what the code does allow: a download may answer 404 when an upload replaces the object between its
`touchObject` and its read, since the replaced version is discarded.

Abstracted: quotas, limits and rules decide before the first step; a transaction is an action except the one
that stays open. Not modelled: the quota's check and act, the order of a bucket update and its S3 policy (`buckets.ts:114-134`), a
put that lands after its timeout, the two writes of an object on disk.

| Run | Bounds | Shows |
|---|---|---|
| `storage` | 2 names, 3 requests, 3 versions, 2 faults, S3 | type, rows have their bytes, nothing left behind, rows have a bucket, refinement of `ObjectMap` |

Three requests are an upload, another one or an emptying, and a reader or the removal of the bucket. Three
versions are the one replaced, the one live and the one being uploaded. Two faults let a cleanup fail after what it
cleans up after. Requests are interchangeable, so symmetry is over them and the names. `CHECK_DEADLOCK FALSE`: with versions
used up and no object there is nothing to do.

Proved in `StorageObjectsProofs` for any names, requests, versions and faults: `TypeCorrect` and
`NoRowsWithoutBucket` (`RowsHaveABucket`) on either object store, and where it is S3 `BytesAreThere`
(`RowsHaveTheirBytes`), `NothingIsLeftBehind` (`NothingLeftBehind`) and `Refines` (`ImplementsObjectMap`).
On disk TLC refutes these three, by one race of an upload and the removal of its bucket (below).
`ObjectsInv` says who may still touch a version. `Fresh`: a version being uploaded is in no row and in no
other upload. `Doomed`: one being discarded is in no row that is not in doubt, and no upload will put it
there. `Emptying`: an open `emptyBucket` has left only keys of rows it has locked. With them `Backed`, the
bytes of a row stay, survives every discard; and `Tidy`, without a fault all bytes are claimed by a row or a
request, every step. `Refines` maps each action to one of `ObjectMap` or to no change, and uses the
invariant where a reader is answered.

## WorkerDeploy

`disk` is the content of each module (a function, a hook, the manifest), by version; a version is a number that says
which contents are alike, and a module may get one back that it had before. `loaded` and `owed` are the two record files of
`worker.ts`, and `worker` is the code the worker loaded when it last started. A request writes its module
(`WriteModule`), hashes every file, one at a time (`EnsureWorkerCurrent`, `HashModule`), decides
(`Decide`), looks for the worker (`ListWorker`), restarts it (`RestartWorker`) and records what it hashed
(`RecordLoaded`). A hook whose write failed is put back (`RestoreHook`). `Crash` is the control plane stopping
at any of these points, `Edit` an edit of the checkout, `StackUp` a start of the worker nobody recorded.

Abstracted: a request deploys one module; a half-written file is one more version. Not modelled:
the values of the env file, which two requests may read and write over each other (`functions.ts:114-117`), the same of the
manifest (`hooks.ts:265-272`), and the answer a caller is given.

| Run | Bounds | Shows |
|---|---|---|
| `worker` | 2 modules, 2 requests, 2 contents each, 2 faults | type, stale code is noticed by the next deploy, answered code is loaded, a hook kept is as before |

Two modules let a file be written behind the hash and ahead of it. Two contents are the one deployed and
the one before it, which a request may bring back. The exceptions of `StaleCodeIsNoticed` are in its
comment: with requests that overlap and a content that comes back, the record can be of the one and the worker of the other.

Proved in `WorkerDeployProofs` for any modules, requests, versions and faults: `TypeCorrect`,
`StaleWorkerIsNoticed` (`StaleCodeIsNoticed`), `AnsweredIsLoaded` (`AnsweredCodeIsLoaded`) and
`KeptHookIsKept` (`KeptHookIsAsBefore`). Two arguments are needed, as there are two ways of working that
keep the worker current, and `DeployInv` has both. `Calm`, while requests keep apart: what the only request
hashed is what is on disk, and a restart is owed from the decision to make it until it is recorded.
`Onward`, while no content comes back: versions only grow, and in every module the record is no newer than
what the worker runs, which is no newer than what is on disk; so a record that equals the disk leaves the
worker no room to differ. For a hash taken file by file across another deploy's write only the second holds.

## Where code and comments disagree

Three of these have a run that shows them, with the line they contradict under `findings` in
`PROJECT.json`:

- Rows carry their channel and not their join, so rows of a join that was left are handed to the
  listeners of the next one on the name, as rows of another table (`channel_rows`).
- A lookup that waits for the recorded masking while a push is announced puts masks taken from the old one into
  the cleared cache; `server.ts:174-177` says a restricted column stops being broadcast at the push
  (`rules_push`). Without an announcement it can take two TTLs and not the one of `field-mask.ts:225-226`.
- A client that joins a channel is sent whoever is tracked there already, where `docs-content/realtime.md:117` says it is
  not (`channel_late_joiner`). The comment of `sendPresenceState` gives the reason, so it is the page that is out of date.

The others are stated as definitions of the modules that no run checks; TLC refutes each under the
bounds of the module's configuration, with the change named here:

- `NoSecondSocket`, `RealtimeClient.cfg`: a `subscribe()` while the socket is CLOSING opens a second socket; the
  old one's `onclose` nulls `this.ws`, and both the second and the reconnect's stay attached, where
  `realtime.ts:482-483` says one connect at a time.
- `DisconnectIsFinal`, `RealtimeClient.cfg`: `disconnect()` cancels neither a re-authentication awaiting its token nor a
  timer whose field was overwritten, where `realtime.ts:443-448` says nothing reconnects it.
- `StoppedIsQuiet`, `Replication.cfg`: `stop()` during startup leaves an interval running. The
  service's own entry exits the process after it; an embedder does not.
- `ConnectedIsPolled`, `Replication.cfg`: a database lost twice while realtime starts leaves it ready and silent.
- `SubscribedIsServed`, `ChannelJoinPresence.cfg` with 2 targets: a refusal without a ref, of `track()` or
  `broadcast()`, un-marks a join that is on its way, and `rejoinIfUnheard` (`realtime.ts:712-720`) then returns early.
- `ListenersKnowTheSession`, `AuthSession.cfg`: with an asynchronous storage, `hydrateFromStorage` announces
  SIGNED_IN with the session it loaded (`auth.ts:270`) after its refresh has replaced or cleared it.
- `ExpiredSessionIsRefreshed`, `AuthSession.cfg`: the timer fires a minute before the expiry, where
  `ensureValidSessionInternal` (`auth.ts:313-315`) refreshes only an expired token, and it is not set again.
  `docs-content/auth.md:109` says the client refreshes about a minute before.
- `RowsHaveTheirBytes`, `StorageObjects.cfg` with `Backends = {"file"}`: `deleteBucket` of the disk store
  removes the directory with an upload committed after the check of `buckets.ts:139`; S3 refuses that.
- `ContentDecides`, `WorkerDeploy.cfg`: two deploys that overlap, one bringing back an earlier content, leave the worker on code
  that the recorded hash calls current, where `worker.ts:6-10` says staleness is decided by content.

## Not modelled

- Token expiry: one comparison and a timer. Request building and value conversion in the client, type
  builders, framework bindings and the user interface: no state an interleaving can reach.
- The CLI's generation, extraction and composition of files, which is most of its code: functions over syntax trees and
  configuration, run by one process, with their tests beside them.
- The CLI's lock files and dev session, the static deployments of the control plane and the query cache are next (above).
- The functions worker: its shutdown drain is small and the rest is dispatch to user code.
- The schema engine, the server binary, Docker and Postgres: their source is elsewhere, and they appear
  as the external actions that the modules name.
- Within the modules: what each section lists as abstracted or not modelled.

What only TLC checks: the liveness properties (`WaitingChannelIsTold`, `ResumesDecoding`,
`WatcherIsAnswered`, `CallsReturn`, `QueueIsDrained`), which are out of the prover's reach, and the three
violations. Nothing is proved of a client in which a close has been overtaken but its user and its wakeups, nor of
bytes and readers on the disk store: there the code does not keep them.
