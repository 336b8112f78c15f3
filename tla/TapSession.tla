---- MODULE TapSession ----
(***************************************************************************)
(* The inspector's live streams (packages/realtime: admin/tap.ts, and the  *)
(* session that admin/stream.ts opens). Delivery hands items to every      *)
(* session that wants them and has a token; each session's consumer        *)
(* renders them one by one and writes them to a sink that may be full. An  *)
(* item is its place among those its session was handed.                   *)
(***************************************************************************)
EXTENDS Integers, Sequences, FiniteSets

CONSTANTS
    Sessions,    \* slots for streams
    Changes,     \* slots for changes being dispatched
    QueueMax,    \* SESSION_QUEUE_MAX
    Rate,        \* items per second
    SinkMax,     \* chunks the response buffers before write() returns false
    InstanceMax, \* SESSIONS_PER_INSTANCE
    MaxPings,    \* heartbeats of a stream: SESSION_MAX_MS / HEARTBEAT_MS
    MaxItems     \* bound: items a session's filters select

ASSUME BoundsAssumption == {QueueMax, Rate, SinkMax, InstanceMax, MaxPings, MaxItems} \subseteq Nat \ {0}
ASSUME ChangesAssumption == IsFiniteSet(Changes)

VARIABLES
    sess,       \* the fields of each TapSession, its sink and what became of its items
    record      \* of each change being dispatched: the sessions of its ChangeRecord, if any

vars == <<sess, record>>

\* listeners are those waiting for the sink's drain event. The last five fields are
\* observations no action reads: items selected by the filters, written, rendered
\* to nothing, reported as skipped, and the last one written.
Fresh == [phase |-> "new", tokens |-> Rate, queue |-> <<>>, next |-> 1, skipped |-> 0,
          scheduled |-> FALSE, draining |-> FALSE, paused |-> FALSE, rendering |-> {},
          sink |-> 0, listeners |-> 0, pings |-> 0,
          selected |-> 0, written |-> 0, unshown |-> 0, reported |-> 0, last |-> 0]

Open == {s \in Sessions : sess[s].phase = "open"}

----------------------------------------------------------------------------
(* What the methods make of a session x *)

(* Mutant: a drain that waits for a render does not keep another from starting. *)
scheduleTwice(x) == IF x.scheduled \/ x.paused THEN x ELSE [x EXCEPT !.scheduled = TRUE]

schedule(x) == IF x.scheduled \/ x.draining \/ x.paused THEN x ELSE [x EXCEPT !.scheduled = TRUE]

\* write: a full sink pauses the session until it drains.
write(x) ==
    IF x.sink + 1 < SinkMax THEN [x EXCEPT !.sink = @ + 1]
    ELSE [x EXCEPT !.sink = @ + 1, !.paused = TRUE, !.listeners = @ + 1]

hasToken(x) == x.tokens >= 1

admit(x) ==
    IF hasToken(x) THEN [x EXCEPT !.selected = @ + 1, !.tokens = @ - 1]
    ELSE [x EXCEPT !.selected = @ + 1, !.skipped = @ + 1]

(* Mutant: an item is taken on before the queue is found full. *)
makeRoomLate(x) == IF Len(x.queue) > QueueMax THEN [x EXCEPT !.queue = Tail(@), !.skipped = @ + 1] ELSE x

(* Mutant: what is dropped is not counted as skipped. *)
makeRoomUncounted(x) == IF Len(x.queue) >= QueueMax THEN [x EXCEPT !.queue = Tail(@)] ELSE x

\* The oldest item gives way in a full queue, and counts as skipped.
makeRoom(x) == IF Len(x.queue) >= QueueMax THEN [x EXCEPT !.queue = Tail(@), !.skipped = @ + 1] ELSE x

enqueue(x) ==
    IF x.phase = "closed" THEN x
    ELSE schedule([makeRoom(x) EXCEPT !.queue = Append(@, x.next), !.next = @ + 1])

\* drain, from the head of its loop to the next render, or to its end.
drainOn(x) ==
    IF x.paused \/ x.phase = "closed" \/ x.queue = <<>> THEN [x EXCEPT !.draining = FALSE]
    ELSE [x EXCEPT !.queue = Tail(@), !.rendering = @ \union {Head(x.queue)}]

----------------------------------------------------------------------------
(* Opening and closing a stream *)

\* Nothing refers to the session that held the slot before.
Unused(s) == sess[s].phase # "open" /\ ~sess[s].scheduled /\ sess[s].rendering = {} /\ \A d \in Changes : s \notin record[d]

\* openStream: refused when the instance has its fill of sessions.
OpenStream(s) ==
    /\ Unused(s)
    /\ Cardinality(Open) < InstanceMax
    /\ sess' = [sess EXCEPT ![s] = write([Fresh EXCEPT !.phase = "open"])]
    /\ UNCHANGED record

\* The response ends, at the cap of a session, a close of either side or closeAll.
Close(s) ==
    /\ sess[s].phase = "open"
    /\ sess' = [sess EXCEPT ![s] = [@ EXCEPT !.phase = "closed", !.queue = <<>>]]
    /\ UNCHANGED record

----------------------------------------------------------------------------
(* The delivery path *)

\* Some of the open sessions have filters that select an item.
Select(S) == S # {} /\ S \subseteq Open /\ \A s \in S : sess[s].selected < MaxItems

\* begin: the sessions with a token are recorded and wait for what comes of it.
Begin(d, S) ==
    LET wanting == {s \in S : hasToken(sess[s])}
    IN  /\ record[d] = {}
        /\ Select(S)
        /\ sess' = [s \in Sessions |-> IF s \in S THEN admit(sess[s]) ELSE sess[s]]
        /\ record' = [record EXCEPT ![d] = wanting]

\* end: every subscriber of the change has been judged.
End(d) ==
    /\ record[d] # {}
    /\ sess' = [s \in Sessions |-> IF s \in record[d] THEN enqueue(sess[s]) ELSE sess[s]]
    /\ record' = [record EXCEPT ![d] = {}]

\* broadcast and presence.
channelEvent(S) ==
    /\ Select(S)
    /\ sess' = [s \in Sessions |->
            IF s \notin S THEN sess[s]
            ELSE IF hasToken(sess[s]) THEN enqueue(admit(sess[s])) ELSE admit(sess[s])]
    /\ UNCHANGED record

----------------------------------------------------------------------------
(* A session's consumer, its timers and its sink *)

\* The setImmediate callback.
StartDrain(s) ==
    /\ sess[s].scheduled
    /\ sess' = [sess EXCEPT ![s] = drainOn([@ EXCEPT !.scheduled = FALSE, !.draining = TRUE])]
    /\ UNCHANGED record

\* The render of item i settles: an event to write, nothing to show, or a failure.
Rendered(s, i, event) ==
    LET x == [sess[s] EXCEPT !.rendering = @ \ {i}]
    IN  /\ i \in sess[s].rendering
        /\ sess' = [sess EXCEPT ![s] = drainOn(
                IF event /\ x.phase = "open" THEN [write(x) EXCEPT !.written = @ + 1, !.last = i]
                ELSE [x EXCEPT !.unshown = @ + 1])]
        /\ UNCHANGED record

\* reportSkipped, every SAMPLED_INTERVAL_MS.
reportSkipped(s) ==
    LET x == sess[s]
    IN  /\ x.phase = "open" /\ ~x.paused
        /\ x.skipped > 0
        /\ sess' = [sess EXCEPT ![s] = [write(x) EXCEPT !.reported = @ + x.skipped, !.skipped = 0]]
        /\ UNCHANGED record

\* ping: a comment keeps the stream open, while it is not paused.
ping(s) ==
    LET x == sess[s]
    IN  /\ x.phase = "open"
        /\ x.pings < MaxPings
        /\ sess' = [sess EXCEPT ![s] = [IF x.paused THEN x ELSE write(x) EXCEPT !.pings = @ + 1]]
        /\ UNCHANGED record

\* Tokens come back with time.
Refill(s) ==
    /\ sess[s].phase = "open" /\ sess[s].tokens < Rate
    /\ sess' = [sess EXCEPT ![s].tokens = @ + 1]
    /\ UNCHANGED record

(* Mutant: the session reads on but does not look at what was queued meanwhile. *)
SinkDrainsUnscheduled(s) ==
    LET x == [sess[s] EXCEPT !.sink = 0, !.listeners = 0]
    IN  /\ sess[s].phase = "open" /\ sess[s].sink > 0
        /\ sess' = [sess EXCEPT ![s] = IF sess[s].listeners = 0 THEN x ELSE [x EXCEPT !.paused = FALSE]]
        /\ UNCHANGED record

\* The reader takes what the sink holds; onDrain's listeners run.
SinkDrains(s) ==
    LET x == [sess[s] EXCEPT !.sink = 0, !.listeners = 0]
    IN  /\ sess[s].phase = "open" /\ sess[s].sink > 0
        /\ sess' = [sess EXCEPT ![s] = IF sess[s].listeners = 0 THEN x ELSE schedule([x EXCEPT !.paused = FALSE])]
        /\ UNCHANGED record

----------------------------------------------------------------------------

Init ==
    /\ sess = [s \in Sessions |-> Fresh]
    /\ record = [d \in Changes |-> {}]

Deliver == \E S \in SUBSET Sessions : channelEvent(S) \/ \E d \in Changes : Begin(d, S)
Render(s) == \E i \in sess[s].rendering, event \in BOOLEAN : Rendered(s, i, event)

Next ==
    \/ Deliver
    \/ \E d \in Changes : End(d)
    \/ \E s \in Sessions :
        \/ OpenStream(s) \/ Close(s) \/ StartDrain(s) \/ Render(s)
        \/ reportSkipped(s) \/ ping(s) \/ Refill(s) \/ SinkDrains(s)

Spec == Init /\ [][Next]_vars

\* A setImmediate runs, a render settles, and the reader of an open stream reads.
FairSpec == Spec /\ \A s \in Sessions :
    WF_vars(StartDrain(s)) /\ WF_vars(Render(s)) /\ WF_vars(SinkDrains(s))

----------------------------------------------------------------------------
(* Properties *)

Items == 1..MaxItems

\* Every variable keeps its shape; the queue of a session holds at most
\* SESSION_QUEUE_MAX items.
TypeOK ==
    /\ record \in [Changes -> SUBSET Sessions]
    /\ \A s \in Sessions : LET x == sess[s] IN
        /\ x.phase \in {"new", "open", "closed"}
        /\ x.queue \in Seq(Items) /\ Len(x.queue) <= QueueMax
        /\ x.rendering \subseteq Items
        /\ x.tokens \in 0..Rate /\ x.next \in 1..(MaxItems + 1) /\ x.last \in 0..MaxItems
        /\ {x.scheduled, x.draining, x.paused} \subseteq BOOLEAN
        /\ {x.skipped, x.selected, x.written, x.unshown, x.reported} \subseteq 0..MaxItems
        /\ x.sink \in 0..(SinkMax + 1) /\ x.listeners \in 0..2 /\ x.pings \in 0..MaxPings

Awaited(s) == Cardinality({d \in Changes : s \in record[d]})

\* Every item an open stream's filters selected is written, rendered to nothing,
\* counted as skipped, or still on its way: what the session could not take, for
\* want of a token or of room, is in the number it reports.
EverythingIsAccounted ==
    \A s \in Open : LET x == sess[s] IN
        x.selected = x.written + x.unshown + x.reported + x.skipped
                     + Len(x.queue) + Cardinality(x.rendering) + Awaited(s)

\* A stream's items are written in the order the session was handed them, however
\* long a render takes and whatever else pauses the session meanwhile.
StreamInOrder ==
    \A s \in Sessions : LET x == sess[s] IN
        /\ \A i \in x.rendering : x.last < i /\ \A k \in 1..Len(x.queue) : i < x.queue[k]
        /\ \A k \in 1..Len(x.queue) : x.last < x.queue[k]

\* What is queued is drained, once no more comes, however often the sink fills up
\* and whoever else writes to it.
QueueIsDrained == \A s \in Sessions : sess[s].queue # <<>> ~> sess[s].queue = <<>>

====
