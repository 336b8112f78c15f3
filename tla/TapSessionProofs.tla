---- MODULE TapSessionProofs ----
(***************************************************************************)
(* What holds of the inspector's streams for any sessions and any bounds:  *)
(* items are written in order, each is accounted for, and the queue and    *)
(* the buffer of the response keep their limits.                           *)
(***************************************************************************)
EXTENDS TapSession, FiniteSetTheorems, SequenceTheorems, TLAPS

Session == [phase : {"new", "open", "closed"}, tokens : 0..Rate, queue : Seq(Nat), next : Nat, skipped : Nat,
            scheduled : BOOLEAN, draining : BOOLEAN, paused : BOOLEAN, rendering : SUBSET Nat,
            sink : Nat, listeners : Nat, pings : 0..MaxPings,
            selected : 0..MaxItems, written : Nat, unshown : Nat, reported : Nat, last : Nat]

\* What was written precedes what is rendered, and that what is queued, in the order handed out.
Ordered(x) ==
    /\ x.phase # "open" => x.queue = <<>>
    /\ Len(x.queue) <= QueueMax
    /\ x.last < x.next
    /\ \A k \in 1..Len(x.queue) : x.last < x.queue[k] /\ x.queue[k] < x.next
    /\ \A j, k \in 1..Len(x.queue) : j < k => x.queue[j] < x.queue[k]
    /\ \A i \in x.rendering : x.last < i /\ i < x.next /\ \A k \in 1..Len(x.queue) : i < x.queue[k]

\* One drain at a time, which renders one item at a time.
OneDrain(x) ==
    /\ \A i, j \in x.rendering : i = j
    /\ x.draining <=> x.rendering # {}
    /\ x.scheduled => ~x.draining

Busy(x) == IF x.rendering = {} THEN 0 ELSE 1

\* A session that is not paused has room for a chunk; a paused one was rendering at
\* most one item when the sink filled up, and that is all that is written still.
Buffered(x) ==
    /\ x.sink <= SinkMax + 1 /\ x.listeners <= 2
    /\ x.phase = "open" /\ ~x.paused => x.sink < SinkMax /\ x.listeners = 0
    /\ x.phase = "open" /\ x.paused => x.sink + Busy(x) <= SinkMax + 1 /\ x.listeners + Busy(x) <= 2

Settled(x) == x.written + x.unshown + x.reported + x.skipped
Held(x) == Len(x.queue) + Busy(x)

\* w items of the session wait for the judgement of their change.
Accounted(x, w) ==
    /\ x.next + w <= x.selected + 1
    /\ x.phase = "open" => x.selected = Settled(x) + Held(x) + w
    /\ Settled(x) + Busy(x) <= x.selected

Good(x, w) == x \in Session /\ Ordered(x) /\ OneDrain(x) /\ Buffered(x) /\ Accounted(x, w)

StreamsInv ==
    /\ sess \in [Sessions -> Session]
    /\ record \in [Changes -> SUBSET Sessions]
    /\ \A d \in Changes : \A s \in record[d] : sess[s].phase # "new"
    /\ \A s \in Sessions : Good(sess[s], Awaited(s))

----------------------------------------------------------------------------
(* What the methods leave alone, and what they do *)

LEMMA Bounds ==
    /\ QueueMax \in Nat \ {0} /\ Rate \in Nat \ {0} /\ SinkMax \in Nat \ {0}
    /\ MaxPings \in Nat \ {0} /\ MaxItems \in Nat \ {0}
BY BoundsAssumption

\* y differs from x at most in what schedule and write assign.
KeepsItems(x, y) ==
    /\ y.phase = x.phase /\ y.tokens = x.tokens /\ y.queue = x.queue /\ y.next = x.next
    /\ y.skipped = x.skipped /\ y.draining = x.draining /\ y.rendering = x.rendering
    /\ y.pings = x.pings /\ y.selected = x.selected /\ y.written = x.written
    /\ y.unshown = x.unshown /\ y.reported = x.reported /\ y.last = x.last

LEMMA CountsAreNumbers ==
    ASSUME NEW x \in Session
    PROVE  /\ Busy(x) \in Nat /\ Held(x) \in Nat /\ Settled(x) \in Nat /\ Len(x.queue) \in Nat
           /\ x.next \in Nat /\ x.selected \in Nat /\ x.selected <= MaxItems
           /\ x.sink \in Nat /\ x.listeners \in Nat /\ x.last \in Nat
           /\ x.written \in Nat /\ x.unshown \in Nat /\ x.reported \in Nat /\ x.skipped \in Nat
<1>1. Len(x.queue) \in Nat
    BY DEF Session
<1>2. x.selected \in Nat /\ x.selected <= MaxItems
    BY Bounds DEF Session
<1>3. /\ x.next \in Nat /\ x.sink \in Nat /\ x.listeners \in Nat /\ x.last \in Nat
      /\ x.written \in Nat /\ x.unshown \in Nat /\ x.reported \in Nat /\ x.skipped \in Nat
    BY DEF Session
<1>4. Settled(x) \in Nat
    BY <1>3 DEF Settled
<1>5. Busy(x) \in Nat
    BY DEF Busy
<1>6. Held(x) \in Nat
    BY <1>1, <1>5 DEF Held
<1>. QED  BY <1>1, <1>2, <1>3, <1>4, <1>5, <1>6

LEMMA ScheduleEffect ==
    ASSUME NEW x \in Session, NEW y, y = schedule(x)
    PROVE  /\ y \in Session /\ KeepsItems(x, y)
           /\ y.paused = x.paused /\ y.sink = x.sink /\ y.listeners = x.listeners
           /\ y.scheduled => x.scheduled \/ ~x.draining
BY DEF schedule, Session, KeepsItems

LEMMA WriteEffect ==
    ASSUME NEW x \in Session, NEW y, y = write(x)
    PROVE  /\ y \in Session /\ KeepsItems(x, y)
           /\ y.scheduled = x.scheduled /\ y.sink = x.sink + 1
           /\ x.sink + 1 < SinkMax => y.paused = x.paused /\ y.listeners = x.listeners
           /\ ~(x.sink + 1 < SinkMax) => y.paused /\ y.listeners = x.listeners + 1
<1>1. CASE x.sink + 1 < SinkMax
    <2>1. y = [x EXCEPT !.sink = @ + 1]
        BY <1>1 DEF write
    <2>2. x.sink + 1 \in Nat
        BY DEF Session
    <2>3. y \in Session
        BY <2>1, <2>2 DEF Session
    <2>4. KeepsItems(x, y)
        BY <2>1 DEF Session, KeepsItems
    <2>5. y.scheduled = x.scheduled /\ y.sink = x.sink + 1 /\ y.paused = x.paused /\ y.listeners = x.listeners
        BY <2>1 DEF Session
    <2>. QED  BY <1>1, <2>3, <2>4, <2>5
<1>2. CASE ~(x.sink + 1 < SinkMax)
    <2>1. y = [x EXCEPT !.sink = @ + 1, !.paused = TRUE, !.listeners = @ + 1]
        BY <1>2 DEF write
    <2>2. x.sink + 1 \in Nat /\ x.listeners + 1 \in Nat
        BY DEF Session
    <2>3. y \in Session
        BY <2>1, <2>2 DEF Session
    <2>4. KeepsItems(x, y)
        BY <2>1 DEF Session, KeepsItems
    <2>5. y.scheduled = x.scheduled /\ y.sink = x.sink + 1 /\ y.paused /\ y.listeners = x.listeners + 1
        BY <2>1 DEF Session
    <2>. QED  BY <1>2, <2>3, <2>4, <2>5
<1>. QED  BY <1>1, <1>2

LEMMA ScheduleIsGood ==
    ASSUME NEW x, NEW w \in Nat, Good(x, w), NEW y, y = schedule(x)
    PROVE  Good(y, w) /\ y.phase = x.phase
<1>1. x \in Session
    BY DEF Good
<1>2. /\ y \in Session /\ KeepsItems(x, y)
      /\ y.paused = x.paused /\ y.sink = x.sink /\ y.listeners = x.listeners
      /\ y.scheduled => x.scheduled \/ ~x.draining
    BY <1>1, ScheduleEffect
<1>3. Ordered(y)
    BY <1>2 DEF Good, Ordered, KeepsItems
<1>4. OneDrain(y)
    BY <1>2 DEF Good, OneDrain, KeepsItems
<1>5. Buffered(y)
    BY <1>2 DEF Good, Buffered, Busy, KeepsItems
<1>6. Accounted(y, w)
    BY <1>2 DEF Good, Accounted, Busy, Held, Settled, KeepsItems
<1>. QED  BY <1>2, <1>3, <1>4, <1>5, <1>6 DEF Good, KeepsItems

LEMMA AdmitIsGood ==
    ASSUME NEW x, NEW w \in Nat, Good(x, w), x.phase = "open", x.selected < MaxItems,
           NEW y, y = admit(x)
    PROVE  /\ y.phase = "open" /\ y \in Session
           /\ hasToken(x) => Good(y, w + 1)
           /\ ~hasToken(x) => Good(y, w)
<1>1. x \in Session
    BY DEF Good
<1>2. /\ y \in Session
      /\ y.phase = x.phase /\ y.queue = x.queue /\ y.next = x.next /\ y.last = x.last
      /\ y.rendering = x.rendering /\ y.draining = x.draining /\ y.scheduled = x.scheduled
      /\ y.paused = x.paused /\ y.sink = x.sink /\ y.listeners = x.listeners
      /\ y.written = x.written /\ y.unshown = x.unshown /\ y.reported = x.reported
      /\ y.selected = x.selected + 1
      /\ y.skipped = IF hasToken(x) THEN x.skipped ELSE x.skipped + 1
    <2>1. CASE hasToken(x)
        <3>1. y = [x EXCEPT !.selected = @ + 1, !.tokens = @ - 1]
            BY <2>1 DEF admit
        <3>2. x.tokens - 1 \in 0..Rate /\ x.selected + 1 \in 0..MaxItems
            <4>1. x.tokens \in 0..Rate /\ x.selected \in 0..MaxItems
                BY <1>1 DEF Session
            <4>2. x.tokens >= 1
                BY <2>1 DEF hasToken
            <4>. QED  BY <4>1, <4>2, Bounds
        <3>. QED  BY <1>1, <2>1, <3>1, <3>2 DEF Session
    <2>2. CASE ~hasToken(x)
        <3>1. y = [x EXCEPT !.selected = @ + 1, !.skipped = @ + 1]
            BY <2>2 DEF admit
        <3>2. x.skipped + 1 \in Nat /\ x.selected + 1 \in 0..MaxItems
            <4>1. x.skipped \in Nat /\ x.selected \in 0..MaxItems
                BY <1>1 DEF Session
            <4>. QED  BY <4>1, Bounds
        <3>. QED  BY <1>1, <2>2, <3>1, <3>2 DEF Session
    <2>. QED  BY <2>1, <2>2
<1>3. Ordered(y) /\ OneDrain(y) /\ Buffered(y)
    BY <1>2 DEF Good, Ordered, OneDrain, Buffered, Busy
<1>4. /\ hasToken(x) => Accounted(y, w + 1)
      /\ ~hasToken(x) => Accounted(y, w)
    <2>1. Accounted(x, w)
        BY DEF Good
    <2>2. Busy(y) = Busy(x) /\ Held(y) = Held(x)
        BY <1>2 DEF Busy, Held
    <2>3. Busy(x) \in Nat /\ Held(x) \in Nat /\ Settled(x) \in Nat /\ x.next \in Nat /\ x.selected \in Nat
        BY <1>1, CountsAreNumbers DEF Session
    <2>4. CASE hasToken(x)
        <3>1. Settled(y) = Settled(x)
            BY <1>1, <1>2, <2>4 DEF Settled
        <3>. QED  BY <1>2, <2>1, <2>2, <2>3, <2>4, <3>1 DEF Accounted
    <2>5. CASE ~hasToken(x)
        <3>1. Settled(y) = Settled(x) + 1
            <4>1. y.skipped = x.skipped + 1
                BY <1>2, <2>5
            <4>2. /\ x.written \in Nat /\ x.unshown \in Nat /\ x.reported \in Nat /\ x.skipped \in Nat
                BY <1>1, CountsAreNumbers
            <4>3. y.written = x.written /\ y.unshown = x.unshown /\ y.reported = x.reported
                BY <1>2
            <4>. QED  BY <4>1, <4>2, <4>3 DEF Settled
        <3>. QED  BY <1>2, <2>1, <2>2, <2>3, <2>5, <3>1 DEF Accounted
    <2>. QED  BY <2>4, <2>5
<1>. QED  BY <1>2, <1>3, <1>4 DEF Good

LEMMA WriteIsGood ==
    ASSUME NEW x, NEW w \in Nat, Good(x, w), x.phase = "open", ~x.paused, NEW y, y = write(x)
    PROVE  Good(y, w) /\ y.phase = "open"
<1>1. x \in Session
    BY DEF Good
<1>2. /\ y \in Session /\ KeepsItems(x, y)
      /\ y.scheduled = x.scheduled /\ y.sink = x.sink + 1
      /\ x.sink + 1 < SinkMax => y.paused = x.paused /\ y.listeners = x.listeners
      /\ ~(x.sink + 1 < SinkMax) => y.paused /\ y.listeners = x.listeners + 1
    BY <1>1, WriteEffect
<1>3. Ordered(y)
    BY <1>2 DEF Good, Ordered, KeepsItems
<1>4. OneDrain(y)
    BY <1>2 DEF Good, OneDrain, KeepsItems
<1>5. Buffered(y)
    <2>1. x.sink < SinkMax /\ x.listeners = 0
        BY DEF Good, Buffered
    <2>2. x.sink \in Nat
        BY <1>1, CountsAreNumbers
    <2>3. Busy(y) \in 0..1
        BY DEF Busy
    <2>4. CASE x.sink + 1 < SinkMax
        <3>1. y.paused = x.paused /\ y.listeners = x.listeners
            BY <1>2, <2>4
        <3>. QED  BY <1>2, <2>1, <2>2, <2>4, <3>1, Bounds DEF Buffered
    <2>5. CASE ~(x.sink + 1 < SinkMax)
        <3>1. y.paused /\ y.listeners = x.listeners + 1
            BY <1>2, <2>5
        <3>2. y.sink = SinkMax /\ y.listeners = 1
            BY <1>2, <2>1, <2>2, <2>5, <3>1, Bounds
        <3>. QED  BY <2>3, <3>1, <3>2, Bounds DEF Buffered
    <2>. QED  BY <2>4, <2>5
<1>6. Accounted(y, w)
    BY <1>2 DEF Good, Accounted, Busy, Held, Settled, KeepsItems
<1>. QED  BY <1>2, <1>3, <1>4, <1>5, <1>6 DEF Good, KeepsItems

LEMMA RoomIsMade ==
    ASSUME NEW x, NEW w \in Nat, Good(x, w), x.phase = "open", NEW y, y = makeRoom(x)
    PROVE  /\ Good(y, w) /\ y.phase = "open" /\ y.next = x.next
           /\ Len(y.queue) < QueueMax
<1>1. x \in Session /\ x.queue \in Seq(Nat) /\ Len(x.queue) <= QueueMax
    BY DEF Good, Session, Ordered
<1>2. CASE ~(Len(x.queue) >= QueueMax)
    <2>1. y = x
        BY <1>2 DEF makeRoom
    <2>. QED  BY <1>1, <1>2, <2>1, Bounds, CountsAreNumbers
<1>3. CASE Len(x.queue) >= QueueMax
    <2>1. y = [x EXCEPT !.queue = Tail(@), !.skipped = @ + 1]
        BY <1>3 DEF makeRoom
    <2>2. x.queue # <<>>
        BY <1>1, <1>3, Bounds, EmptySeq
    <2>3. /\ Tail(x.queue) \in Seq(Nat)
          /\ Len(Tail(x.queue)) = Len(x.queue) - 1
          /\ \A k \in 1..Len(Tail(x.queue)) : Tail(x.queue)[k] = x.queue[k + 1]
        BY <1>1, <2>2, HeadTailProperties
    <2>4. x.skipped + 1 \in Nat
        BY <1>1, CountsAreNumbers
    <2>5. y \in Session
        BY <1>1, <2>1, <2>3, <2>4 DEF Session
    <2>6. /\ y.phase = x.phase /\ y.queue = Tail(x.queue) /\ y.next = x.next /\ y.last = x.last
          /\ y.rendering = x.rendering /\ y.draining = x.draining /\ y.scheduled = x.scheduled
          /\ y.paused = x.paused /\ y.sink = x.sink /\ y.listeners = x.listeners
          /\ y.written = x.written /\ y.unshown = x.unshown /\ y.reported = x.reported
          /\ y.selected = x.selected /\ y.skipped = x.skipped + 1
        BY <1>1, <2>1 DEF Session
    <2>7. OneDrain(y) /\ Buffered(y)
        BY <2>6 DEF Good, OneDrain, Buffered, Busy
    <2>8. Len(x.queue) \in Nat /\ Len(y.queue) = Len(x.queue) - 1
        BY <1>1, <2>3, <2>6, CountsAreNumbers
    <2>9. \A k \in 1..Len(y.queue) : k + 1 \in 1..Len(x.queue) /\ y.queue[k] = x.queue[k + 1]
        BY <2>3, <2>6, <2>8
    <2>10. Ordered(y)
        <3>1. Ordered(x)
            BY DEF Good
        <3>2. Len(y.queue) <= QueueMax /\ y.last < y.next
            BY <1>1, <2>6, <2>8, <3>1, Bounds DEF Ordered
        <3>3. \A k \in 1..Len(y.queue) : y.last < y.queue[k] /\ y.queue[k] < y.next
            BY <2>6, <2>9, <3>1 DEF Ordered
        <3>4. \A j, k \in 1..Len(y.queue) : j < k => y.queue[j] < y.queue[k]
            <4>. SUFFICES ASSUME NEW j \in 1..Len(y.queue), NEW k \in 1..Len(y.queue), j < k
                          PROVE  y.queue[j] < y.queue[k]
                OBVIOUS
            <4>1. j + 1 < k + 1
                BY <2>8
            <4>. QED  BY <2>9, <3>1, <4>1 DEF Ordered
        <3>5. \A i \in y.rendering : y.last < i /\ i < y.next /\ \A k \in 1..Len(y.queue) : i < y.queue[k]
            BY <2>6, <2>9, <3>1 DEF Ordered
        <3>. QED  BY <2>6, <3>2, <3>3, <3>4, <3>5 DEF Ordered
    <2>11. Accounted(y, w)
        <3>1. Busy(y) = Busy(x)
            BY <2>6 DEF Busy
        <3>2. Held(y) = Held(x) - 1
            <4>1. Busy(x) \in Nat
                BY <1>1, CountsAreNumbers
            <4>. QED  BY <2>8, <3>1, <4>1 DEF Held
        <3>3. Settled(y) = Settled(x) + 1
            <4>1. /\ x.written \in Nat /\ x.unshown \in Nat /\ x.reported \in Nat /\ x.skipped \in Nat
                BY <1>1, CountsAreNumbers
            <4>2. /\ y.written = x.written /\ y.unshown = x.unshown /\ y.reported = x.reported
                  /\ y.skipped = x.skipped + 1
                BY <2>6
            <4>. QED  BY <4>1, <4>2 DEF Settled
        <3>4. Busy(x) \in Nat /\ Held(x) \in Nat /\ Settled(x) \in Nat /\ x.next \in Nat /\ x.selected \in Nat
            BY <1>1, CountsAreNumbers
        <3>5. Accounted(x, w)
            BY DEF Good
        <3>6. Held(x) >= 1 + Busy(x)
            <4>1. Len(x.queue) >= 1
                BY <1>3, <2>8, Bounds
            <4>. QED  BY <2>8, <3>4, <4>1 DEF Held
        <3>. QED  BY <2>6, <3>1, <3>2, <3>3, <3>4, <3>5, <3>6 DEF Accounted
    <2>. QED  BY <1>1, <2>5, <2>6, <2>7, <2>8, <2>10, <2>11, Bounds DEF Good
<1>. QED  BY <1>2, <1>3

LEMMA EnqueueIsGood ==
    ASSUME NEW x, NEW w \in Nat, Good(x, w + 1), x.phase # "new", NEW y, y = enqueue(x)
    PROVE  Good(y, w) /\ y.phase = x.phase
<1>1. x \in Session
    BY DEF Good
<1>2. CASE x.phase = "closed"
    <2>1. y = x
        BY <1>2 DEF enqueue
    <2>2. Accounted(x, w)
        <3>1. x.next \in Nat /\ x.selected \in Nat
            BY <1>1, CountsAreNumbers
        <3>2. Accounted(x, w + 1)
            BY DEF Good
        <3>. QED  BY <1>2, <3>1, <3>2 DEF Accounted
    <2>. QED  BY <2>1, <2>2 DEF Good
<1>3. CASE x.phase # "closed"
    <2>1. x.phase = "open"
        BY <1>1, <1>3 DEF Session
    <2>2. PICK r : r = makeRoom(x)
        OBVIOUS
    <2>3. /\ Good(r, w + 1) /\ r.phase = "open" /\ r.next = x.next
          /\ Len(r.queue) < QueueMax
        BY <2>1, <2>2, RoomIsMade
    <2>4. PICK a : a = [r EXCEPT !.queue = Append(@, x.next), !.next = @ + 1]
        OBVIOUS
    <2>5. y = schedule(a)
        BY <1>3, <2>2, <2>4 DEF enqueue
    <2>6. r \in Session /\ r.queue \in Seq(Nat) /\ r.next \in Nat /\ r.next + 1 \in Nat
        <3>1. r \in Session
            BY <2>3 DEF Good
        <3>. QED  BY <3>1 DEF Session
    <2>7. PICK q : q = Append(r.queue, r.next)
        OBVIOUS
    <2>8. /\ q \in Seq(Nat) /\ Len(q) = Len(r.queue) + 1
          /\ \A k \in 1..Len(r.queue) : q[k] = r.queue[k]
          /\ q[Len(r.queue) + 1] = r.next
        BY <2>6, <2>7, AppendProperties
    <2>9. a = [r EXCEPT !.queue = q, !.next = r.next + 1]
        BY <2>3, <2>4, <2>7
    <2>10. a \in Session
        BY <2>6, <2>8, <2>9 DEF Session
    <2>11. /\ a.phase = r.phase /\ a.queue = q /\ a.next = r.next + 1 /\ a.last = r.last
           /\ a.rendering = r.rendering /\ a.draining = r.draining /\ a.scheduled = r.scheduled
           /\ a.paused = r.paused /\ a.sink = r.sink /\ a.listeners = r.listeners
           /\ a.written = r.written /\ a.unshown = r.unshown /\ a.reported = r.reported
           /\ a.selected = r.selected /\ a.skipped = r.skipped
        BY <2>6, <2>9 DEF Session
    <2>12. OneDrain(a) /\ Buffered(a)
        BY <2>3, <2>11 DEF Good, OneDrain, Buffered, Busy
    <2>13. Len(r.queue) \in Nat
        BY <2>6, CountsAreNumbers
    <2>14. Ordered(a)
        <3>1. Ordered(r)
            BY <2>3 DEF Good
        <3>2. \A k \in 1..Len(q) : \/ k \in 1..Len(r.queue) /\ q[k] = r.queue[k]
                                   \/ k = Len(r.queue) + 1 /\ q[k] = r.next
            BY <2>8, <2>13
        <3>3. r.last \in Nat /\ r.last < r.next
            BY <2>6, <3>1, CountsAreNumbers DEF Ordered
        <3>4. \A k \in 1..Len(q) : r.last < q[k] /\ q[k] < r.next + 1
            <4>. SUFFICES ASSUME NEW k \in 1..Len(q)
                          PROVE  r.last < q[k] /\ q[k] < r.next + 1
                OBVIOUS
            <4>1. CASE k \in 1..Len(r.queue) /\ q[k] = r.queue[k]
                <5>1. r.queue[k] \in Nat
                    BY <2>6, <4>1, ElementOfSeq
                <5>. QED  BY <2>6, <3>1, <4>1, <5>1 DEF Ordered
            <4>2. CASE q[k] = r.next
                BY <2>6, <3>3, <4>2
            <4>. QED  BY <3>2, <4>1, <4>2
        <3>5. \A j, k \in 1..Len(q) : j < k => q[j] < q[k]
            <4>. SUFFICES ASSUME NEW j \in 1..Len(q), NEW k \in 1..Len(q), j < k
                          PROVE  q[j] < q[k]
                OBVIOUS
            <4>1. j \in 1..Len(r.queue) /\ q[j] = r.queue[j]
                BY <2>8, <2>13, <3>2
            <4>2. CASE k \in 1..Len(r.queue) /\ q[k] = r.queue[k]
                BY <3>1, <4>1, <4>2 DEF Ordered
            <4>3. CASE q[k] = r.next
                BY <3>1, <4>1, <4>3 DEF Ordered
            <4>. QED  BY <3>2, <4>2, <4>3
        <3>6. \A i \in r.rendering : r.last < i /\ i < r.next + 1 /\ \A k \in 1..Len(q) : i < q[k]
            <4>. SUFFICES ASSUME NEW i \in r.rendering
                          PROVE  r.last < i /\ i < r.next + 1 /\ \A k \in 1..Len(q) : i < q[k]
                OBVIOUS
            <4>1. i \in Nat
                BY <2>6 DEF Session
            <4>2. r.last < i /\ i < r.next /\ \A k \in 1..Len(r.queue) : i < r.queue[k]
                BY <3>1 DEF Ordered
            <4>3. \A k \in 1..Len(q) : i < q[k]
                BY <3>2, <4>2
            <4>. QED  BY <2>6, <4>1, <4>2, <4>3
        <3>7. Len(q) <= QueueMax
            BY <2>3, <2>8, <2>13, Bounds
        <3>8. a.last < a.next
            BY <2>6, <2>11, <3>3
        <3>. QED  BY <2>3, <2>11, <3>4, <3>5, <3>6, <3>7, <3>8 DEF Ordered
    <2>15. Accounted(a, w)
        <3>1. Accounted(r, w + 1)
            BY <2>3 DEF Good
        <3>2. Busy(r) \in Nat /\ Held(r) \in Nat /\ Settled(r) \in Nat /\ r.next \in Nat /\ r.selected \in Nat
            BY <2>6, CountsAreNumbers
        <3>3. Busy(a) = Busy(r) /\ Settled(a) = Settled(r)
            BY <2>11 DEF Busy, Settled
        <3>4. Held(a) = Held(r) + 1
            <4>1. Len(a.queue) = Len(r.queue) + 1
                BY <2>8, <2>11
            <4>. QED  BY <2>13, <3>2, <3>3, <4>1 DEF Held
        <3>. QED  BY <2>11, <3>1, <3>2, <3>3, <3>4 DEF Accounted
    <2>16. Good(a, w)
        BY <2>10, <2>12, <2>14, <2>15 DEF Good
    <2>. QED  BY <2>1, <2>3, <2>5, <2>11, <2>16, ScheduleIsGood
<1>. QED  BY <1>2, <1>3

LEMMA DrainIsGood ==
    ASSUME NEW x \in Session, NEW w \in Nat, Ordered(x), Buffered(x), Accounted(x, w),
           x.rendering = {}, x.draining, ~x.scheduled,
           NEW y, y = drainOn(x)
    PROVE  Good(y, w) /\ y.phase = x.phase
<1>1. CASE x.paused \/ x.phase = "closed" \/ x.queue = <<>>
    <2>1. y = [x EXCEPT !.draining = FALSE]
        BY <1>1 DEF drainOn
    <2>2. /\ y \in Session
          /\ y.phase = x.phase /\ y.queue = x.queue /\ y.next = x.next /\ y.last = x.last
          /\ y.rendering = x.rendering /\ ~y.draining /\ y.scheduled = x.scheduled
          /\ y.paused = x.paused /\ y.sink = x.sink /\ y.listeners = x.listeners
          /\ y.written = x.written /\ y.unshown = x.unshown /\ y.reported = x.reported
          /\ y.selected = x.selected /\ y.skipped = x.skipped
        BY <2>1 DEF Session
    <2>3. Ordered(y)
        BY <2>2 DEF Ordered
    <2>4. OneDrain(y)
        BY <2>2 DEF OneDrain
    <2>5. Buffered(y)
        BY <2>2 DEF Buffered, Busy
    <2>6. Accounted(y, w)
        BY <2>2 DEF Accounted, Busy, Held, Settled
    <2>. QED  BY <2>2, <2>3, <2>4, <2>5, <2>6 DEF Good
<1>2. CASE ~(x.paused \/ x.phase = "closed" \/ x.queue = <<>>)
    <2>1. y = [x EXCEPT !.queue = Tail(@), !.rendering = @ \union {Head(x.queue)}]
        BY <1>2 DEF drainOn
    <2>2. x.queue \in Seq(Nat) /\ x.queue # <<>>
        BY <1>2 DEF Session
    <2>3. PICK h, q : h = Head(x.queue) /\ q = Tail(x.queue)
        OBVIOUS
    <2>4. /\ h \in Nat /\ q \in Seq(Nat) /\ Len(q) = Len(x.queue) - 1
          /\ \A k \in 1..Len(q) : q[k] = x.queue[k + 1]
        BY <2>2, <2>3, HeadTailProperties
    <2>5. h = x.queue[1] /\ Len(x.queue) \in Nat \ {0}
        BY <2>2, <2>3, EmptySeq
    <2>6. y = [x EXCEPT !.queue = q, !.rendering = {h}]
        BY <2>1, <2>3
    <2>7. {h} \in SUBSET Nat
        BY <2>4
    <2>8. y \in Session
        BY <2>4, <2>6, <2>7 DEF Session
    <2>9. /\ y.phase = x.phase /\ y.queue = q /\ y.next = x.next /\ y.last = x.last
          /\ y.rendering = {h} /\ y.draining = x.draining /\ y.scheduled = x.scheduled
          /\ y.paused = x.paused /\ y.sink = x.sink /\ y.listeners = x.listeners
          /\ y.written = x.written /\ y.unshown = x.unshown /\ y.reported = x.reported
          /\ y.selected = x.selected /\ y.skipped = x.skipped
        BY <2>6 DEF Session
    <2>10. x.phase = "open"
        BY <1>2 DEF Ordered
    <2>11. OneDrain(y)
        BY <2>9 DEF OneDrain
    <2>12. Busy(x) = 0 /\ Busy(y) = 1
        BY <2>9 DEF Busy
    <2>13. Buffered(y)
        <3>1. x.sink < SinkMax /\ x.listeners = 0 /\ x.sink \in Nat
            BY <1>2, <2>10, CountsAreNumbers DEF Buffered
        <3>2. ~y.paused /\ y.sink = x.sink /\ y.listeners = 0
            BY <1>2, <2>9, <3>1
        <3>. QED  BY <3>1, <3>2, Bounds DEF Buffered
    <2>14. Accounted(y, w)
        <3>1. Held(y) = Held(x)
            <4>1. Len(y.queue) = Len(x.queue) - 1
                BY <2>4, <2>9
            <4>. QED  BY <2>5, <2>12, <4>1 DEF Held
        <3>2. Settled(y) = Settled(x)
            BY <2>9 DEF Settled
        <3>3. Held(x) \in Nat /\ Settled(x) \in Nat /\ x.next \in Nat /\ x.selected \in Nat
            BY CountsAreNumbers
        <3>4. Held(x) >= 1
            BY <2>5, <2>12 DEF Held
        <3>. QED  BY <2>9, <2>10, <2>12, <3>1, <3>2, <3>3, <3>4 DEF Accounted
    <2>15. Ordered(y)
        <3>1. \A k \in 1..Len(q) : /\ k + 1 \in 1..Len(x.queue) /\ 1 < k + 1
                                   /\ q[k] = x.queue[k + 1]
            BY <2>4, <2>5
        <3>2. \A k \in 1..Len(q) : x.last < q[k] /\ q[k] < x.next
            BY <3>1 DEF Ordered
        <3>3. \A j, k \in 1..Len(q) : j < k => q[j] < q[k]
            <4>. SUFFICES ASSUME NEW j \in 1..Len(q), NEW k \in 1..Len(q), j < k
                          PROVE  q[j] < q[k]
                OBVIOUS
            <4>1. j + 1 < k + 1
                BY <2>4
            <4>. QED  BY <3>1, <4>1 DEF Ordered
        <3>4. 1 \in 1..Len(x.queue)
            BY <2>5
        <3>5. x.last < h /\ h < x.next
            BY <2>5, <3>4 DEF Ordered
        <3>6. \A k \in 1..Len(q) : h < q[k]
            BY <2>5, <3>1, <3>4 DEF Ordered
        <3>7. Len(q) <= QueueMax /\ x.last < x.next
            BY <2>4, <2>5, Bounds DEF Ordered
        <3>. QED  BY <2>9, <2>10, <3>2, <3>3, <3>5, <3>6, <3>7 DEF Ordered
    <2>. QED  BY <2>8, <2>9, <2>11, <2>13, <2>14, <2>15 DEF Good
<1>. QED  BY <1>1, <1>2

LEMMA StartIsGood ==
    ASSUME NEW x, NEW w \in Nat, Good(x, w), x.scheduled,
           NEW y, y = drainOn([x EXCEPT !.scheduled = FALSE, !.draining = TRUE])
    PROVE  Good(y, w) /\ y.phase = x.phase
<1>1. x \in Session /\ x.rendering = {}
    BY DEF Good, OneDrain
<1>2. PICK z : z = [x EXCEPT !.scheduled = FALSE, !.draining = TRUE]
    OBVIOUS
<1>3. /\ z \in Session
      /\ z.phase = x.phase /\ z.queue = x.queue /\ z.next = x.next /\ z.last = x.last
      /\ z.rendering = {} /\ z.draining /\ ~z.scheduled
      /\ z.paused = x.paused /\ z.sink = x.sink /\ z.listeners = x.listeners
      /\ z.written = x.written /\ z.unshown = x.unshown /\ z.reported = x.reported
      /\ z.selected = x.selected /\ z.skipped = x.skipped
    BY <1>1, <1>2 DEF Session
<1>4. Ordered(z)
    BY <1>1, <1>3 DEF Good, Ordered
<1>5. Buffered(z)
    BY <1>1, <1>3 DEF Good, Buffered, Busy
<1>6. Accounted(z, w)
    BY <1>1, <1>3 DEF Good, Accounted, Busy, Held, Settled
<1>7. Good(drainOn(z), w) /\ drainOn(z).phase = z.phase
    BY <1>3, <1>4, <1>5, <1>6, DrainIsGood
<1>. QED  BY <1>2, <1>3, <1>7

\* What Rendered hands on to the loop.
Shown(x, i, event) ==
    IF event /\ x.phase = "open" THEN [write(x) EXCEPT !.written = @ + 1, !.last = i]
    ELSE [x EXCEPT !.unshown = @ + 1]

LEMMA RenderedIsGood ==
    ASSUME NEW x, NEW w \in Nat, Good(x, w), NEW i \in x.rendering, NEW event \in BOOLEAN,
           NEW y, y = drainOn(Shown([x EXCEPT !.rendering = @ \ {i}], i, event))
    PROVE  Good(y, w) /\ y.phase = x.phase
<1>1. /\ x \in Session /\ i \in Nat /\ x.rendering \ {i} = {}
      /\ x.draining /\ ~x.scheduled /\ Busy(x) = 1
    <2>1. x \in Session
        BY DEF Good
    <2>2. x.rendering \ {i} = {} /\ x.draining /\ ~x.scheduled
        BY DEF Good, OneDrain
    <2>. QED  BY <2>1, <2>2 DEF Session, Busy
<1>2. PICK z : z = [x EXCEPT !.rendering = {}]
    OBVIOUS
<1>3. /\ z \in Session
      /\ z.phase = x.phase /\ z.queue = x.queue /\ z.next = x.next /\ z.last = x.last
      /\ z.rendering = {} /\ z.draining /\ ~z.scheduled
      /\ z.paused = x.paused /\ z.sink = x.sink /\ z.listeners = x.listeners
      /\ z.written = x.written /\ z.unshown = x.unshown /\ z.reported = x.reported
      /\ z.selected = x.selected /\ z.skipped = x.skipped
    BY <1>1, <1>2 DEF Session
<1>4. PICK v : v = Shown(z, i, event)
    OBVIOUS
<1>5. [x EXCEPT !.rendering = @ \ {i}] = z
    BY <1>1, <1>2
<1>6. y = drainOn(v)
    BY <1>4, <1>5
<1>7. Ordered(x) /\ Buffered(x) /\ Accounted(x, w)
    BY DEF Good
<1>8. x.last < i /\ i < x.next /\ \A k \in 1..Len(x.queue) : i < x.queue[k]
    BY <1>7 DEF Ordered
<1>9. Busy(z) = 0 /\ Len(z.queue) = Len(x.queue)
    BY <1>3 DEF Busy
<1>10. /\ Busy(x) \in Nat /\ Held(x) \in Nat /\ Settled(x) \in Nat /\ x.selected \in Nat /\ x.next \in Nat
       /\ x.sink \in Nat /\ x.listeners \in Nat /\ Len(x.queue) \in Nat
       /\ x.written \in Nat /\ x.unshown \in Nat /\ x.reported \in Nat /\ x.skipped \in Nat
    BY <1>1, CountsAreNumbers
<1>11. CASE event /\ z.phase = "open"
    <2>1. PICK u : u = write(z)
        OBVIOUS
    <2>2. /\ u \in Session /\ KeepsItems(z, u)
          /\ u.scheduled = z.scheduled /\ u.sink = z.sink + 1
          /\ z.sink + 1 < SinkMax => u.paused = z.paused /\ u.listeners = z.listeners
          /\ ~(z.sink + 1 < SinkMax) => u.paused /\ u.listeners = z.listeners + 1
        BY <1>3, <2>1, WriteEffect
    <2>3. v = [u EXCEPT !.written = @ + 1, !.last = i]
        BY <1>4, <1>11, <2>1 DEF Shown
    <2>4. u.written + 1 \in Nat
        BY <2>2, CountsAreNumbers
    <2>5. v \in Session
        BY <1>1, <2>2, <2>3, <2>4 DEF Session
    <2>6. /\ v.phase = u.phase /\ v.queue = u.queue /\ v.next = u.next /\ v.last = i
          /\ v.rendering = u.rendering /\ v.draining = u.draining /\ v.scheduled = u.scheduled
          /\ v.paused = u.paused /\ v.sink = u.sink /\ v.listeners = u.listeners
          /\ v.written = u.written + 1 /\ v.unshown = u.unshown /\ v.reported = u.reported
          /\ v.selected = u.selected /\ v.skipped = u.skipped
        BY <2>2, <2>3 DEF Session
    <2>7. /\ v.phase = x.phase /\ v.queue = x.queue /\ v.next = x.next /\ v.last = i
          /\ v.rendering = {} /\ v.draining /\ ~v.scheduled /\ v.sink = x.sink + 1
          /\ v.written = x.written + 1 /\ v.unshown = x.unshown /\ v.reported = x.reported
          /\ v.selected = x.selected /\ v.skipped = x.skipped
        BY <1>3, <2>2, <2>6 DEF KeepsItems
    <2>8. /\ x.sink + 1 < SinkMax => v.paused = x.paused /\ v.listeners = x.listeners
          /\ ~(x.sink + 1 < SinkMax) => v.paused /\ v.listeners = x.listeners + 1
        BY <1>3, <2>2, <2>6
    <2>9. x.phase = "open"
        BY <1>3, <1>11
    <2>10. Ordered(v)
        BY <1>7, <1>8, <2>7, <2>9 DEF Ordered
    <2>11. Buffered(v)
        <3>1. Busy(v) = 0
            BY <2>7 DEF Busy
        <3>2. /\ ~x.paused => x.sink < SinkMax /\ x.listeners = 0
              /\ x.paused => x.sink + 1 <= SinkMax + 1 /\ x.listeners + 1 <= 2
            BY <1>1, <1>7, <2>9 DEF Buffered
        <3>3. v.sink <= SinkMax + 1
            BY <1>10, <2>7, <3>2, Bounds
        <3>4. v.listeners <= 2
            BY <1>10, <2>8, <3>2
        <3>5. ~v.paused => v.sink < SinkMax /\ v.listeners = 0
            BY <1>10, <2>7, <2>8, <3>2, Bounds
        <3>6. v.listeners \in Nat /\ v.sink \in Nat
            BY <2>5, CountsAreNumbers
        <3>. QED  BY <3>1, <3>3, <3>4, <3>5, <3>6, Bounds DEF Buffered
    <2>12. Accounted(v, w)
        <3>1. Busy(v) = 0
            BY <2>7 DEF Busy
        <3>2. Held(v) = Held(x) - 1
            <4>1. Len(v.queue) = Len(x.queue)
                BY <2>7
            <4>. QED  BY <1>1, <1>10, <3>1, <4>1 DEF Held
        <3>3. Settled(v) = Settled(x) + 1
            BY <1>10, <2>7 DEF Settled
        <3>4. v.phase = x.phase /\ v.next = x.next /\ v.selected = x.selected /\ Busy(x) = 1
            BY <1>1, <2>7
        <3>5. Held(x) \in Nat /\ Settled(x) \in Nat /\ x.selected \in Nat /\ x.next \in Nat
            BY <1>10
        <3>6. Accounted(x, w)
            BY <1>7
        <3>. QED  BY <3>1, <3>2, <3>3, <3>4, <3>5, <3>6 DEF Accounted
    <2>13. Good(drainOn(v), w) /\ drainOn(v).phase = v.phase
        BY <2>5, <2>7, <2>10, <2>11, <2>12, DrainIsGood
    <2>. QED  BY <1>6, <2>7, <2>13
<1>12. CASE ~(event /\ z.phase = "open")
    <2>1. v = [z EXCEPT !.unshown = @ + 1]
        BY <1>4, <1>12 DEF Shown
    <2>2. z.unshown + 1 \in Nat
        BY <1>3, CountsAreNumbers
    <2>3. v \in Session
        BY <1>3, <2>1, <2>2 DEF Session
    <2>4. /\ v.phase = z.phase /\ v.queue = z.queue /\ v.next = z.next /\ v.last = z.last
          /\ v.rendering = z.rendering /\ v.draining = z.draining /\ v.scheduled = z.scheduled
          /\ v.paused = z.paused /\ v.sink = z.sink /\ v.listeners = z.listeners
          /\ v.written = z.written /\ v.unshown = z.unshown + 1 /\ v.reported = z.reported
          /\ v.selected = z.selected /\ v.skipped = z.skipped
        BY <1>3, <2>1 DEF Session
    <2>5. /\ v.phase = x.phase /\ v.queue = x.queue /\ v.next = x.next /\ v.last = x.last
          /\ v.rendering = {} /\ v.draining /\ ~v.scheduled
          /\ v.paused = x.paused /\ v.sink = x.sink /\ v.listeners = x.listeners
          /\ v.written = x.written /\ v.unshown = x.unshown + 1 /\ v.reported = x.reported
          /\ v.selected = x.selected /\ v.skipped = x.skipped
        BY <1>3, <2>4
    <2>6. Ordered(v)
        BY <1>7, <2>5 DEF Ordered
    <2>7. Busy(v) = 0
        BY <2>5 DEF Busy
    <2>8. Buffered(v)
        BY <1>1, <1>7, <1>10, <2>5, <2>7, Bounds DEF Buffered
    <2>9. Accounted(v, w)
        <3>1. Held(v) = Held(x) - 1
            <4>1. Len(v.queue) = Len(x.queue)
                BY <2>5
            <4>. QED  BY <1>1, <1>10, <2>7, <4>1 DEF Held
        <3>2. Settled(v) = Settled(x) + 1
            <4>1. /\ v.written = x.written /\ v.unshown = x.unshown + 1
                  /\ v.reported = x.reported /\ v.skipped = x.skipped
                BY <2>5
            <4>2. /\ x.written \in Nat /\ x.unshown \in Nat /\ x.reported \in Nat /\ x.skipped \in Nat
                BY <1>10
            <4>. QED  BY <4>1, <4>2 DEF Settled
        <3>. QED  BY <1>1, <1>7, <1>10, <2>5, <2>7, <3>1, <3>2 DEF Accounted
    <2>10. Good(drainOn(v), w) /\ drainOn(v).phase = v.phase
        BY <2>3, <2>5, <2>6, <2>8, <2>9, DrainIsGood
    <2>. QED  BY <1>6, <2>5, <2>10
<1>. QED  BY <1>11, <1>12

LEMMA OpenedIsGood ==
    ASSUME NEW y, y = write([Fresh EXCEPT !.phase = "open"])
    PROVE  Good(y, 0) /\ y.phase = "open"
<1>1. PICK x : x = [Fresh EXCEPT !.phase = "open"]
    OBVIOUS
<1>2. Good(x, 0) /\ x.phase = "open" /\ ~x.paused
    <2>1. <<>> \in Seq(Nat) /\ Len(<<>>) = 0
        BY EmptySeq
    <2>2. x = [phase |-> "open", tokens |-> Rate, queue |-> <<>>, next |-> 1, skipped |-> 0,
               scheduled |-> FALSE, draining |-> FALSE, paused |-> FALSE, rendering |-> {},
               sink |-> 0, listeners |-> 0, pings |-> 0,
               selected |-> 0, written |-> 0, unshown |-> 0, reported |-> 0, last |-> 0]
        BY <1>1 DEF Fresh
    <2>3. x \in Session
        BY <2>1, <2>2, Bounds DEF Session
    <2>4. Ordered(x)
        BY <2>1, <2>2, Bounds DEF Ordered
    <2>5. OneDrain(x)
        BY <2>2 DEF OneDrain
    <2>6. Buffered(x)
        BY <2>2, Bounds DEF Buffered, Busy
    <2>7. Accounted(x, 0)
        BY <2>1, <2>2 DEF Accounted, Settled, Held, Busy
    <2>. QED  BY <2>2, <2>3, <2>4, <2>5, <2>6, <2>7 DEF Good
<1>. QED  BY <1>1, <1>2, WriteIsGood

LEMMA FreshIsGood == Good(Fresh, 0) /\ Fresh.phase = "new"
<1>1. PICK x : x = Fresh
    OBVIOUS
<1>2. <<>> \in Seq(Nat) /\ Len(<<>>) = 0
    BY EmptySeq
<1>3. x \in Session
    BY <1>1, <1>2, Bounds DEF Session, Fresh
<1>4. Ordered(x)
    BY <1>1, <1>2, Bounds DEF Ordered, Fresh
<1>5. OneDrain(x)
    BY <1>1 DEF OneDrain, Fresh
<1>6. Buffered(x)
    BY <1>1, Bounds DEF Buffered, Busy, Fresh
<1>7. Accounted(x, 0)
    BY <1>1, <1>2 DEF Accounted, Settled, Held, Busy, Fresh
<1>. QED  BY <1>1, <1>3, <1>4, <1>5, <1>6, <1>7 DEF Good, Fresh

LEMMA ClosedIsGood ==
    ASSUME NEW x, NEW w \in Nat, Good(x, w), NEW y, y = [x EXCEPT !.phase = "closed", !.queue = <<>>]
    PROVE  Good(y, w) /\ y.phase = "closed"
<1>1. x \in Session
    BY DEF Good
<1>2. <<>> \in Seq(Nat) /\ Len(<<>>) = 0
    BY EmptySeq
<1>3. /\ y \in Session
      /\ y.phase = "closed" /\ y.queue = <<>> /\ y.next = x.next /\ y.last = x.last
      /\ y.rendering = x.rendering /\ y.draining = x.draining /\ y.scheduled = x.scheduled
      /\ y.paused = x.paused /\ y.sink = x.sink /\ y.listeners = x.listeners
      /\ y.written = x.written /\ y.unshown = x.unshown /\ y.reported = x.reported
      /\ y.selected = x.selected /\ y.skipped = x.skipped
    BY <1>1, <1>2 DEF Session
<1>4. Ordered(y)
    BY <1>2, <1>3, Bounds DEF Good, Ordered
<1>5. OneDrain(y)
    BY <1>3 DEF Good, OneDrain
<1>6. Buffered(y)
    BY <1>3 DEF Good, Buffered
<1>7. Accounted(y, w)
    BY <1>3 DEF Good, Accounted, Busy, Settled
<1>. QED  BY <1>3, <1>4, <1>5, <1>6, <1>7 DEF Good

LEMMA ReportedIsGood ==
    ASSUME NEW x, NEW w \in Nat, Good(x, w), x.phase = "open", ~x.paused,
           NEW y, y = [write(x) EXCEPT !.reported = @ + x.skipped, !.skipped = 0]
    PROVE  Good(y, w) /\ y.phase = "open"
<1>1. x \in Session
    BY DEF Good
<1>2. PICK u : u = write(x)
    OBVIOUS
<1>3. Good(u, w) /\ u.phase = "open" /\ u \in Session
    BY <1>2, WriteIsGood DEF Good
<1>4. u.skipped = x.skipped
    BY <1>1, <1>2, WriteEffect DEF KeepsItems
<1>5. /\ u.written \in Nat /\ u.unshown \in Nat /\ u.reported \in Nat /\ u.skipped \in Nat
    BY <1>3, CountsAreNumbers
<1>6. PICK n : n = u.reported + u.skipped
    OBVIOUS
<1>7. n \in Nat
    BY <1>5, <1>6
<1>8. y = [u EXCEPT !.reported = n, !.skipped = 0]
    BY <1>2, <1>4, <1>6
<1>9. /\ y \in Session
      /\ y.phase = u.phase /\ y.queue = u.queue /\ y.next = u.next /\ y.last = u.last
      /\ y.rendering = u.rendering /\ y.draining = u.draining /\ y.scheduled = u.scheduled
      /\ y.paused = u.paused /\ y.sink = u.sink /\ y.listeners = u.listeners
      /\ y.written = u.written /\ y.unshown = u.unshown /\ y.reported = n
      /\ y.selected = u.selected /\ y.skipped = 0
    <2>1. y \in Session
        <3>1. u \in Session /\ 0 \in Nat
            BY <1>3
        <3>2. PICK v : v = [u EXCEPT !.reported = n]
            OBVIOUS
        <3>3. v \in Session
            BY <1>7, <3>1, <3>2 DEF Session
        <3>4. y = [v EXCEPT !.skipped = 0]
            BY <1>8, <3>1, <3>2 DEF Session
        <3>. QED  BY <3>1, <3>3, <3>4 DEF Session
    <2>2. /\ y.phase = u.phase /\ y.queue = u.queue /\ y.next = u.next /\ y.last = u.last
          /\ y.rendering = u.rendering /\ y.draining = u.draining /\ y.scheduled = u.scheduled
          /\ y.paused = u.paused /\ y.sink = u.sink /\ y.listeners = u.listeners
        BY <1>3, <1>8 DEF Session
    <2>3. /\ y.written = u.written /\ y.unshown = u.unshown /\ y.reported = n
          /\ y.selected = u.selected /\ y.skipped = 0
        BY <1>3, <1>8 DEF Session
    <2>. QED  BY <2>1, <2>2, <2>3
<1>10. Ordered(y)
    BY <1>3, <1>9 DEF Good, Ordered
<1>11. OneDrain(y)
    BY <1>3, <1>9 DEF Good, OneDrain
<1>12. Buffered(y)
    BY <1>3, <1>9 DEF Good, Buffered, Busy
<1>13. Settled(y) = Settled(u)
    <2>1. y.written = u.written /\ y.unshown = u.unshown /\ y.reported = u.reported + u.skipped /\ y.skipped = 0
        BY <1>6, <1>9
    <2>. QED  BY <1>5, <2>1 DEF Settled
<1>14. Accounted(y, w)
    BY <1>3, <1>9, <1>13 DEF Good, Accounted, Busy, Held
<1>. QED  BY <1>3, <1>9, <1>10, <1>11, <1>12, <1>14 DEF Good

LEMMA OtherCountsAreGood ==
    ASSUME NEW x, NEW w \in Nat, Good(x, w), NEW n,
           NEW y, \/ n \in 0..MaxPings /\ y = [x EXCEPT !.pings = n]
                  \/ n \in 0..Rate /\ y = [x EXCEPT !.tokens = n]
    PROVE  Good(y, w) /\ y.phase = x.phase
<1>1. x \in Session
    BY DEF Good
<1>2. /\ y \in Session
      /\ y.phase = x.phase /\ y.queue = x.queue /\ y.next = x.next /\ y.last = x.last
      /\ y.rendering = x.rendering /\ y.draining = x.draining /\ y.scheduled = x.scheduled
      /\ y.paused = x.paused /\ y.sink = x.sink /\ y.listeners = x.listeners
      /\ y.written = x.written /\ y.unshown = x.unshown /\ y.reported = x.reported
      /\ y.selected = x.selected /\ y.skipped = x.skipped
    BY <1>1 DEF Session
<1>3. Ordered(y)
    BY <1>2 DEF Good, Ordered
<1>4. OneDrain(y)
    BY <1>2 DEF Good, OneDrain
<1>5. Buffered(y)
    BY <1>2 DEF Good, Buffered, Busy
<1>6. Accounted(y, w)
    BY <1>2 DEF Good, Accounted, Busy, Held, Settled
<1>. QED  BY <1>2, <1>3, <1>4, <1>5, <1>6 DEF Good

LEMMA DrainedIsGood ==
    ASSUME NEW x, NEW w \in Nat, Good(x, w), x.phase = "open",
           NEW z, z = [x EXCEPT !.sink = 0, !.listeners = 0],
           NEW y, y = IF x.listeners = 0 THEN z ELSE schedule([z EXCEPT !.paused = FALSE])
    PROVE  Good(y, w) /\ y.phase = "open"
<1>1. x \in Session
    BY DEF Good
<1>2. CASE x.listeners = 0
    <2>1. /\ z \in Session
          /\ z.phase = x.phase /\ z.queue = x.queue /\ z.next = x.next /\ z.last = x.last
          /\ z.rendering = x.rendering /\ z.draining = x.draining /\ z.scheduled = x.scheduled
          /\ z.paused = x.paused /\ z.sink = 0 /\ z.listeners = 0
          /\ z.written = x.written /\ z.unshown = x.unshown /\ z.reported = x.reported
          /\ z.selected = x.selected /\ z.skipped = x.skipped
        BY <1>1 DEF Session
    <2>2. Ordered(z)
        BY <2>1 DEF Good, Ordered
    <2>3. OneDrain(z)
        BY <2>1 DEF Good, OneDrain
    <2>4. Buffered(z)
        BY <2>1, Bounds DEF Buffered, Busy
    <2>5. Accounted(z, w)
        BY <2>1 DEF Good, Accounted, Busy, Held, Settled
    <2>. QED  BY <1>2, <2>1, <2>2, <2>3, <2>4, <2>5 DEF Good
<1>3. CASE x.listeners # 0
    <2>1. PICK v : v = [z EXCEPT !.paused = FALSE]
        OBVIOUS
    <2>2. v = [x EXCEPT !.sink = 0, !.listeners = 0, !.paused = FALSE]
        BY <2>1
    <2>3. /\ v \in Session
          /\ v.phase = x.phase /\ v.queue = x.queue /\ v.next = x.next /\ v.last = x.last
          /\ v.rendering = x.rendering /\ v.draining = x.draining /\ v.scheduled = x.scheduled
          /\ ~v.paused /\ v.sink = 0 /\ v.listeners = 0
          /\ v.written = x.written /\ v.unshown = x.unshown /\ v.reported = x.reported
          /\ v.selected = x.selected /\ v.skipped = x.skipped
        BY <1>1, <2>2 DEF Session
    <2>4. Ordered(v)
        BY <2>3 DEF Good, Ordered
    <2>5. OneDrain(v)
        BY <2>3 DEF Good, OneDrain
    <2>6. Buffered(v)
        BY <2>3, Bounds DEF Buffered, Busy
    <2>7. Accounted(v, w)
        BY <2>3 DEF Good, Accounted, Busy, Held, Settled
    <2>8. Good(v, w) /\ y = schedule(v)
        BY <1>3, <2>1, <2>3, <2>4, <2>5, <2>6, <2>7 DEF Good
    <2>. QED  BY <2>3, <2>8, ScheduleIsGood
<1>. QED  BY <1>2, <1>3

----------------------------------------------------------------------------
(* What waits for a judgement *)

LEMMA NobodyAwaited ==
    ASSUME NEW s, \A d \in Changes : s \notin record[d]
    PROVE  Awaited(s) = 0
BY FS_EmptySet DEF Awaited

LEMMA AwaitedIsNat ==
    ASSUME NEW s
    PROVE  Awaited(s) \in Nat
<1>1. {d \in Changes : s \in record[d]} \in SUBSET Changes
    OBVIOUS
<1>2. IsFiniteSet({d \in Changes : s \in record[d]})
    BY <1>1, ChangesAssumption, FS_Subset
<1>. QED  BY <1>2, FS_CardinalityType DEF Awaited

\* One change more waits for s, or is judged.
LEMMA OneMoreAwaited ==
    ASSUME NEW s, NEW d \in Changes, NEW R, NEW Q,
           s \notin R[d], s \in Q[d], \A e \in Changes \ {d} : Q[e] = R[e]
    PROVE  Cardinality({e \in Changes : s \in Q[e]}) = Cardinality({e \in Changes : s \in R[e]}) + 1
<1>1. PICK A : A = {e \in Changes : s \in R[e]}
    OBVIOUS
<1>2. A \in SUBSET Changes /\ d \notin A
    BY <1>1
<1>3. IsFiniteSet(A)
    BY <1>2, ChangesAssumption, FS_Subset
<1>4. {e \in Changes : s \in Q[e]} = A \cup {d}
    BY <1>1
<1>. QED  BY <1>1, <1>2, <1>3, <1>4, FS_AddElement

\* No change more or less waits for s.
LEMMA AsManyAwaited ==
    ASSUME NEW s, NEW R, NEW Q, \A e \in Changes : s \in R[e] <=> s \in Q[e]
    PROVE  Cardinality({e \in Changes : s \in Q[e]}) = Cardinality({e \in Changes : s \in R[e]})
<1>1. {e \in Changes : s \in Q[e]} = {e \in Changes : s \in R[e]}
    OBVIOUS
<1>. QED  BY <1>1

----------------------------------------------------------------------------
(* The invariant is inductive *)

LEMMA InitHolds == Init => StreamsInv
<1>. SUFFICES ASSUME Init PROVE StreamsInv
    OBVIOUS
<1>1. sess = [s \in Sessions |-> Fresh] /\ record = [d \in Changes |-> {}]
    BY DEF Init
<1>2. Good(Fresh, 0) /\ Fresh \in Session
    BY FreshIsGood DEF Good
<1>3. \A s \in Sessions : Good(sess[s], Awaited(s))
    <2>. SUFFICES ASSUME NEW s \in Sessions PROVE Good(sess[s], Awaited(s))
        OBVIOUS
    <2>1. Awaited(s) = 0
        BY <1>1, NobodyAwaited
    <2>. QED  BY <1>1, <1>2, <2>1
<1>. QED  BY <1>1, <1>2, <1>3 DEF StreamsInv

LEMMA OneSessionMoves ==
    ASSUME StreamsInv, NEW s \in Sessions, NEW y, Good(y, Awaited(s)),
           y.phase = "new" => sess[s].phase = "new",
           sess' = [sess EXCEPT ![s] = y], record' = record
    PROVE  StreamsInv'
<1>1. sess' \in [Sessions -> Session]
    BY DEF StreamsInv, Good
<1>2. record' \in [Changes -> SUBSET Sessions]
    BY DEF StreamsInv
<1>3. \A d \in Changes : \A t \in record'[d] : sess'[t].phase # "new"
    BY DEF StreamsInv
<1>4. \A t \in Sessions : Good(sess'[t], Awaited(t)')
    <2>. SUFFICES ASSUME NEW t \in Sessions PROVE Good(sess'[t], Awaited(t)')
        OBVIOUS
    <2>1. Awaited(t)' = Awaited(t)
        BY DEF Awaited
    <2>2. CASE t = s
        BY <2>1, <2>2 DEF StreamsInv
    <2>3. CASE t # s
        <3>1. sess'[t] = sess[t]
            BY <2>3 DEF StreamsInv
        <3>. QED  BY <2>1, <3>1 DEF StreamsInv
    <2>. QED  BY <2>2, <2>3
<1>. QED  BY <1>1, <1>2, <1>3, <1>4 DEF StreamsInv

LEMMA BeginKeepsInv ==
    ASSUME StreamsInv, NEW d \in Changes, NEW S, Begin(d, S)
    PROVE  StreamsInv'
<1>1. PICK wanting : wanting = {s \in S : hasToken(sess[s])}
    OBVIOUS
<1>2. /\ record[d] = {}
      /\ sess' = [s \in Sessions |-> IF s \in S THEN admit(sess[s]) ELSE sess[s]]
      /\ record' = [record EXCEPT ![d] = wanting]
    BY <1>1 DEF Begin
<1>3. \A s \in S : s \in Sessions /\ sess[s].phase = "open" /\ sess[s].selected < MaxItems
    BY DEF Begin, Select, Open
<1>4. wanting \in SUBSET S
    BY <1>1
<1>5. \A t \in Sessions : Good(sess'[t], Awaited(t)') /\ sess'[t].phase = sess[t].phase
    <2>. SUFFICES ASSUME NEW t \in Sessions
                  PROVE  Good(sess'[t], Awaited(t)') /\ sess'[t].phase = sess[t].phase
        OBVIOUS
    <2>1. Good(sess[t], Awaited(t)) /\ Awaited(t) \in Nat
        BY AwaitedIsNat DEF StreamsInv
    <2>2. CASE t \in wanting
        <3>1. t \notin record[d] /\ t \in record'[d] /\ \A e \in Changes \ {d} : record'[e] = record[e]
            BY <1>2, <2>2 DEF StreamsInv
        <3>2. Cardinality({e \in Changes : t \in record'[e]}) = Cardinality({e \in Changes : t \in record[e]}) + 1
            BY <3>1, OneMoreAwaited
        <3>3. Awaited(t)' = Awaited(t) + 1
            BY <3>2 DEF Awaited
        <3>4. t \in S /\ hasToken(sess[t])
            BY <1>1, <2>2
        <3>5. sess'[t] = admit(sess[t])
            BY <1>2, <3>4
        <3>. QED  BY <1>3, <2>1, <3>3, <3>4, <3>5, AdmitIsGood
    <2>3. CASE t \notin wanting
        <3>1. \A e \in Changes : t \in record[e] <=> t \in record'[e]
            BY <1>2, <2>3 DEF StreamsInv
        <3>2. Awaited(t)' = Awaited(t)
            BY <3>1, AsManyAwaited DEF Awaited
        <3>3. CASE t \in S
            <4>1. ~hasToken(sess[t])
                BY <1>1, <2>3, <3>3
            <4>2. sess'[t] = admit(sess[t])
                BY <1>2, <3>3
            <4>. QED  BY <1>3, <2>1, <3>2, <3>3, <4>1, <4>2, AdmitIsGood
        <3>4. CASE t \notin S
            BY <1>2, <2>1, <3>2, <3>4
        <3>. QED  BY <3>3, <3>4
    <2>. QED  BY <2>2, <2>3
<1>6. sess' \in [Sessions -> Session]
    BY <1>2, <1>5 DEF Good
<1>7. record' \in [Changes -> SUBSET Sessions]
    BY <1>2, <1>3, <1>4 DEF StreamsInv
<1>8. \A e \in Changes : \A t \in record'[e] : sess'[t].phase # "new"
    <2>. SUFFICES ASSUME NEW e \in Changes, NEW t \in record'[e] PROVE sess'[t].phase # "new"
        OBVIOUS
    <2>1. t \in Sessions
        BY <1>7
    <2>2. sess[t].phase # "new"
        BY <1>2, <1>3, <1>4 DEF StreamsInv
    <2>. QED  BY <1>5, <2>1, <2>2
<1>. QED  BY <1>5, <1>6, <1>7, <1>8 DEF StreamsInv

LEMMA EndKeepsInv ==
    ASSUME StreamsInv, NEW d \in Changes, End(d)
    PROVE  StreamsInv'
<1>1. /\ sess' = [s \in Sessions |-> IF s \in record[d] THEN enqueue(sess[s]) ELSE sess[s]]
      /\ record' = [record EXCEPT ![d] = {}]
    BY DEF End
<1>2. record' \in [Changes -> SUBSET Sessions]
    BY <1>1 DEF StreamsInv
<1>3. \A t \in Sessions : Good(sess'[t], Awaited(t)') /\ sess'[t].phase = sess[t].phase
    <2>. SUFFICES ASSUME NEW t \in Sessions
                  PROVE  Good(sess'[t], Awaited(t)') /\ sess'[t].phase = sess[t].phase
        OBVIOUS
    <2>1. Good(sess[t], Awaited(t))
        BY DEF StreamsInv
    <2>2. CASE t \in record[d]
        <3>1. t \notin record'[d] /\ \A e \in Changes \ {d} : record[e] = record'[e]
            BY <1>1 DEF StreamsInv
        <3>2. Cardinality({e \in Changes : t \in record[e]}) = Cardinality({e \in Changes : t \in record'[e]}) + 1
            BY <2>2, <3>1, OneMoreAwaited
        <3>3. PICK w : w = Awaited(t)'
            OBVIOUS
        <3>4. Awaited(t) = w + 1
            BY <3>2, <3>3 DEF Awaited
        <3>5. w \in Nat
            <4>1. {e \in Changes : t \in record'[e]} \in SUBSET Changes
                OBVIOUS
            <4>2. IsFiniteSet({e \in Changes : t \in record'[e]})
                BY <4>1, ChangesAssumption, FS_Subset
            <4>. QED  BY <3>3, <4>2, FS_CardinalityType DEF Awaited
        <3>6. sess[t].phase # "new" /\ sess'[t] = enqueue(sess[t])
            BY <1>1, <2>2 DEF StreamsInv
        <3>7. Good(sess[t], w + 1)
            BY <2>1, <3>4
        <3>8. Good(sess'[t], w) /\ sess'[t].phase = sess[t].phase
            BY <3>5, <3>6, <3>7, EnqueueIsGood
        <3>. QED  BY <3>3, <3>8
    <2>3. CASE t \notin record[d]
        <3>1. \A e \in Changes : t \in record[e] <=> t \in record'[e]
            BY <1>1, <2>3 DEF StreamsInv
        <3>2. Awaited(t)' = Awaited(t)
            BY <3>1, AsManyAwaited DEF Awaited
        <3>. QED  BY <1>1, <2>1, <2>3, <3>2
    <2>. QED  BY <2>2, <2>3
<1>4. sess' \in [Sessions -> Session]
    BY <1>1, <1>3 DEF Good
<1>5. \A e \in Changes : \A t \in record'[e] : sess'[t].phase # "new"
    <2>. SUFFICES ASSUME NEW e \in Changes, NEW t \in record'[e] PROVE sess'[t].phase # "new"
        OBVIOUS
    <2>1. t \in Sessions
        BY <1>2
    <2>2. sess[t].phase # "new"
        BY <1>1 DEF StreamsInv
    <2>. QED  BY <1>3, <2>1, <2>2
<1>. QED  BY <1>2, <1>3, <1>4, <1>5 DEF StreamsInv

LEMMA EventKeepsInv ==
    ASSUME StreamsInv, NEW S, channelEvent(S)
    PROVE  StreamsInv'
<1>1. /\ sess' = [s \in Sessions |->
            IF s \notin S THEN sess[s]
            ELSE IF hasToken(sess[s]) THEN enqueue(admit(sess[s])) ELSE admit(sess[s])]
      /\ record' = record
    BY DEF channelEvent
<1>2. \A s \in S : s \in Sessions /\ sess[s].phase = "open" /\ sess[s].selected < MaxItems
    BY DEF channelEvent, Select, Open
<1>3. \A t \in Sessions : Good(sess'[t], Awaited(t)') /\ sess'[t].phase = sess[t].phase
    <2>. SUFFICES ASSUME NEW t \in Sessions
                  PROVE  Good(sess'[t], Awaited(t)') /\ sess'[t].phase = sess[t].phase
        OBVIOUS
    <2>1. Good(sess[t], Awaited(t)) /\ Awaited(t) \in Nat
        BY AwaitedIsNat DEF StreamsInv
    <2>2. Awaited(t)' = Awaited(t)
        BY <1>1 DEF Awaited
    <2>3. CASE t \notin S
        BY <1>1, <2>1, <2>2, <2>3
    <2>4. CASE t \in S
        <3>1. PICK a : a = admit(sess[t])
            OBVIOUS
        <3>2. /\ a.phase = "open"
              /\ hasToken(sess[t]) => Good(a, Awaited(t) + 1)
              /\ ~hasToken(sess[t]) => Good(a, Awaited(t))
            BY <1>2, <2>1, <2>4, <3>1, AdmitIsGood
        <3>3. CASE hasToken(sess[t])
            <4>1. sess'[t] = enqueue(a)
                BY <1>1, <2>4, <3>1, <3>3
            <4>2. Good(sess'[t], Awaited(t)) /\ sess'[t].phase = "open"
                BY <2>1, <3>2, <3>3, <4>1, EnqueueIsGood
            <4>. QED  BY <1>2, <2>2, <2>4, <4>2
        <3>4. CASE ~hasToken(sess[t])
            <4>1. sess'[t] = a
                BY <1>1, <2>4, <3>1, <3>4
            <4>. QED  BY <1>2, <2>2, <2>4, <3>2, <3>4, <4>1
        <3>. QED  BY <3>3, <3>4
    <2>. QED  BY <2>3, <2>4
<1>4. sess' \in [Sessions -> Session]
    BY <1>1, <1>3 DEF Good
<1>. QED  BY <1>1, <1>3, <1>4 DEF StreamsInv

LEMMA ConsumerKeepsInv ==
    ASSUME StreamsInv, NEW s \in Sessions,
           OpenStream(s) \/ Close(s) \/ StartDrain(s) \/ Render(s)
           \/ reportSkipped(s) \/ ping(s) \/ Refill(s) \/ SinkDrains(s)
    PROVE  StreamsInv'
<1>1. PICK x : x = sess[s]
    OBVIOUS
<1>2. Good(x, Awaited(s)) /\ Awaited(s) \in Nat /\ x \in Session
    BY <1>1, AwaitedIsNat DEF StreamsInv, Good
<1>3. CASE OpenStream(s)
    <2>1. PICK y : y = write([Fresh EXCEPT !.phase = "open"])
        OBVIOUS
    <2>2. sess' = [sess EXCEPT ![s] = y] /\ record' = record
        BY <1>3, <2>1 DEF OpenStream
    <2>3. Awaited(s) = 0
        BY <1>3, NobodyAwaited DEF OpenStream, Unused
    <2>. QED  BY <2>1, <2>2, <2>3, OpenedIsGood, OneSessionMoves
<1>4. CASE Close(s)
    <2>1. PICK y : y = [x EXCEPT !.phase = "closed", !.queue = <<>>]
        OBVIOUS
    <2>2. sess' = [sess EXCEPT ![s] = y] /\ record' = record
        BY <1>1, <1>4, <2>1 DEF Close, StreamsInv
    <2>. QED  BY <1>2, <2>1, <2>2, ClosedIsGood, OneSessionMoves
<1>5. CASE StartDrain(s)
    <2>1. PICK y : y = drainOn([x EXCEPT !.scheduled = FALSE, !.draining = TRUE])
        OBVIOUS
    <2>2. sess' = [sess EXCEPT ![s] = y] /\ record' = record /\ x.scheduled
        BY <1>1, <1>5, <2>1 DEF StartDrain, StreamsInv
    <2>3. Good(y, Awaited(s)) /\ y.phase = x.phase
        BY <1>2, <2>1, <2>2, StartIsGood
    <2>. QED  BY <1>1, <2>2, <2>3, OneSessionMoves
<1>6. CASE Render(s)
    <2>1. PICK i \in x.rendering, event \in BOOLEAN : Rendered(s, i, event)
        BY <1>1, <1>6 DEF Render
    <2>2. PICK y : y = drainOn(Shown([x EXCEPT !.rendering = @ \ {i}], i, event))
        OBVIOUS
    <2>3. sess' = [sess EXCEPT ![s] = y] /\ record' = record
        BY <1>1, <2>1, <2>2 DEF Rendered, Shown
    <2>4. Good(y, Awaited(s)) /\ y.phase = x.phase
        BY <1>2, <2>2, RenderedIsGood
    <2>. QED  BY <1>1, <2>3, <2>4, OneSessionMoves
<1>7. CASE reportSkipped(s)
    <2>1. PICK y : y = [write(x) EXCEPT !.reported = @ + x.skipped, !.skipped = 0]
        OBVIOUS
    <2>2. sess' = [sess EXCEPT ![s] = y] /\ record' = record /\ x.phase = "open" /\ ~x.paused
        BY <1>1, <1>7, <2>1 DEF reportSkipped
    <2>. QED  BY <1>2, <2>1, <2>2, ReportedIsGood, OneSessionMoves
<1>8. CASE ping(s)
    <2>1. x.phase = "open" /\ x.pings < MaxPings /\ record' = record
        BY <1>1, <1>8 DEF ping
    <2>2. PICK n : n = x.pings + 1
        OBVIOUS
    <2>3. n \in 0..MaxPings
        <3>1. x.pings \in 0..MaxPings
            BY <1>2 DEF Session
        <3>. QED  BY <2>1, <2>2, <3>1, Bounds
    <2>4. PICK u : u = IF x.paused THEN x ELSE write(x)
        OBVIOUS
    <2>5. Good(u, Awaited(s)) /\ u.phase = "open" /\ u.pings = x.pings
        <3>1. CASE x.paused
            BY <1>2, <2>1, <2>4, <3>1
        <3>2. CASE ~x.paused
            <4>1. u = write(x)
                BY <2>4, <3>2
            <4>2. u.pings = x.pings
                BY <1>2, <4>1, WriteEffect DEF KeepsItems
            <4>. QED  BY <1>2, <2>1, <3>2, <4>1, <4>2, WriteIsGood
        <3>. QED  BY <3>1, <3>2
    <2>6. PICK y : y = [u EXCEPT !.pings = n]
        OBVIOUS
    <2>7. sess' = [sess EXCEPT ![s] = y]
        <3>1. sess' = [sess EXCEPT ![s] = [u EXCEPT !.pings = @ + 1]]
            BY <1>1, <1>8, <2>4 DEF ping
        <3>. QED  BY <2>2, <2>5, <2>6, <3>1
    <2>8. Good(y, Awaited(s)) /\ y.phase = u.phase
        BY <1>2, <2>3, <2>5, <2>6, OtherCountsAreGood
    <2>. QED  BY <1>1, <2>1, <2>5, <2>7, <2>8, OneSessionMoves
<1>9. CASE Refill(s)
    <2>1. x.tokens < Rate /\ sess' = [sess EXCEPT ![s].tokens = @ + 1] /\ record' = record
        BY <1>1, <1>9 DEF Refill
    <2>2. PICK n : n = x.tokens + 1
        OBVIOUS
    <2>3. n \in 0..Rate
        <3>1. x.tokens \in 0..Rate /\ x.tokens < Rate
            BY <1>2, <2>1 DEF Session
        <3>. QED  BY <2>2, <3>1, Bounds
    <2>4. PICK y : y = [x EXCEPT !.tokens = n]
        OBVIOUS
    <2>5. sess' = [sess EXCEPT ![s] = y]
        BY <1>1, <2>1, <2>2, <2>4
    <2>6. Good(y, Awaited(s)) /\ y.phase = x.phase
        BY <1>2, <2>3, <2>4, OtherCountsAreGood
    <2>. QED  BY <1>1, <2>1, <2>5, <2>6, OneSessionMoves
<1>10. CASE SinkDrains(s)
    <2>1. PICK z : z = [x EXCEPT !.sink = 0, !.listeners = 0]
        OBVIOUS
    <2>2. PICK y : y = IF x.listeners = 0 THEN z ELSE schedule([z EXCEPT !.paused = FALSE])
        OBVIOUS
    <2>3. sess' = [sess EXCEPT ![s] = y] /\ record' = record /\ x.phase = "open"
        BY <1>1, <1>10, <2>1, <2>2 DEF SinkDrains
    <2>. QED  BY <1>2, <2>1, <2>2, <2>3, DrainedIsGood, OneSessionMoves
<1>. QED  BY <1>3, <1>4, <1>5, <1>6, <1>7, <1>8, <1>9, <1>10

LEMMA StepKeepsInv == StreamsInv /\ [Next]_vars => StreamsInv'
<1>. SUFFICES ASSUME StreamsInv, [Next]_vars PROVE StreamsInv'
    OBVIOUS
<1>1. CASE Deliver
    <2>1. PICK S \in SUBSET Sessions : channelEvent(S) \/ \E d \in Changes : Begin(d, S)
        BY <1>1 DEF Deliver
    <2>. QED  BY <2>1, EventKeepsInv, BeginKeepsInv
<1>2. CASE \E d \in Changes : End(d)
    BY <1>2, EndKeepsInv
<1>3. ASSUME NEW s \in Sessions,
             OpenStream(s) \/ Close(s) \/ StartDrain(s) \/ Render(s)
             \/ reportSkipped(s) \/ ping(s) \/ Refill(s) \/ SinkDrains(s)
      PROVE  StreamsInv'
    BY <1>3, ConsumerKeepsInv
<1>4. CASE UNCHANGED vars
    <2>1. sess' = sess /\ record' = record
        BY <1>4 DEF vars
    <2>2. \A s \in Sessions : Awaited(s)' = Awaited(s)
        BY <2>1 DEF Awaited
    <2>. QED  BY <2>1, <2>2 DEF StreamsInv
<1>. QED  BY <1>1, <1>2, <1>3, <1>4 DEF Next

LEMMA Invariance == Spec => []StreamsInv
BY InitHolds, StepKeepsInv, PTL DEF Spec

----------------------------------------------------------------------------
(* What the invariant says *)

\* In every stream the items are written in the order the session was handed them: the
\* loop of drain renders one at a time, and schedule starts no second loop beside it.
THEOREM StreamsAreInOrder == Spec => []StreamInOrder
<1>1. StreamsInv => StreamInOrder
    BY DEF StreamsInv, Good, Ordered, StreamInOrder
<1>. QED  BY <1>1, Invariance, PTL

\* Whatever admit turns away for want of a token and enqueue drops for want of room is in
\* the number reportSkipped sends: with what is written, shown as nothing or on its way it
\* makes up all that the filters selected.
THEOREM NothingIsLost == Spec => []EverythingIsAccounted
<1>1. ASSUME NEW x \in Session, OneDrain(x)
      PROVE  Cardinality(x.rendering) = Busy(x)
    <2>1. CASE x.rendering = {}
        BY <2>1, FS_EmptySet DEF Busy
    <2>2. CASE x.rendering # {}
        <3>1. PICK i : i \in x.rendering
            BY <2>2
        <3>2. x.rendering = {i}
            BY <1>1, <3>1 DEF OneDrain
        <3>. QED  BY <2>2, <3>2, FS_Singleton DEF Busy
    <2>. QED  BY <2>1, <2>2
<1>2. ASSUME StreamsInv PROVE EverythingIsAccounted
    <2>. SUFFICES ASSUME NEW s \in Open, NEW x, x = sess[s]
                  PROVE  x.selected = x.written + x.unshown + x.reported + x.skipped
                                      + Len(x.queue) + Cardinality(x.rendering) + Awaited(s)
        BY DEF EverythingIsAccounted
    <2>1. s \in Sessions /\ x.phase = "open"
        BY DEF Open
    <2>2. x \in Session /\ OneDrain(x) /\ Accounted(x, Awaited(s)) /\ Awaited(s) \in Nat
        BY <1>2, <2>1, AwaitedIsNat DEF StreamsInv, Good
    <2>3. PICK n, c, w : n = Len(x.queue) /\ c = Busy(x) /\ w = Awaited(s)
        OBVIOUS
    <2>4. n \in Nat /\ c \in Nat /\ w \in Nat /\ Settled(x) \in Nat
        BY <2>2, <2>3, CountsAreNumbers
    <2>5. x.selected = Settled(x) + (n + c) + w
        BY <2>1, <2>2, <2>3 DEF Accounted, Held
    <2>6. x.selected = Settled(x) + n + c + w
        BY <2>4, <2>5
    <2>. QED  BY <1>1, <2>2, <2>3, <2>6 DEF Settled
<1>. QED  BY <1>2, Invariance, PTL

\* The session's fields keep their types: the queue stays within SESSION_QUEUE_MAX, and
\* what is written past a full sink is the one item that was being rendered.
THEOREM TypeCorrect == Spec => []TypeOK
<1>1. ASSUME NEW x, NEW w \in Nat, Good(x, w)
      PROVE  /\ x.phase \in {"new", "open", "closed"}
             /\ x.queue \in Seq(Items) /\ Len(x.queue) <= QueueMax
             /\ x.rendering \subseteq Items
             /\ x.tokens \in 0..Rate /\ x.next \in 1..(MaxItems + 1) /\ x.last \in 0..MaxItems
             /\ {x.scheduled, x.draining, x.paused} \subseteq BOOLEAN
             /\ {x.skipped, x.selected, x.written, x.unshown, x.reported} \subseteq 0..MaxItems
             /\ x.sink \in 0..(SinkMax + 1) /\ x.listeners \in 0..2 /\ x.pings \in 0..MaxPings
    <2>1. x \in Session /\ Ordered(x) /\ Buffered(x) /\ Accounted(x, w)
        BY <1>1 DEF Good
    <2>2. /\ x.phase \in {"new", "open", "closed"} /\ x.tokens \in 0..Rate /\ x.pings \in 0..MaxPings
          /\ x.selected \in 0..MaxItems /\ x.queue \in Seq(Nat) /\ x.rendering \in SUBSET Nat
        BY <2>1 DEF Session
    <2>3. {x.scheduled, x.draining, x.paused} \subseteq BOOLEAN
        BY <2>1 DEF Session
    <2>4. /\ x.next \in Nat /\ x.selected \in Nat /\ x.last \in Nat /\ x.sink \in Nat /\ x.listeners \in Nat
          /\ Settled(x) \in Nat /\ Busy(x) \in Nat /\ Len(x.queue) \in Nat
        BY <2>1, CountsAreNumbers
    <2>5. x.next <= MaxItems + 1 /\ x.last < x.next
        BY <2>1, <2>2, <2>4, Bounds DEF Accounted, Ordered
    <2>6. x.next \in 1..(MaxItems + 1) /\ x.last \in 0..MaxItems
        BY <2>4, <2>5, Bounds
    <2>7. \A k \in 1..Len(x.queue) : x.queue[k] \in Items
        <3>. SUFFICES ASSUME NEW k \in 1..Len(x.queue) PROVE x.queue[k] \in Items
            OBVIOUS
        <3>1. x.queue[k] \in Nat
            BY <2>2, ElementOfSeq
        <3>2. x.last < x.queue[k] /\ x.queue[k] < x.next
            BY <2>1 DEF Ordered
        <3>. QED  BY <2>4, <2>5, <3>1, <3>2, Bounds DEF Items
    <2>8. x.queue \in Seq(Items)
        <3>1. PICK m \in Nat : x.queue \in [1..m -> Nat]
            BY <2>2, SeqDef
        <3>2. Len(x.queue) = m
            BY <2>2, <3>1
        <3>3. x.queue \in [1..m -> Items]
            BY <2>7, <3>1, <3>2
        <3>. QED  BY <3>1, <3>3, SeqDef
    <2>9. x.rendering \subseteq Items
        <3>. SUFFICES ASSUME NEW i \in x.rendering PROVE i \in Items
            OBVIOUS
        <3>1. i \in Nat
            BY <2>2
        <3>2. x.last < i /\ i < x.next
            BY <2>1 DEF Ordered
        <3>. QED  BY <2>4, <2>5, <3>1, <3>2, Bounds DEF Items
    <2>10. x.sink \in 0..(SinkMax + 1) /\ x.listeners \in 0..2
        BY <2>1, <2>4, Bounds DEF Buffered
    <2>11. Settled(x) <= MaxItems
        BY <2>1, <2>2, <2>4, Bounds DEF Accounted
    <2>12. /\ x.written \in 0..MaxItems /\ x.unshown \in 0..MaxItems
           /\ x.reported \in 0..MaxItems /\ x.skipped \in 0..MaxItems
        <3>1. /\ x.written \in Nat /\ x.unshown \in Nat /\ x.reported \in Nat /\ x.skipped \in Nat
            BY <2>1, CountsAreNumbers
        <3>2. x.written + x.unshown + x.reported + x.skipped <= MaxItems
            BY <2>11 DEF Settled
        <3>. QED  BY <3>1, <3>2, Bounds
    <2>13. {x.skipped, x.selected, x.written, x.unshown, x.reported} \subseteq 0..MaxItems
        BY <2>2, <2>12
    <2>14. Len(x.queue) <= QueueMax
        BY <2>1 DEF Ordered
    <2>. QED  BY <2>2, <2>3, <2>6, <2>8, <2>9, <2>10, <2>13, <2>14
<1>2. ASSUME StreamsInv PROVE TypeOK
    <2>1. record \in [Changes -> SUBSET Sessions]
        BY <1>2 DEF StreamsInv
    <2>2. \A s \in Sessions : Good(sess[s], Awaited(s)) /\ Awaited(s) \in Nat
        BY <1>2, AwaitedIsNat DEF StreamsInv
    <2>. QED  BY <1>1, <2>1, <2>2 DEF TypeOK
<1>. QED  BY <1>2, Invariance, PTL

====
