---- MODULE FieldRules ----
(***************************************************************************)
(* The rules a change is judged by before it is sent to a subscriber       *)
(* (packages/realtime: rls.ts, field-mask.ts, table-catalog.ts): three     *)
(* lookups, each in a TtlCache whose entries are loads in progress or      *)
(* settled, shared by the changes being judged and cleared when the        *)
(* replication listener announces a schema push. One table, and one        *)
(* subscriber to judge each change for. A set of rules is the number of    *)
(* pushes it was read after. Postgres is modelled from its use.            *)
(***************************************************************************)
EXTENDS Naturals

CONSTANTS
    Changes,     \* slots for changes being dispatched
    Tiers,       \* how the database may enforce field rules: extension, views
    Loads,       \* names for the loads in progress
    None,
    TTL,         \* ttlMs
    LoadTime,    \* how long a load may take (external: nothing here limits it)
    MaxPushes,   \* bound: schema pushes
    MaxTime,     \* bound: ticks of the clock
    MaxFaults    \* bound: queries that fail

ASSUME TiersAssumption == Tiers \subseteq {"extension", "views"}
ASSUME BoundsAssumption == {LoadTime, MaxPushes, MaxTime, MaxFaults} \subseteq Nat /\ TTL \in Nat \ {0}
ASSUME NoneAssumption == None \notin Loads \union Nat

VARIABLES
    tier,
    cache,      \* of each catalog: its entry for the table, None when there is none
    loads,      \* the loads in progress: what for, since when, what their query has read
    changes,    \* the changes being dispatched
    rules,      \* Postgres: how many pushes have committed
    pushedAt,   \* when each did
    announced,  \* the last of them the listener has announced
    now,
    faults,
    straddled   \* history: a push was announced while a lookup waited for the
                \* recorded masking

vars == <<tier, cache, loads, changes, rules, pushedAt, announced, now, faults, straddled>>
database == <<rules, pushedAt, announced>>

Catalogs == {"recorded", "masks", "shape"}
Rules == 0..MaxPushes

Load == [key : Catalogs, read : Rules \union {None}, begun : 0..MaxTime]

ASSUME LoadAssumption == None \notin Load

\* masks, shape: the two lookups of a change. A lookup waits for the recorded
\* masking or for its own catalog (at), on a load (on), or has its rules (got).
NoLookup == [at |-> "none", on |-> None, got |-> None]
Failed == [NoLookup EXCEPT !.at = "failed"]
Idle == [pc |-> "idle", since |-> 0, masks |-> NoLookup, shape |-> NoLookup]

----------------------------------------------------------------------------
(* TtlCache *)

FreshEntry(c, key) == c[key] # None /\ now - c[key].readAt < TTL
FreeLoad(l) == CHOOSE i \in Loads : l[i] = None
Waiting(key, entry) == [at |-> IF entry.on = None THEN "done" ELSE key, on |-> entry.on, got |-> entry.got]

(* Mutant: an entry's time is that of its last use. *)
getRefreshing(s, key) ==
    LET hit == FreshEntry(s.cache, key)
        entry == IF hit THEN [s.cache[key] EXCEPT !.readAt = now]
                 ELSE [on |-> FreeLoad(s.loads), got |-> None, readAt |-> now]
    IN  [cache |-> [s.cache EXCEPT ![key] = entry],
         loads |-> IF hit THEN s.loads ELSE [s.loads EXCEPT ![entry.on] = [key |-> key, read |-> None, begun |-> now]],
         lookup |-> Waiting(key, entry)]

\* get: what comes of looking key up in caches s, a load being begun on a miss.
get(s, key) ==
    LET hit == FreshEntry(s.cache, key)
        entry == IF hit THEN s.cache[key] ELSE [on |-> FreeLoad(s.loads), got |-> None, readAt |-> now]
    IN  [cache |-> [s.cache EXCEPT ![key] = entry],
         loads |-> IF hit THEN s.loads ELSE [s.loads EXCEPT ![entry.on] = [key |-> key, read |-> None, begun |-> now]],
         lookup |-> Waiting(key, entry)]

\* The second half of readMasks, once the recorded masking is r: labels are read
\* from the database, the engine's mapping is taken from what was recorded.
getMasks(s, r) ==
    IF tier = "views" /\ ~FreshEntry(s.cache, "masks")
    THEN LET entry == [on |-> None, got |-> r, readAt |-> now]
         IN  [cache |-> [s.cache EXCEPT !["masks"] = entry], loads |-> s.loads, lookup |-> Waiting("masks", entry)]
    ELSE get(s, "masks")

readMasks(s) ==
    LET recorded == get(s, "recorded")
    IN  IF recorded.lookup.at = "done" THEN getMasks(recorded, recorded.lookup.got) ELSE recorded

\* Bound: the two loads a dispatch or a judgement may begin have names left.
RoomForLoads == {i \in Loads : loads[i] = None /\ \E j \in Loads \ {i} : loads[j] = None} # {}

Caches == [cache |-> cache, loads |-> loads]

----------------------------------------------------------------------------
(* Dispatching a change *)

\* dispatchChange: which columns are masked is looked up for the filters.
Dispatch(d) ==
    LET looked == readMasks(Caches)
    IN  /\ changes[d] = Idle
        /\ RoomForLoads
        /\ cache' = looked.cache
        /\ loads' = looked.loads
        /\ changes' = [changes EXCEPT ![d] =
                [pc |-> "filter", since |-> announced, masks |-> looked.lookup, shape |-> NoLookup]]
        /\ UNCHANGED <<tier, database, now, faults, straddled>>

\* The columns masked are known, or unknown, and the filter does not match.
Unmatched(d) ==
    /\ changes[d].pc = "filter"
    /\ changes[d].masks.at \in {"done", "failed"}
    /\ changes' = [changes EXCEPT ![d] = Idle]
    /\ UNCHANGED <<tier, cache, loads, database, now, faults, straddled>>

\* The filter matches, or names a column masked: the rules are looked up together.
rulesFor(d) ==
    LET masks == readMasks(Caches)
        shape == get(masks, "shape")
    IN  /\ changes[d].pc = "filter"
        /\ RoomForLoads
        /\ changes[d].masks.at \in {"done", "failed"}
        /\ cache' = shape.cache
        /\ loads' = shape.loads
        /\ changes' = [changes EXCEPT ![d] =
                [pc |-> "judge", since |-> @.since, masks |-> masks.lookup, shape |-> shape.lookup]]
        /\ UNCHANGED <<tier, database, now, faults, straddled>>

\* No rules, no verdict: a lookup that failed drops the change.
Judged(d) ==
    /\ changes[d].pc = "judge"
    /\ \/ changes[d].masks.at = "done" /\ changes[d].shape.at = "done"
       \/ "failed" \in {changes[d].masks.at, changes[d].shape.at}
    /\ changes' = [changes EXCEPT ![d] =
            IF "failed" \in {@.masks.at, @.shape.at} THEN Idle ELSE [@ EXCEPT !.pc = "judged"]]
    /\ UNCHANGED <<tier, cache, loads, database, now, faults, straddled>>

\* The change is sent, or its subscriber may not see it.
Done(d) ==
    /\ changes[d].pc = "judged"
    /\ changes' = [changes EXCEPT ![d] = Idle]
    /\ UNCHANGED <<tier, cache, loads, database, now, faults, straddled>>

----------------------------------------------------------------------------
(* A load *)

\* Its query runs in Postgres.
QueryRuns(i) ==
    /\ loads[i] # None
    /\ loads[i].read = None
    /\ loads' = [loads EXCEPT ![i].read = rules]
    /\ UNCHANGED <<tier, cache, changes, database, now, faults, straddled>>

\* Every lookup that waits on load i becomes new.
Resumed(x, i, new) ==
    [x EXCEPT !.masks = IF @.on = i THEN new ELSE @, !.shape = IF @.on = i THEN new ELSE @]
Resume(i, new) == changes' = [d \in Changes |-> Resumed(changes[d], i, new)]

AwaitedFor(i, key) == \E d \in Changes : changes[d].masks.on = i /\ changes[d].masks.at = key

\* Its answer arrives: the entry it was begun for, if still there, is settled,
\* and those who wait for it go on, to the masks from the recorded masking.
LoadSettles(i) ==
    LET key == loads[i].key
        cached == cache[key] # None /\ cache[key].on = i
        entries == IF cached THEN [cache EXCEPT ![key] = [@ EXCEPT !.on = None, !.got = loads[i].read]] ELSE cache
        settled == [cache |-> entries, loads |-> [loads EXCEPT ![i] = None],
                    lookup |-> [at |-> "done", on |-> None, got |-> loads[i].read]]
        next == IF AwaitedFor(i, "recorded") THEN getMasks(settled, loads[i].read) ELSE settled
    IN  /\ loads[i] # None
        /\ loads[i].read # None
        /\ cache' = next.cache
        /\ loads' = next.loads
        /\ Resume(i, next.lookup)
        /\ UNCHANGED <<tier, database, now, faults, straddled>>

(* Mutant: a load that failed stays cached. *)
LoadFailsCached(i) ==
    /\ loads[i] # None
    /\ faults < MaxFaults
    /\ faults' = faults + 1
    /\ loads' = [loads EXCEPT ![i] = None]
    /\ Resume(i, Failed)
    /\ UNCHANGED <<tier, cache, database, now, straddled>>

\* Its query fails: the entry it was begun for is forgotten.
LoadFails(i) ==
    /\ loads[i] # None
    /\ faults < MaxFaults
    /\ faults' = faults + 1
    /\ cache' = [key \in Catalogs |-> IF cache[key] # None /\ cache[key].on = i THEN None ELSE cache[key]]
    /\ loads' = [loads EXCEPT ![i] = None]
    /\ Resume(i, Failed)
    /\ UNCHANGED <<tier, database, now, straddled>>

----------------------------------------------------------------------------
(* Schema pushes and time *)

\* A push commits (external).
Push ==
    /\ rules < MaxPushes
    /\ rules' = rules + 1
    /\ pushedAt' = [pushedAt EXCEPT ![rules + 1] = now]
    /\ UNCHANGED <<tier, cache, loads, changes, announced, now, faults, straddled>>

(* Mutant: only the field rules are forgotten, not the table shapes. *)
invalidateFieldMasks ==
    /\ announced < rules
    /\ announced' = rules
    /\ cache' = [cache EXCEPT !["recorded"] = None, !["masks"] = None]
    /\ straddled' = (straddled \/ \E d \in Changes : changes[d].masks.at = "recorded")
    /\ UNCHANGED <<tier, loads, changes, rules, pushedAt, now, faults>>

\* The listener announces it, or the pushes so far, unless it saw none of them.
invalidateCatalogs ==
    /\ announced < rules
    /\ announced' = rules
    /\ cache' = [key \in Catalogs |-> None]
    /\ straddled' = (straddled \/ \E d \in Changes : changes[d].masks.at = "recorded")
    /\ UNCHANGED <<tier, loads, changes, rules, pushedAt, now, faults>>

\* Time passes, also while something is being loaded: an entry ages from the
\* moment its load began, and may expire before that is through.
Tick ==
    /\ now < MaxTime
    /\ \A i \in Loads : loads[i] # None => now < loads[i].begun + LoadTime
    /\ now' = now + 1
    /\ UNCHANGED <<tier, cache, loads, changes, database, faults, straddled>>

----------------------------------------------------------------------------

Init ==
    /\ tier \in Tiers
    /\ cache = [key \in Catalogs |-> None]
    /\ loads = [i \in Loads |-> None]
    /\ changes = [d \in Changes |-> Idle]
    /\ rules = 0
    /\ pushedAt = [r \in Rules |-> 0]
    /\ announced = 0
    /\ now = 0
    /\ faults = 0
    /\ straddled = FALSE

Next ==
    \/ \E d \in Changes : Dispatch(d) \/ Unmatched(d) \/ rulesFor(d) \/ Judged(d) \/ Done(d)
    \/ \E i \in Loads : QueryRuns(i) \/ LoadSettles(i) \/ LoadFails(i)
    \/ Push \/ invalidateCatalogs \/ Tick

Spec == Init /\ [][Next]_vars

----------------------------------------------------------------------------
(* Properties *)

Entry == [on : Loads \union {None}, got : Rules \union {None}, readAt : 0..MaxTime]
Lookup == [at : {"none", "recorded", "masks", "shape", "done", "failed"},
           on : Loads \union {None}, got : Rules \union {None}]

\* Every variable keeps its shape, and an entry is a load in progress for its
\* own catalog or has rules: no failure is ever cached.
TypeOK ==
    /\ tier \in Tiers
    /\ cache \in [Catalogs -> Entry \union {None}]
    /\ loads \in [Loads -> Load \union {None}]
    /\ changes \in [Changes -> [pc : {"idle", "filter", "judge", "judged"}, since : Rules,
                                masks : Lookup, shape : Lookup]]
    /\ rules \in Rules /\ announced \in 0..rules
    /\ pushedAt \in [Rules -> 0..MaxTime]
    /\ now \in 0..MaxTime /\ faults \in 0..MaxFaults
    /\ \A key \in Catalogs : cache[key] # None =>
            IF cache[key].on = None THEN cache[key].got # None
            ELSE loads[cache[key].on] # None /\ loads[cache[key].on].key = key

\* A change dispatched after a push was announced is judged by the rules of that
\* push or of a later one, whatever loads began before it; but under tier 2 not
\* when a lookup waited for the recorded masking as it was announced.
PushedRulesJudge ==
    (tier = "views" => ~straddled) =>
        \A d \in Changes : changes[d].pc = "judged" =>
            changes[d].masks.got >= changes[d].since /\ changes[d].shape.got >= changes[d].since

\* The same without the exception, as server.ts says of a newly restricted
\* column: it stops being broadcast at the push.
PushStopsOldRules ==
    \A d \in Changes : changes[d].pc = "judged" => changes[d].masks.got >= changes[d].since

\* How old rules may be when an entry is made of them: the masks of tier 2 are
\* taken from a recorded masking that may be a TTL old, or have been waited for.
AgeWhenTaken(key) ==
    IF ~(tier = "views" /\ key = "masks") THEN 0 ELSE IF TTL > LoadTime THEN TTL ELSE LoadTime

\* Rules no push was announced for go out of use all the same: an entry in use has
\* those of every push made a TTL before its rules were read or earlier. A TTL is
\* what field-mask.ts says; the masks of tier 2 may take one more, or a load.
OldRulesExpire ==
    \A key \in Catalogs, r \in 1..rules :
        /\ FreshEntry(cache, key) /\ cache[key].on = None
        /\ pushedAt[r] + TTL + AgeWhenTaken(key) <= now
        => cache[key].got >= r

====
