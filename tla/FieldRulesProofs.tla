---- MODULE FieldRulesProofs ----
(***************************************************************************)
(* What is proved of FieldRules, for every set of changes and of names for *)
(* loads, every TTL and every bound.                                       *)
(*                                                                         *)
(* The argument is about what a cache and the loads in progress may be at  *)
(* any moment (Sound) and about one lookup (Waits, Newer), so that it is   *)
(* made once for get and not once for every handler that calls it. For     *)
(* the push it is this: clearing the caches leaves only loads nobody can   *)
(* find again, so whatever a later lookup finds was read after the push    *)
(* was announced; and whoever waits on a load that was found before is a   *)
(* change that was dispatched before.                                      *)
(***************************************************************************)
EXTENDS FieldRules, Integers, TLAPS

----------------------------------------------------------------------------
(* The invariant, of a cache c, loads l, a push a and an exception e *)

\* The rules of entry key, read or being read, are of push a or later.
EntryIsNew(c, l, key, a) ==
    c[key] # None =>
        IF c[key].on = None THEN c[key].got >= a
        ELSE l[c[key].on].read # None => l[c[key].on].read >= a

Sound(c, l, a, e) ==
    /\ c \in [Catalogs -> Entry \union {None}]
    /\ l \in [Loads -> Load \union {None}]
    /\ \A key \in Catalogs : c[key] # None =>
            IF c[key].on = None THEN c[key].got # None
            ELSE l[c[key].on] # None /\ l[c[key].on].key = key
    /\ EntryIsNew(c, l, "recorded", a)
    /\ EntryIsNew(c, l, "shape", a)
    /\ ~e => EntryIsNew(c, l, "masks", a)

\* A lookup x that may wait for the catalogs in keys does so on a load for it.
Waits(x, l, keys) ==
    /\ x \in Lookup
    /\ x.at \in keys \union {"none", "done", "failed"}
    /\ x.at \in Catalogs => x.on \in Loads /\ l[x.on] # None /\ l[x.on].key = x.at
    /\ x.at \notin Catalogs => x.on = None
    /\ x.at = "done" => x.got # None

\* The rules x has, or those its load has read, are of push a or later.
Newer(x, l, a) ==
    /\ x.at = "done" => x.got >= a
    /\ x.at \in Catalogs => (l[x.on].read # None => l[x.on].read >= a)

\* A change x: what it waits for, and how new the rules it has or will have are,
\* with push a announced, exception e, and t a history of straddled lookups.
Good(x, l, a, e, t) ==
    /\ Waits(x.masks, l, {"recorded", "masks"})
    /\ Waits(x.shape, l, {"shape"})
    /\ x.since <= a
    /\ Newer(x.shape, l, x.since)
    /\ ~e => Newer(x.masks, l, x.since)
    /\ ~t /\ x.masks.at = "recorded" => Newer(x.masks, l, a)
    /\ x.pc = "judged" => x.masks.at = "done" /\ x.shape.at = "done"

Change == [pc : {"idle", "filter", "judge", "judged"}, since : Rules, masks : Lookup, shape : Lookup]

Exempt == tier = "views" /\ straddled

\* The types of what no lookup depends on.
DatabaseOK ==
    /\ tier \in Tiers
    /\ rules \in Rules /\ announced \in 0..rules
    /\ pushedAt \in [Rules -> 0..MaxTime]
    /\ now \in 0..MaxTime /\ faults \in 0..MaxFaults
    /\ straddled \in BOOLEAN

RulesInv ==
    /\ DatabaseOK
    /\ Sound(cache, loads, announced, Exempt)
    /\ changes \in [Changes -> Change]
    /\ \A d \in Changes : Good(changes[d], loads, announced, Exempt, straddled)

----------------------------------------------------------------------------
(* Looking up *)

\* The loads l grow to m: none is lost.
Keeps(l, m) == \A i \in Loads : l[i] # None => m[i] = l[i]

\* At most one name is taken as well.
Grows(l, m) ==
    /\ Keeps(l, m)
    /\ \A i, j \in Loads : l[i] = None /\ l[j] = None /\ i # j => m[i] = None \/ m[j] = None

\* A free name is one that no load in progress has.
LEMMA FreeLoadIsFree ==
    ASSUME NEW l, \E i \in Loads : l[i] = None
    PROVE  FreeLoad(l) \in Loads /\ l[FreeLoad(l)] = None
BY DEF FreeLoad

\* What a lookup in caches and loads s came to: g, waiting for one of keys.
Found(s, g, keys, a, e) ==
    /\ Sound(g.cache, g.loads, a, e)
    /\ Grows(s.loads, g.loads)
    /\ Waits(g.lookup, g.loads, keys)
    /\ g.lookup.at \in keys \union {"done"}

\* TtlCache.get: what it hands out is an entry of the cache, or a load it has
\* begun, and the caches stay as sound as they were.
LEMMA GetIsSound ==
    ASSUME NEW s, NEW key \in Catalogs, NEW a \in Nat, NEW e \in BOOLEAN,
           now \in 0..MaxTime,
           Sound(s.cache, s.loads, a, e),
           \E i \in Loads : s.loads[i] = None,
           NEW g, g = get(s, key)
    PROVE  /\ Found(s, g, {key}, a, e)
           /\ g.lookup.at = "done" => g.loads = s.loads
           /\ key # "masks" \/ ~e => Newer(g.lookup, g.loads, a)
<1>1. CASE FreshEntry(s.cache, key)
  <2>1. g = [cache |-> [s.cache EXCEPT ![key] = s.cache[key]], loads |-> s.loads,
             lookup |-> Waiting(key, s.cache[key])]
    BY <1>1 DEF get
  <2>2. s.cache[key] \in Entry /\ s.cache[key] # None
    BY <1>1 DEF FreshEntry, Sound
  <2>3. g.cache = s.cache /\ g.loads = s.loads /\ g.lookup = Waiting(key, s.cache[key])
    BY <2>1 DEF Sound
  <2>4. Sound(g.cache, g.loads, a, e) /\ Grows(s.loads, g.loads)
    BY <2>3 DEF Grows, Keeps
  <2>5. EntryIsNew(s.cache, s.loads, key, a) \/ (key = "masks" /\ e)
    BY DEF Sound, Catalogs
  <2>6. CASE s.cache[key].on = None
    <3>1. s.cache[key].got \in Rules /\ s.cache[key].got # None
      BY <2>2, <2>6 DEF Sound, Entry
    <3>2. g.lookup = [at |-> "done", on |-> None, got |-> s.cache[key].got]
      BY <2>3, <2>6 DEF Waiting
    <3>3. Waits(g.lookup, g.loads, {key})
      BY <3>1, <3>2 DEF Waits, Lookup, Catalogs
    <3>4. key # "masks" \/ ~e => Newer(g.lookup, g.loads, a)
      BY <2>2, <2>5, <2>6, <3>2 DEF Newer, EntryIsNew, Catalogs
    <3> QED BY <2>3, <2>4, <3>2, <3>3, <3>4 DEF Found
  <2>7. CASE s.cache[key].on # None
    <3>1. s.cache[key].on \in Loads /\ s.loads[s.cache[key].on] # None /\ s.loads[s.cache[key].on].key = key
      BY <2>2, <2>7 DEF Sound, Entry
    <3>2. g.lookup = [at |-> key, on |-> s.cache[key].on, got |-> s.cache[key].got]
      BY <2>3, <2>7 DEF Waiting
    <3>3. Waits(g.lookup, g.loads, {key})
      BY <2>2, <2>3, <3>1, <3>2 DEF Waits, Lookup, Entry, Catalogs
    <3>4. key # "masks" \/ ~e => Newer(g.lookup, g.loads, a)
      BY <2>2, <2>3, <2>5, <2>7, <3>2 DEF Newer, EntryIsNew, Catalogs
    <3> QED BY <2>3, <2>4, <3>2, <3>3, <3>4 DEF Found
  <2> QED BY <2>6, <2>7
<1>2. CASE ~FreshEntry(s.cache, key)
  <2>1. PICK f \in Loads : f = FreeLoad(s.loads) /\ s.loads[f] = None /\ f # None
    BY FreeLoadIsFree, NoneAssumption
  <2> DEFINE new == [on |-> f, got |-> None, readAt |-> now]
             load == [key |-> key, read |-> None, begun |-> now]
  <2>2. g = [cache |-> [s.cache EXCEPT ![key] = new], loads |-> [s.loads EXCEPT ![f] = load],
             lookup |-> Waiting(key, new)]
    BY <1>2, <2>1 DEF get
  <2>3. load \in Load /\ load # None
    BY LoadAssumption DEF Load
  <2>4. new \in Entry
    BY <2>1 DEF Entry
  <2>5. g.lookup = [at |-> key, on |-> f, got |-> None]
    BY <2>1, <2>2 DEF Waiting
  <2>6. new.on = f /\ load.read = None /\ load.key = key
    OBVIOUS
  <2> HIDE DEF new, load
  <2>7. /\ g.cache \in [Catalogs -> Entry \union {None}]
        /\ g.loads \in [Loads -> Load \union {None}]
        /\ g.cache[key] = new /\ g.loads[f] = load
        /\ \A k \in Catalogs : k # key => g.cache[k] = s.cache[k]
        /\ \A i \in Loads : i # f => g.loads[i] = s.loads[i]
    BY <2>1, <2>2, <2>3, <2>4 DEF Sound
  <2>8. Grows(s.loads, g.loads)
    BY <2>1, <2>7 DEF Grows, Keeps
  <2>9. \A k \in Catalogs : k # key /\ g.cache[k] # None /\ g.cache[k].on # None
            => g.cache[k].on \in Loads /\ g.cache[k].on # f /\ g.loads[g.cache[k].on] = s.loads[g.cache[k].on]
    BY <2>1, <2>7 DEF Sound, Entry
  <2>10. \A k \in Catalogs : EntryIsNew(s.cache, s.loads, k, a) => EntryIsNew(g.cache, g.loads, k, a)
    BY <2>1, <2>6, <2>7, <2>9 DEF EntryIsNew
  <2>11. \A k \in Catalogs : g.cache[k] # None =>
            IF g.cache[k].on = None THEN g.cache[k].got # None
            ELSE g.loads[g.cache[k].on] # None /\ g.loads[g.cache[k].on].key = k
    BY <2>1, <2>3, <2>6, <2>7, <2>9 DEF Sound
  <2>12. Sound(g.cache, g.loads, a, e)
    BY <2>7, <2>10, <2>11 DEF Sound, Catalogs
  <2>13. Waits(g.lookup, g.loads, {key}) /\ Newer(g.lookup, g.loads, a)
    BY <2>1, <2>3, <2>5, <2>6, <2>7 DEF Waits, Newer, Lookup, Catalogs
  <2> QED
    BY <2>5, <2>8, <2>12, <2>13 DEF Found, Catalogs
<1> QED BY <1>1, <1>2

\* The second half of readMasks: r is the recorded masking, new enough unless
\* the exception holds.
LEMMA GetMasksIsSound ==
    ASSUME NEW s, NEW r \in Rules, NEW a \in Nat, NEW e \in BOOLEAN,
           now \in 0..MaxTime,
           Sound(s.cache, s.loads, a, e),
           \E i \in Loads : s.loads[i] = None,
           ~e /\ tier = "views" => r >= a,
           NEW g, g = getMasks(s, r)
    PROVE  /\ Found(s, g, {"masks"}, a, e)
           /\ ~e => Newer(g.lookup, g.loads, a)
<1>1. CASE tier = "views" /\ ~FreshEntry(s.cache, "masks")
  <2> DEFINE entry == [on |-> None, got |-> r, readAt |-> now]
  <2>1. g = [cache |-> [s.cache EXCEPT !["masks"] = entry], loads |-> s.loads, lookup |-> Waiting("masks", entry)]
    BY <1>1 DEF getMasks
  <2>2. entry \in Entry /\ entry.on = None /\ entry.got = r
    BY DEF Entry
  <2>3. g.lookup = [at |-> "done", on |-> None, got |-> r]
    BY <2>1 DEF Waiting
  <2>4. r # None /\ r \in Nat
    BY NoneAssumption, BoundsAssumption DEF Rules
  <2> HIDE DEF entry
  <2>5. /\ g.loads = s.loads
        /\ g.cache \in [Catalogs -> Entry \union {None}]
        /\ g.cache["masks"] = entry
        /\ \A k \in Catalogs : k # "masks" => g.cache[k] = s.cache[k]
    BY <2>1, <2>2 DEF Sound, Catalogs
  <2>6. Sound(g.cache, g.loads, a, e)
    BY <1>1, <2>2, <2>4, <2>5 DEF Sound, EntryIsNew, Catalogs
  <2>7. Waits(g.lookup, g.loads, {"masks"})
    BY <2>3, <2>4 DEF Waits, Lookup, Catalogs
  <2>8. ~e => Newer(g.lookup, g.loads, a)
    BY <1>1, <2>3 DEF Newer, Catalogs
  <2> QED
    BY <2>3, <2>5, <2>6, <2>7, <2>8 DEF Found, Grows, Keeps
<1>2. CASE ~(tier = "views" /\ ~FreshEntry(s.cache, "masks"))
  <2>1. g = get(s, "masks")
    BY <1>2 DEF getMasks
  <2> QED
    BY <2>1, GetIsSound DEF Catalogs
<1> QED BY <1>1, <1>2

\* readMasks waits for the recorded masking with rules at least as new, or for
\* the masks.
LEMMA ReadMasksIsSound ==
    ASSUME NEW s, NEW a \in Nat, NEW e \in BOOLEAN,
           now \in 0..MaxTime,
           Sound(s.cache, s.loads, a, e),
           \E i \in Loads : s.loads[i] = None,
           NEW g, g = readMasks(s)
    PROVE  /\ Found(s, g, {"recorded", "masks"}, a, e)
           /\ ~e \/ g.lookup.at = "recorded" => Newer(g.lookup, g.loads, a)
<1>1. PICK q : q = get(s, "recorded")
  OBVIOUS
<1>2. /\ Found(s, q, {"recorded"}, a, e)
      /\ q.lookup.at = "done" => q.loads = s.loads
      /\ Newer(q.lookup, q.loads, a)
  BY <1>1, GetIsSound DEF Catalogs
<1>3. CASE q.lookup.at = "done"
  <2>1. g = getMasks(q, q.lookup.got)
    BY <1>1, <1>3 DEF readMasks
  <2>2. q.lookup.got \in Rules /\ q.lookup.got >= a /\ q.loads = s.loads /\ Sound(q.cache, q.loads, a, e)
    BY <1>2, <1>3 DEF Found, Waits, Lookup, Newer
  <2>3. /\ Found(q, g, {"masks"}, a, e)
        /\ ~e => Newer(g.lookup, g.loads, a)
    BY <2>1, <2>2, GetMasksIsSound
  <2> QED
    BY <2>2, <2>3 DEF Found, Waits
<1>4. CASE q.lookup.at # "done"
  <2>1. g = q
    BY <1>1, <1>4 DEF readMasks
  <2> QED
    BY <1>2, <2>1 DEF Found, Waits
<1> QED BY <1>3, <1>4

\* A load more does not disturb those who wait for another.
LEMMA GrowingKeepsGood ==
    ASSUME NEW x, NEW l, NEW m, NEW a, NEW e, NEW t, Good(x, l, a, e, t), Keeps(l, m)
    PROVE  Good(x, m, a, e, t)
<1>1. ASSUME NEW y, NEW keys, NEW b, Waits(y, l, keys)
      PROVE  Waits(y, m, keys) /\ (Newer(y, l, b) => Newer(y, m, b))
  BY <1>1 DEF Waits, Newer, Grows, Keeps
<1> QED
  BY <1>1 DEF Good

LEMMA NewerIsNewer ==
    ASSUME NEW x, NEW l \in [Loads -> Load \union {None}], NEW a \in Nat, NEW b \in Nat, b <= a, NEW keys,
           Waits(x, l, keys), Newer(x, l, a)
    PROVE  Newer(x, l, b)
<1>1. x.at = "done" => x.got \in Nat
  BY NoneAssumption, BoundsAssumption DEF Waits, Lookup, Rules
<1>2. x.at \in Catalogs => l[x.on].read = None \/ l[x.on].read \in Nat
  BY BoundsAssumption DEF Waits, Load, Rules
<1> QED
  BY <1>1, <1>2 DEF Newer

----------------------------------------------------------------------------
(* Every step keeps the invariant *)

LEMMA InitHolds == Init => RulesInv
<1> SUFFICES ASSUME Init PROVE RulesInv
  OBVIOUS
<1>1. MaxPushes \in Nat /\ MaxTime \in Nat /\ MaxFaults \in Nat
  BY BoundsAssumption
<1>2. 0 \in Rules /\ 0 \in 0..MaxTime /\ 0 \in 0..MaxFaults /\ 0 \in 0..0
  BY <1>1 DEF Rules
<1>3. pushedAt \in [Rules -> 0..MaxTime]
  BY <1>2 DEF Init
<1>4. DatabaseOK
  BY <1>2, <1>3 DEF Init, DatabaseOK
<1>5. Sound(cache, loads, announced, Exempt)
  BY DEF Init, Sound, EntryIsNew, Catalogs
<1>6. Idle \in Change
  BY <1>2 DEF Idle, Change, NoLookup, Lookup
<1>7. Good(Idle, loads, announced, Exempt, straddled)
  BY DEF Init, Good, Waits, Newer, Idle, NoLookup, Lookup, Catalogs
<1> QED
  BY <1>4, <1>5, <1>6, <1>7 DEF Init, RulesInv

\* A handler that only moves change d on.
LEMMA MovingKeepsInv ==
    ASSUME RulesInv, NEW d \in Changes, NEW x \in Change,
           Good(x, loads, announced, Exempt, straddled),
           changes' = [changes EXCEPT ![d] = x],
           UNCHANGED <<tier, cache, loads, database, now, faults, straddled>>
    PROVE  RulesInv'
<1>1. DatabaseOK'
  BY DEF RulesInv, DatabaseOK, database
<1>2. Exempt' = Exempt /\ announced' = announced
  BY DEF Exempt, database
<1>3. Sound(cache, loads, announced, Exempt)'
  BY <1>2 DEF RulesInv
<1>4. changes' \in [Changes -> Change] /\ \A c \in Changes : Good(changes'[c], loads, announced, Exempt, straddled)
  BY DEF RulesInv
<1> QED
  BY <1>1, <1>2, <1>3, <1>4 DEF RulesInv

\* A handler that looks rules up for change d as well, with what that came to.
LEMMA LookingUpKeepsInv ==
    ASSUME RulesInv, NEW d \in Changes, NEW x \in Change,
           Keeps(loads, loads'),
           Sound(cache', loads', announced, Exempt),
           Good(x, loads', announced, Exempt, straddled),
           changes' = [changes EXCEPT ![d] = x],
           UNCHANGED <<tier, database, now, faults, straddled>>
    PROVE  RulesInv'
<1>1. DatabaseOK'
  BY DEF RulesInv, DatabaseOK, database
<1>2. Exempt' = Exempt /\ announced' = announced
  BY DEF Exempt, database
<1>3. \A c \in Changes : Good(changes[c], loads', announced, Exempt, straddled)
  BY GrowingKeepsGood DEF RulesInv
<1>4. changes' \in [Changes -> Change] /\ \A c \in Changes : Good(changes'[c], loads', announced, Exempt, straddled)
  BY <1>3 DEF RulesInv
<1> QED
  BY <1>1, <1>2, <1>4 DEF RulesInv

LEMMA StateFacts ==
    ASSUME RulesInv
    PROVE  /\ announced \in Rules /\ announced \in Nat /\ rules \in Nat /\ Exempt \in BOOLEAN
           /\ Sound(cache, loads, announced, Exempt)
           /\ now \in 0..MaxTime
           /\ Rules \subseteq Nat
BY BoundsAssumption DEF RulesInv, DatabaseOK, Exempt, Rules

LEMMA DispatchKeepsInv ==
    ASSUME RulesInv, NEW d \in Changes, Dispatch(d) PROVE RulesInv'
<1>1. PICK g : g = readMasks(Caches)
  OBVIOUS
<1> DEFINE x == [pc |-> "filter", since |-> announced, masks |-> g.lookup, shape |-> NoLookup]
<1>2. /\ Found(Caches, g, {"recorded", "masks"}, announced, Exempt)
      /\ ~Exempt \/ g.lookup.at = "recorded" => Newer(g.lookup, g.loads, announced)
  BY <1>1, StateFacts, ReadMasksIsSound DEF Dispatch, RoomForLoads, Caches
<1>3. x.pc = "filter" /\ x.since = announced /\ x.masks = g.lookup /\ x.shape = NoLookup
  OBVIOUS
<1>4. NoLookup \in Lookup /\ g.lookup \in Lookup
  BY <1>2 DEF NoLookup, Lookup, Found, Waits
<1>5. x \in Change
  BY <1>4, StateFacts DEF Change
<1> HIDE DEF x
<1>6. Good(x, g.loads, announced, Exempt, straddled)
  <2>1. Waits(NoLookup, g.loads, {"shape"}) /\ Newer(NoLookup, g.loads, announced)
    BY <1>4 DEF Waits, Newer, NoLookup, Catalogs
  <2> QED
    BY <1>2, <1>3, <2>1, StateFacts DEF Good, Found
<1>7. cache' = g.cache /\ loads' = g.loads /\ changes' = [changes EXCEPT ![d] = x]
      /\ UNCHANGED <<tier, database, now, faults, straddled>>
  BY <1>1 DEF Dispatch, x
<1> QED
  BY <1>2, <1>5, <1>6, <1>7, LookingUpKeepsInv DEF Found, Grows, Caches

LEMMA RulesForKeepsInv ==
    ASSUME RulesInv, NEW d \in Changes, rulesFor(d) PROVE RulesInv'
<1>1. PICK g : g = readMasks(Caches)
  OBVIOUS
<1>2. PICK h : h = get(g, "shape")
  OBVIOUS
<1> DEFINE since == changes[d].since
           x == [pc |-> "judge", since |-> since, masks |-> g.lookup, shape |-> h.lookup]
<1>3. /\ Found(Caches, g, {"recorded", "masks"}, announced, Exempt)
      /\ ~Exempt \/ g.lookup.at = "recorded" => Newer(g.lookup, g.loads, announced)
  BY <1>1, StateFacts, ReadMasksIsSound DEF rulesFor, RoomForLoads, Caches
<1>4. Sound(g.cache, g.loads, announced, Exempt) /\ \E i \in Loads : g.loads[i] = None
  BY <1>3 DEF Found, Grows, Keeps, rulesFor, RoomForLoads, Caches
<1>5. Found(g, h, {"shape"}, announced, Exempt) /\ Newer(h.lookup, h.loads, announced)
  BY <1>2, <1>4, StateFacts, GetIsSound DEF Catalogs
<1>6. changes[d] \in Change /\ since \in Rules /\ since <= announced
  BY DEF RulesInv, Change, Good
<1>7. x.pc = "judge" /\ x.since = since /\ x.masks = g.lookup /\ x.shape = h.lookup
  OBVIOUS
<1>8. x \in Change
  BY <1>3, <1>5, <1>6 DEF Change, Found, Waits
<1>14. cache' = h.cache /\ loads' = h.loads /\ changes' = [changes EXCEPT ![d] = x]
       /\ UNCHANGED <<tier, database, now, faults, straddled>>
  BY <1>1, <1>2 DEF rulesFor, RulesInv
<1> HIDE DEF since, x
<1>9. Waits(g.lookup, h.loads, {"recorded", "masks"})
      /\ (~Exempt \/ g.lookup.at = "recorded" => Newer(g.lookup, h.loads, announced))
  BY <1>3, <1>5 DEF Found, Waits, Newer, Grows, Keeps
<1>10. h.loads \in [Loads -> Load \union {None}] /\ Waits(h.lookup, h.loads, {"shape"})
  BY <1>5 DEF Found, Sound
<1>11. Newer(h.lookup, h.loads, since) /\ (~Exempt => Newer(g.lookup, h.loads, since))
  BY <1>5, <1>6, <1>9, <1>10, NewerIsNewer, StateFacts
<1>12. Good(x, h.loads, announced, Exempt, straddled)
  BY <1>6, <1>7, <1>9, <1>10, <1>11 DEF Good
<1>13. Keeps(loads, h.loads)
  <2>1. Grows(loads, g.loads) /\ Grows(g.loads, h.loads)
    BY <1>3, <1>5 DEF Found, Caches
  <2> QED BY <2>1 DEF Grows, Keeps
<1> QED
  BY <1>5, <1>8, <1>12, <1>13, <1>14, LookingUpKeepsInv DEF Found

LEMMA UnmatchedKeepsInv ==
    ASSUME RulesInv, NEW d \in Changes, Unmatched(d) \/ Done(d) PROVE RulesInv'
<1>1. Idle \in Change
  BY StateFacts, BoundsAssumption DEF Idle, Change, NoLookup, Lookup, Rules
<1>2. Good(Idle, loads, announced, Exempt, straddled)
  BY StateFacts DEF Good, Waits, Newer, Idle, NoLookup, Lookup, Catalogs
<1>3. changes' = [changes EXCEPT ![d] = Idle] /\ UNCHANGED <<tier, cache, loads, database, now, faults, straddled>>
  BY DEF Unmatched, Done
<1> QED
  BY <1>1, <1>2, <1>3, MovingKeepsInv

LEMMA JudgedKeepsInv ==
    ASSUME RulesInv, NEW d \in Changes, Judged(d) PROVE RulesInv'
<1> DEFINE x == [changes[d] EXCEPT !.pc = "judged"]
<1>1. UNCHANGED <<tier, cache, loads, database, now, faults, straddled>>
  BY DEF Judged
<1>2. changes[d] \in Change /\ Good(changes[d], loads, announced, Exempt, straddled)
  BY DEF RulesInv
<1>3. CASE "failed" \in {changes[d].masks.at, changes[d].shape.at}
  <2>1. changes' = [changes EXCEPT ![d] = Idle]
    BY <1>3 DEF Judged, RulesInv
  <2>2. Idle \in Change
    BY StateFacts, BoundsAssumption DEF Idle, Change, NoLookup, Lookup, Rules
  <2>3. Good(Idle, loads, announced, Exempt, straddled)
    BY StateFacts DEF Good, Waits, Newer, Idle, NoLookup, Lookup, Catalogs
  <2> QED
    BY <1>1, <2>1, <2>2, <2>3, MovingKeepsInv
<1>4. CASE "failed" \notin {changes[d].masks.at, changes[d].shape.at}
  <2>1. changes' = [changes EXCEPT ![d] = x]
    BY <1>4 DEF Judged, RulesInv
  <2>2. changes[d].masks.at = "done" /\ changes[d].shape.at = "done"
    BY <1>4 DEF Judged
  <2>3. x \in Change /\ x.masks = changes[d].masks /\ x.shape = changes[d].shape /\ x.since = changes[d].since
    BY <1>2 DEF Change
  <2> HIDE DEF x
  <2>4. Good(x, loads, announced, Exempt, straddled)
    BY <1>2, <2>2, <2>3 DEF Good
  <2> QED
    BY <1>1, <2>1, <2>3, <2>4, MovingKeepsInv
<1> QED BY <1>3, <1>4

\* A query that runs reads rules no older than the last push announced.
LEMMA QueryKeepsInv ==
    ASSUME RulesInv, NEW i \in Loads, QueryRuns(i) PROVE RulesInv'
<1>1. UNCHANGED <<tier, cache, changes, database, now, faults, straddled>>
      /\ loads[i] # None /\ loads[i] \in Load /\ loads' = [loads EXCEPT ![i].read = rules]
  BY StateFacts DEF QueryRuns, Sound
<1>2. DatabaseOK' /\ Exempt' = Exempt /\ announced' = announced
  BY <1>1 DEF RulesInv, DatabaseOK, Exempt, database
<1>3. rules \in Rules /\ announced \in Nat /\ announced <= rules
  BY BoundsAssumption DEF RulesInv, DatabaseOK, Rules
<1>4. loads'[i] \in Load /\ loads'[i].key = loads[i].key /\ loads'[i].read = rules /\ loads'[i] # None
  <2>1. loads'[i] = [loads[i] EXCEPT !.read = rules]
    BY <1>1, StateFacts DEF Sound
  <2>2. [loads[i] EXCEPT !.read = rules] \in Load
        /\ [loads[i] EXCEPT !.read = rules].key = loads[i].key
        /\ [loads[i] EXCEPT !.read = rules].read = rules
    BY <1>1, <1>3 DEF Load
  <2> QED BY <2>1, <2>2, LoadAssumption DEF Load
<1>5. \A j \in Loads : j # i => loads'[j] = loads[j]
  BY <1>1, StateFacts DEF Sound
<1>6. loads' \in [Loads -> Load \union {None}]
  BY <1>1, <1>4, <1>5, StateFacts DEF Sound
<1>7. \A k \in Catalogs : EntryIsNew(cache, loads, k, announced) => EntryIsNew(cache, loads', k, announced)
  <2> SUFFICES ASSUME NEW k \in Catalogs, EntryIsNew(cache, loads, k, announced)
               PROVE  EntryIsNew(cache, loads', k, announced)
    OBVIOUS
  <2>1. cache[k] # None => cache[k] \in Entry
    BY StateFacts DEF Sound
  <2> QED
    BY <1>3, <1>4, <1>5, <2>1 DEF EntryIsNew, Entry
<1>8. \A k \in Catalogs : cache[k] # None =>
          IF cache[k].on = None THEN cache[k].got # None
          ELSE loads'[cache[k].on] # None /\ loads'[cache[k].on].key = k
  BY <1>4, <1>5, StateFacts DEF Sound, Entry
<1>9. Sound(cache, loads', announced, Exempt)
  BY <1>6, <1>7, <1>8, StateFacts DEF Sound, Catalogs
<1>10. ASSUME NEW d \in Changes PROVE Good(changes[d], loads', announced, Exempt, straddled)
  <2>1. Good(changes[d], loads, announced, Exempt, straddled) /\ changes[d] \in Change
    BY DEF RulesInv
  <2>2. ASSUME NEW y, NEW keys, NEW b \in Nat, b <= announced, Waits(y, loads, keys)
        PROVE  Waits(y, loads', keys) /\ (Newer(y, loads, b) => Newer(y, loads', b))
    <3>1. rules >= b
      BY <1>3, <2>2 DEF Rules
    <3>2. y.at \in Catalogs => y.on \in Loads /\ loads'[y.on] # None /\ loads'[y.on].key = y.at
      BY <1>4, <1>5, <2>2 DEF Waits
    <3>3. Newer(y, loads, b) => Newer(y, loads', b)
      BY <1>4, <1>5, <2>2, <3>1 DEF Waits, Newer
    <3> QED
      BY <2>2, <3>2, <3>3 DEF Waits
  <2>3. changes[d].since \in Nat /\ changes[d].since <= announced
    BY <2>1, StateFacts DEF Good, Change
  <2> QED
    BY <1>3, <2>1, <2>2, <2>3 DEF Good
<1> QED
  BY <1>1, <1>2, <1>9, <1>10 DEF RulesInv

\* An announcement clears the caches; whoever waits does so on a load that is
\* in progress still, and was dispatched before.
LEMMA InvalidationKeepsInv ==
    ASSUME RulesInv, invalidateCatalogs PROVE RulesInv'
<1>1. UNCHANGED <<tier, loads, changes, rules, pushedAt, now, faults>>
      /\ announced' = rules /\ announced \in Nat /\ rules \in Nat /\ announced <= rules
      /\ straddled' = (straddled \/ \E d \in Changes : changes[d].masks.at = "recorded")
  BY BoundsAssumption DEF invalidateCatalogs, RulesInv, DatabaseOK, Rules
<1>2. DatabaseOK'
  BY <1>1 DEF RulesInv, DatabaseOK
<1>3. Sound(cache, loads, announced, Exempt)'
  BY <1>1, StateFacts DEF Sound, EntryIsNew, invalidateCatalogs, Catalogs
<1>4. ~Exempt' => ~Exempt
  BY <1>1 DEF Exempt
<1>5. ASSUME NEW d \in Changes PROVE Good(changes[d], loads, rules, Exempt', straddled')
  <2>1. Good(changes[d], loads, announced, Exempt, straddled) /\ changes[d] \in Change
    BY DEF RulesInv
  <2>2. changes[d].since <= rules
    BY <1>1, <2>1, StateFacts DEF Good, Change
  <2>3. ~straddled' => changes[d].masks.at # "recorded"
    BY <1>1
  <2> QED
    BY <1>4, <2>1, <2>2, <2>3 DEF Good
<1> QED
  BY <1>1, <1>2, <1>3, <1>5 DEF RulesInv

LEMMA PushKeepsInv ==
    ASSUME RulesInv, Push \/ Tick PROVE RulesInv'
<1>1. UNCHANGED <<tier, cache, loads, changes, announced, faults, straddled>>
  BY DEF Push, Tick, database
<1>2. MaxPushes \in Nat /\ MaxTime \in Nat
  BY BoundsAssumption
<1>3. DatabaseOK'
  <2>1. CASE Push
    <3>1. rules' = rules + 1 /\ rules + 1 \in Rules /\ announced \in 0..(rules + 1) /\ UNCHANGED now
      BY <1>2, <2>1 DEF Push, RulesInv, DatabaseOK, Rules
    <3>2. pushedAt' \in [Rules -> 0..MaxTime]
      BY <2>1 DEF Push, RulesInv, DatabaseOK
    <3> QED BY <1>1, <3>1, <3>2 DEF RulesInv, DatabaseOK
  <2>2. CASE Tick
    <3>1. now' \in 0..MaxTime /\ UNCHANGED <<rules, pushedAt>>
      BY <1>2, <2>2 DEF Tick, RulesInv, DatabaseOK, database
    <3> QED BY <1>1, <3>1 DEF RulesInv, DatabaseOK
  <2> QED BY <2>1, <2>2
<1>4. Exempt' = Exempt
  BY <1>1 DEF Exempt
<1> QED
  BY <1>1, <1>3, <1>4 DEF RulesInv

\* What becomes of those who wait when load i ends: each has y instead.
Served(x, i, y, m, e) ==
    /\ x.masks.on = i => Waits(y, m, {"masks"}) /\ (~e => Newer(y, m, x.since))
    /\ x.shape.on = i => Waits(y, m, {}) /\ Newer(y, m, x.since)

LEMMA ResumedIsGood ==
    ASSUME NEW x \in Change, NEW i \in Loads, NEW y \in Lookup, NEW l, NEW m, NEW a \in Rules,
           NEW e \in BOOLEAN, NEW t \in BOOLEAN,
           Good(x, l, a, e, t),
           \A j \in Loads : j # i /\ l[j] # None => m[j] = l[j],
           Served(x, i, y, m, e),
           NEW z,
           z = Resumed(x, i, y)
    PROVE  z \in Change /\ Good(z, m, a, e, t)
<1>1. /\ z \in Change /\ z.pc = x.pc /\ z.since = x.since
      /\ z.masks = IF x.masks.on = i THEN y ELSE x.masks
      /\ z.shape = IF x.shape.on = i THEN y ELSE x.shape
  BY DEF Change, Resumed
<1>2. ASSUME NEW w, NEW keys, NEW b, Waits(w, l, keys), w.on # i
      PROVE  Waits(w, m, keys) /\ (Newer(w, l, b) => Newer(w, m, b))
  BY <1>2 DEF Waits, Newer
<1>3. Waits(z.masks, m, {"recorded", "masks"}) /\ (~e => Newer(z.masks, m, x.since))
  <2>1. CASE x.masks.on = i
    BY <1>1, <2>1 DEF Waits, Served
  <2>2. CASE x.masks.on # i
    BY <1>1, <1>2, <2>2 DEF Good
  <2> QED BY <2>1, <2>2
<1>4. Waits(z.shape, m, {"shape"}) /\ Newer(z.shape, m, x.since)
  <2>1. CASE x.shape.on = i
    BY <1>1, <2>1 DEF Waits, Served
  <2>2. CASE x.shape.on # i
    BY <1>1, <1>2, <2>2 DEF Good
  <2> QED BY <2>1, <2>2
<1>5. ~t /\ z.masks.at = "recorded" => Newer(z.masks, m, a)
  <2>1. CASE x.masks.on = i
    BY <1>1, <2>1 DEF Waits, Served
  <2>2. CASE x.masks.on # i
    BY <1>1, <1>2, <2>2 DEF Good
  <2> QED BY <2>1, <2>2
<1>6. x.pc = "judged" => z.masks = x.masks /\ z.shape = x.shape
  BY <1>1, NoneAssumption DEF Good, Waits, Catalogs
<1>7. Good(z, m, a, e, t)
  BY <1>1, <1>3, <1>4, <1>5, <1>6 DEF Good
<1> QED
  BY <1>1, <1>7

LEMMA FailureKeepsInv ==
    ASSUME RulesInv, NEW i \in Loads, LoadFails(i) PROVE RulesInv'
<1>1. UNCHANGED <<tier, database, now, straddled>> /\ faults' \in 0..MaxFaults
      /\ loads' = [loads EXCEPT ![i] = None] /\ Resume(i, Failed)
      /\ cache' = [key \in Catalogs |-> IF cache[key] # None /\ cache[key].on = i THEN None ELSE cache[key]]
  BY BoundsAssumption DEF LoadFails, RulesInv, DatabaseOK
<1>2. DatabaseOK' /\ Exempt' = Exempt /\ announced' = announced
  BY <1>1 DEF RulesInv, DatabaseOK, Exempt, database
<1>3. loads' \in [Loads -> Load \union {None}] /\ \A j \in Loads : j # i => loads'[j] = loads[j]
  BY <1>1, StateFacts DEF Sound
<1>4. \A k \in Catalogs : cache'[k] # None => cache'[k] = cache[k] /\ cache[k].on # i
  BY <1>1
<1>5. cache' \in [Catalogs -> Entry \union {None}]
  BY <1>1, StateFacts DEF Sound
<1>6. \A k \in Catalogs : EntryIsNew(cache, loads, k, announced) => EntryIsNew(cache', loads', k, announced)
  BY <1>3, <1>4, <1>5, StateFacts DEF EntryIsNew, Entry, Sound
<1>7. \A k \in Catalogs : cache'[k] # None =>
          IF cache'[k].on = None THEN cache'[k].got # None
          ELSE loads'[cache'[k].on] # None /\ loads'[cache'[k].on].key = k
  BY <1>3, <1>4, StateFacts DEF Sound, Entry
<1>8. Sound(cache', loads', announced, Exempt)
  BY <1>5, <1>3, <1>6, <1>7, StateFacts DEF Sound, Catalogs
<1>9. Failed \in Lookup /\ Waits(Failed, loads', {}) /\ Waits(Failed, loads', {"masks"})
      /\ \A b : Newer(Failed, loads', b)
  BY DEF Failed, NoLookup, Lookup, Waits, Newer, Catalogs
<1>10. ASSUME NEW d \in Changes PROVE changes'[d] \in Change /\ Good(changes'[d], loads', announced, Exempt, straddled)
  <2>1. changes[d] \in Change /\ Good(changes[d], loads, announced, Exempt, straddled)
    BY DEF RulesInv
  <2>2. changes'[d] = Resumed(changes[d], i, Failed)
    BY <1>1 DEF Resume
  <2>3. straddled \in BOOLEAN
    BY DEF RulesInv, DatabaseOK
  <2>4. \A j \in Loads : j # i /\ loads[j] # None => loads'[j] = loads[j]
    BY <1>3
  <2>5. Served(changes[d], i, Failed, loads', Exempt)
    BY <1>9 DEF Served
  <2> QED
    BY <1>9, <2>1, <2>2, <2>3, <2>4, <2>5, ResumedIsGood, StateFacts
<1>11. changes' \in [Changes -> Change]
  BY <1>1, <1>10 DEF Resume
<1> QED
  BY <1>1, <1>2, <1>8, <1>10, <1>11 DEF RulesInv

\* An answer settles the entry its load was begun for, and is handed to those
\* who wait for it: the masks to those who waited for the recorded masking.
LEMMA AnswerKeepsInv ==
    ASSUME RulesInv, NEW i \in Loads, LoadSettles(i) PROVE RulesInv'
<1> DEFINE key == loads[i].key
           r == loads[i].read
           cached == cache[key] # None /\ cache[key].on = i
           entries == IF cached THEN [cache EXCEPT ![key] = [@ EXCEPT !.on = None, !.got = r]] ELSE cache
           rest == [loads EXCEPT ![i] = None]
           done == [at |-> "done", on |-> None, got |-> r]
           settled == [cache |-> entries, loads |-> rest, lookup |-> done]
           next == IF AwaitedFor(i, "recorded") THEN getMasks(settled, r) ELSE settled
<1>1. /\ loads[i] # None /\ r # None
      /\ cache' = next.cache /\ loads' = next.loads
      /\ Resume(i, next.lookup)
      /\ UNCHANGED <<tier, database, now, faults, straddled>>
  BY DEF LoadSettles
<1>2. DatabaseOK' /\ Exempt' = Exempt /\ announced' = announced /\ straddled \in BOOLEAN
  BY <1>1 DEF RulesInv, DatabaseOK, Exempt, database
<1>3. loads[i] \in Load /\ key \in Catalogs /\ r \in Rules
  BY <1>1, StateFacts DEF Sound, Load
<1>4. rest \in [Loads -> Load \union {None}] /\ rest[i] = None /\ \A j \in Loads : j # i => rest[j] = loads[j]
  BY StateFacts DEF Sound
<1>5. /\ entries \in [Catalogs -> Entry \union {None}]
      /\ cached => entries[key].on = None /\ entries[key].got = r
      /\ \A k \in Catalogs : k # key \/ ~cached => entries[k] = cache[k]
  <2>1. CASE cached
    <3>1. cache[key] \in Entry
      BY <1>3, <2>1, StateFacts DEF Sound
    <3> DEFINE new == [cache[key] EXCEPT !.on = None, !.got = r]
    <3>2. new \in Entry /\ new.on = None /\ new.got = r
      BY <1>3, <3>1 DEF Entry
    <3>3. entries = [cache EXCEPT ![key] = new]
      BY <2>1
    <3> QED
      BY <1>3, <3>2, <3>3, StateFacts DEF Sound
  <2>2. CASE ~cached
    BY <2>2, StateFacts DEF Sound
  <2> QED BY <2>1, <2>2
\* Only its own entry is load i.
<1>6. \A k \in Catalogs : cache[k] # None /\ cache[k].on = i => k = key
  BY NoneAssumption, StateFacts DEF Sound
<1>7. settled.cache = entries /\ settled.loads = rest /\ settled.lookup = done
  OBVIOUS
<1> HIDE DEF entries, rest
<1>8. ASSUME NEW k \in Catalogs PROVE EntryIsNew(cache, loads, k, announced) => EntryIsNew(entries, rest, k, announced)
  <2>1. CASE k = key /\ cached
    BY <1>1, <1>3, <1>5, <2>1, NoneAssumption DEF EntryIsNew
  <2>2. CASE ~(k = key /\ cached)
    <3>1. entries[k] = cache[k] /\ (cache[k] # None => cache[k] \in Entry /\ cache[k].on # i)
      BY <1>5, <1>6, <2>2, StateFacts DEF Sound
    <3> QED
      BY <1>4, <3>1 DEF EntryIsNew, Entry
  <2> QED BY <2>1, <2>2
<1>9. ASSUME NEW k \in Catalogs, entries[k] # None
      PROVE  IF entries[k].on = None THEN entries[k].got # None
             ELSE rest[entries[k].on] # None /\ rest[entries[k].on].key = k
  <2>1. CASE k = key /\ cached
    BY <1>1, <1>5, <2>1
  <2>2. CASE ~(k = key /\ cached)
    <3>1. entries[k] = cache[k] /\ cache[k] \in Entry /\ cache[k].on # i
      BY <1>5, <1>6, <1>9, <2>2, StateFacts DEF Sound
    <3> QED
      BY <1>4, <1>9, <3>1, StateFacts DEF Sound, Entry
  <2> QED BY <2>1, <2>2
<1>10. Sound(settled.cache, settled.loads, announced, Exempt)
  BY <1>4, <1>5, <1>7, <1>8, <1>9, StateFacts DEF Sound, Catalogs
\* Who waits for load i waits for what it reads.
<1>11. ASSUME NEW d \in Changes
       PROVE  /\ changes[d].masks.on = i => changes[d].masks.at = key
              /\ changes[d].shape.on = i => changes[d].shape.at = key /\ key = "shape"
  BY NoneAssumption DEF RulesInv, Good, Waits, Catalogs
<1>12. /\ Sound(next.cache, next.loads, announced, Exempt)
       /\ \A j \in Loads : j # i /\ loads[j] # None => next.loads[j] = loads[j]
       /\ next.lookup \in Lookup
       /\ \A d \in Changes : changes[d].masks.on = i =>
             Waits(next.lookup, next.loads, {"masks"}) /\ (~Exempt => Newer(next.lookup, next.loads, changes[d].since))
       /\ \A d \in Changes : changes[d].shape.on = i =>
             Waits(next.lookup, next.loads, {}) /\ Newer(next.lookup, next.loads, changes[d].since)
  <2>1. CASE AwaitedFor(i, "recorded")
    <3>1. PICK d \in Changes : changes[d].masks.on = i /\ changes[d].masks.at = "recorded"
      BY <2>1 DEF AwaitedFor
    <3>2. key = "recorded"
      BY <1>11, <3>1
    <3>3. ~Exempt /\ tier = "views" => r >= announced
      BY <1>1, <3>1 DEF Exempt, RulesInv, DatabaseOK, Good, Newer, Catalogs
    <3>4. next = getMasks(settled, r) /\ \E j \in Loads : settled.loads[j] = None
      BY <1>4, <1>7, <2>1
    <3>5. /\ Found(settled, next, {"masks"}, announced, Exempt)
          /\ ~Exempt => Newer(next.lookup, next.loads, announced)
      <4> HIDE DEF next, settled
      <4> QED BY <1>3, <1>10, <3>3, <3>4, GetMasksIsSound, StateFacts
    <3> HIDE DEF next, settled
    <3>6. \A j \in Loads : j # i /\ loads[j] # None => next.loads[j] = loads[j]
      BY <1>4, <1>7, <3>5 DEF Found, Grows, Keeps
    <3>7. \A c \in Changes : changes[c].since \in Nat /\ changes[c].since <= announced
      BY StateFacts DEF RulesInv, Good, Change
    <3>8. next.loads \in [Loads -> Load \union {None}] /\ Waits(next.lookup, next.loads, {"masks"})
      BY <3>5 DEF Found, Sound
    <3>9. \A c \in Changes : ~Exempt => Newer(next.lookup, next.loads, changes[c].since)
      BY <3>5, <3>7, <3>8, NewerIsNewer, StateFacts
    <3> QED
      BY <1>11, <3>2, <3>5, <3>6, <3>8, <3>9 DEF Found, Waits
  <2>2. CASE ~AwaitedFor(i, "recorded")
    <3>1. next.cache = settled.cache /\ next.loads = rest /\ next.lookup = done
      BY <1>7, <2>2
    <3>2. done \in Lookup /\ Waits(done, rest, {"masks"}) /\ Waits(done, rest, {})
      BY <1>1, <1>3 DEF Waits, Lookup, Catalogs
    <3>3. ASSUME NEW d \in Changes
          PROVE  /\ changes[d].masks.on = i /\ ~Exempt => r >= changes[d].since
                 /\ changes[d].shape.on = i => r >= changes[d].since
      BY <1>1, <1>3, <1>11 DEF RulesInv, Good, Newer
    <3>4. \A b : r >= b => Newer(done, rest, b)
      BY DEF Newer, Catalogs
    <3> HIDE DEF next, settled, done
    <3> QED
      BY <1>4, <1>7, <1>10, <3>1, <3>2, <3>3, <3>4
  <2> QED BY <2>1, <2>2
<1> HIDE DEF next, settled
<1>13. ASSUME NEW d \in Changes PROVE changes'[d] \in Change /\ Good(changes'[d], loads', announced, Exempt, straddled)
  <2>1. changes[d] \in Change /\ Good(changes[d], loads, announced, Exempt, straddled)
    BY DEF RulesInv
  <2>2. changes'[d] = Resumed(changes[d], i, next.lookup)
    BY <1>1 DEF Resume
  <2>3. PICK y \in Lookup : y = next.lookup
    BY <1>12
  <2>4. \A j \in Loads : j # i /\ loads[j] # None => loads'[j] = loads[j]
    BY <1>1, <1>12
  <2>5. Served(changes[d], i, y, loads', Exempt)
    BY <1>1, <1>12, <2>3 DEF Served
  <2>6. changes'[d] = Resumed(changes[d], i, y)
    BY <2>2, <2>3
  <2>7. announced \in Rules /\ Exempt \in BOOLEAN /\ straddled \in BOOLEAN
    BY <1>2, StateFacts
  <2> QED
    BY <2>1, <2>4, <2>5, <2>6, <2>7, ResumedIsGood
<1>14. changes' \in [Changes -> Change]
  BY <1>1, <1>13 DEF Resume
<1> QED
  BY <1>1, <1>2, <1>12, <1>13, <1>14 DEF RulesInv

LEMMA StepKeepsInv == RulesInv /\ [Next]_vars => RulesInv'
<1> SUFFICES ASSUME RulesInv, [Next]_vars PROVE RulesInv'
  OBVIOUS
<1>1. ASSUME NEW d \in Changes, Dispatch(d) \/ Unmatched(d) \/ rulesFor(d) \/ Judged(d) \/ Done(d)
      PROVE  RulesInv'
  BY <1>1, DispatchKeepsInv, UnmatchedKeepsInv, RulesForKeepsInv, JudgedKeepsInv
<1>2. ASSUME NEW i \in Loads, QueryRuns(i) \/ LoadSettles(i) \/ LoadFails(i) PROVE RulesInv'
  BY <1>2, QueryKeepsInv, AnswerKeepsInv, FailureKeepsInv
<1>3. CASE Push \/ invalidateCatalogs \/ Tick
  BY <1>3, PushKeepsInv, InvalidationKeepsInv
<1>4. CASE UNCHANGED vars
  BY <1>4 DEF vars, database, RulesInv, DatabaseOK, Exempt
<1> QED
  BY <1>1, <1>2, <1>3, <1>4 DEF Next

LEMMA Invariance == Spec => []RulesInv
<1> QED
  BY InitHolds, StepKeepsInv, PTL DEF Spec

----------------------------------------------------------------------------
(* What follows *)

\* The caches, the loads and the lookups keep their types, and a cached entry is
\* a load in progress for its own key or has rules: no failure stays cached, which
\* is what the catch of TtlCache.get is for.
THEOREM TypeCorrect == Spec => []TypeOK
<1>1. RulesInv => TypeOK
  BY DEF RulesInv, DatabaseOK, Sound, TypeOK, Load, Change
<1> QED
  BY <1>1, Invariance, PTL

\* A change dispatched after a push was announced is judged by the rules of that
\* push or later ones, whatever loads began before it, but for the one lookup
\* the exception names.
THEOREM AnnouncedRulesAreUsed == Spec => []PushedRulesJudge
<1>1. RulesInv => PushedRulesJudge
  <2> SUFFICES ASSUME RulesInv, ~Exempt, NEW d \in Changes, changes[d].pc = "judged"
               PROVE  changes[d].masks.got >= changes[d].since /\ changes[d].shape.got >= changes[d].since
    BY DEF PushedRulesJudge, Exempt
  <2> QED
    BY DEF RulesInv, Good, Newer
<1> QED
  BY <1>1, Invariance, PTL


----------------------------------------------------------------------------
(* Rules nobody announced *)

\* Rules g are those of every push committed before time t.
Covers(g, t) == \A r \in 1..rules : pushedAt[r] < t => g >= r

Typed(c, l) == c \in [Catalogs -> Entry \union {None}] /\ l \in [Loads -> Load \union {None}]

\* An entry with rules has them as new as it says, but for what it was taken from;
\* one that waits was made as its load began.
EntryAged(c, l, key) ==
    c[key] # None =>
        /\ c[key].readAt <= now
        /\ IF c[key].on = None THEN Covers(c[key].got, c[key].readAt - AgeWhenTaken(key))
           ELSE l[c[key].on] # None /\ l[c[key].on].begun = c[key].readAt

\* A load runs its query after it began, and that was no longer ago than loads take.
LoadAged(l, i) ==
    l[i] # None =>
        /\ l[i].begun <= now /\ now <= l[i].begun + LoadTime
        /\ l[i].read # None => Covers(l[i].read, l[i].begun)

Aged(c, l) == (\A key \in Catalogs : EntryAged(c, l, key)) /\ (\A i \in Loads : LoadAged(l, i))

AgeInv ==
    /\ \A r \in 1..rules : pushedAt[r] <= now
    /\ Aged(cache, loads)

LEMMA ClockFacts ==
    ASSUME RulesInv
    PROVE  /\ now \in Nat /\ rules \in Nat /\ TTL \in Nat /\ TTL > 0 /\ LoadTime \in Nat
           /\ \A r \in 1..rules : pushedAt[r] \in Nat
           /\ \A key \in Catalogs : AgeWhenTaken(key) \in Nat
           /\ tier = "views" => AgeWhenTaken("masks") >= TTL /\ AgeWhenTaken("masks") >= LoadTime
           /\ AgeWhenTaken("recorded") = 0
           /\ \A t : t \in 0..MaxTime => t \in Nat
BY BoundsAssumption DEF RulesInv, DatabaseOK, Rules, AgeWhenTaken

\* Rules that cover a time cover an earlier one.
LEMMA CoversEarlier ==
    ASSUME RulesInv, NEW g, NEW t \in Int, NEW u \in Int, u <= t, Covers(g, t)
    PROVE  Covers(g, u)
BY ClockFacts DEF Covers

LEMMA GetIsAged ==
    ASSUME RulesInv, NEW s, NEW key \in Catalogs,
           Typed(s.cache, s.loads), Aged(s.cache, s.loads),
           \E i \in Loads : s.loads[i] = None,
           NEW g, g = get(s, key)
    PROVE  /\ Aged(g.cache, g.loads)
           /\ key = "recorded" /\ g.lookup.at = "done" => Covers(g.lookup.got, now - TTL)
<1>1. CASE FreshEntry(s.cache, key)
  <2>1. g = [cache |-> [s.cache EXCEPT ![key] = s.cache[key]], loads |-> s.loads,
             lookup |-> Waiting(key, s.cache[key])]
    BY <1>1 DEF get
  <2>2. g.cache = s.cache /\ g.loads = s.loads /\ g.lookup = Waiting(key, s.cache[key])
    BY <2>1 DEF Typed
  <2>3. s.cache[key] # None /\ s.cache[key] \in Entry /\ now - s.cache[key].readAt < TTL
    BY <1>1 DEF FreshEntry, Typed
  <2>4. ASSUME key = "recorded", g.lookup.at = "done" PROVE Covers(g.lookup.got, now - TTL)
    <3>1. s.cache[key].on = None /\ g.lookup.got = s.cache[key].got
      BY <2>2, <2>4 DEF Waiting
    <3>2. PICK t \in Nat : t = s.cache[key].readAt
      BY <2>3, ClockFacts DEF Entry
    <3>3. Covers(g.lookup.got, t - AgeWhenTaken(key)) /\ AgeWhenTaken(key) = 0
      BY <2>3, <2>4, <3>1, <3>2, ClockFacts DEF Aged, EntryAged
    <3>4. t - AgeWhenTaken(key) \in Int /\ now - TTL \in Int /\ now - TTL <= t - AgeWhenTaken(key)
      BY <2>3, <3>2, <3>3, ClockFacts
    <3> QED
      BY <3>3, <3>4, CoversEarlier
  <2> QED BY <2>2, <2>4
<1>2. CASE ~FreshEntry(s.cache, key)
  <2>1. PICK f \in Loads : f = FreeLoad(s.loads) /\ s.loads[f] = None /\ f # None
    BY FreeLoadIsFree, NoneAssumption
  <2> DEFINE new == [on |-> f, got |-> None, readAt |-> now]
             load == [key |-> key, read |-> None, begun |-> now]
  <2>2. g = [cache |-> [s.cache EXCEPT ![key] = new], loads |-> [s.loads EXCEPT ![f] = load],
             lookup |-> Waiting(key, new)]
    BY <1>2, <2>1 DEF get
  <2>3. /\ new.on = f /\ new.readAt = now /\ g.lookup.at = key
        /\ load # None /\ load.read = None /\ load.begun = now
    <3>1. load \in Load
      BY StateFacts DEF Load
    <3> QED
      BY <2>1, <2>2, <3>1, LoadAssumption DEF Waiting
  <2> HIDE DEF new, load
  <2>4. /\ g.cache[key] = new /\ g.loads[f] = load
        /\ \A k \in Catalogs : k # key => g.cache[k] = s.cache[k]
        /\ \A i \in Loads : i # f => g.loads[i] = s.loads[i]
    BY <2>2 DEF Typed
  <2>5. ASSUME NEW k \in Catalogs PROVE EntryAged(g.cache, g.loads, k)
    <3>1. CASE k = key
      BY <2>1, <2>3, <2>4, <3>1, ClockFacts DEF EntryAged
    <3>2. CASE k # key
      <4>1. g.cache[k] = s.cache[k] /\ EntryAged(s.cache, s.loads, k)
        BY <2>4, <3>2 DEF Aged
      <4>2. s.cache[k] # None /\ s.cache[k].on # None => s.cache[k].on \in Loads /\ s.cache[k].on # f
        BY <2>1, <4>1 DEF Typed, Entry, EntryAged
      <4> QED BY <2>4, <4>1, <4>2 DEF EntryAged
    <3> QED BY <3>1, <3>2
  <2>6. ASSUME NEW i \in Loads PROVE LoadAged(g.loads, i)
    BY <2>3, <2>4, ClockFacts DEF Aged, LoadAged
  <2> QED
    BY <2>3, <2>5, <2>6 DEF Aged, Catalogs
<1> QED BY <1>1, <1>2

LEMMA GetMasksIsAged ==
    ASSUME RulesInv, NEW s, NEW r,
           Typed(s.cache, s.loads), Aged(s.cache, s.loads),
           \E i \in Loads : s.loads[i] = None,
           tier = "views" => Covers(r, now - AgeWhenTaken("masks")),
           NEW g, g = getMasks(s, r)
    PROVE  Aged(g.cache, g.loads)
<1>1. CASE tier = "views" /\ ~FreshEntry(s.cache, "masks")
  <2> DEFINE entry == [on |-> None, got |-> r, readAt |-> now]
  <2>1. g = [cache |-> [s.cache EXCEPT !["masks"] = entry], loads |-> s.loads, lookup |-> Waiting("masks", entry)]
    BY <1>1 DEF getMasks
  <2>2. entry.readAt = now /\ entry.got = r /\ entry.on = None
    OBVIOUS
  <2> HIDE DEF entry
  <2>3. g.loads = s.loads /\ g.cache["masks"] = entry
        /\ \A k \in Catalogs : k # "masks" => g.cache[k] = s.cache[k]
    BY <2>1 DEF Typed, Catalogs
  <2>4. ASSUME NEW k \in Catalogs PROVE EntryAged(g.cache, g.loads, k)
    <3>1. CASE k = "masks"
      BY <1>1, <2>2, <2>3, <3>1, ClockFacts DEF EntryAged
    <3>2. CASE k # "masks"
      BY <2>3, <3>2 DEF Aged, EntryAged
    <3> QED BY <3>1, <3>2
  <2> QED
    BY <2>3, <2>4 DEF Aged
<1>2. CASE ~(tier = "views" /\ ~FreshEntry(s.cache, "masks"))
  BY <1>2, GetIsAged DEF getMasks, Catalogs
<1> QED BY <1>1, <1>2

LEMMA ReadMasksIsAged ==
    ASSUME RulesInv, NEW s, NEW a \in Nat, NEW e \in BOOLEAN,
           Sound(s.cache, s.loads, a, e), Aged(s.cache, s.loads),
           \E i \in Loads : s.loads[i] = None,
           NEW g, g = readMasks(s)
    PROVE  Aged(g.cache, g.loads)
<1>0. now \in 0..MaxTime /\ Typed(s.cache, s.loads)
  BY StateFacts DEF Sound, Typed
<1>1. PICK q : q = get(s, "recorded")
  OBVIOUS
<1>2. /\ Found(s, q, {"recorded"}, a, e)
      /\ q.lookup.at = "done" => q.loads = s.loads
  BY <1>0, <1>1, GetIsSound DEF Catalogs
<1>3. Aged(q.cache, q.loads)
      /\ (q.lookup.at = "done" => Covers(q.lookup.got, now - TTL))
  BY <1>0, <1>1, GetIsAged DEF Catalogs
<1>4. CASE q.lookup.at = "done"
  <2>1. g = getMasks(q, q.lookup.got)
    BY <1>1, <1>4 DEF readMasks
  <2>2. Typed(q.cache, q.loads) /\ \E i \in Loads : q.loads[i] = None
    BY <1>2, <1>4 DEF Found, Sound, Typed
  <2>3. tier = "views" => Covers(q.lookup.got, now - AgeWhenTaken("masks"))
    BY <1>3, <1>4, ClockFacts, CoversEarlier DEF Catalogs
  <2> QED
    BY <1>3, <2>1, <2>2, <2>3, GetMasksIsAged
<1>5. CASE q.lookup.at # "done"
  BY <1>1, <1>3, <1>5 DEF readMasks
<1> QED BY <1>4, <1>5

\* A handler that leaves the database and the clock alone.
LEMMA LookingUpKeepsAge ==
    ASSUME AgeInv, Aged(cache', loads'), UNCHANGED <<tier, rules, pushedAt, now>>
    PROVE  AgeInv'
BY DEF AgeInv, Aged, EntryAged, LoadAged, Covers, AgeWhenTaken

LEMMA DispatchKeepsAge ==
    ASSUME RulesInv, AgeInv, NEW d \in Changes, Dispatch(d) PROVE AgeInv'
<1>1. PICK g : g = readMasks(Caches)
  OBVIOUS
<1>2. Aged(g.cache, g.loads)
  BY <1>1, StateFacts, ReadMasksIsAged DEF Dispatch, RoomForLoads, Caches, AgeInv
<1>3. cache' = g.cache /\ loads' = g.loads /\ UNCHANGED <<tier, rules, pushedAt, now>>
  BY <1>1 DEF Dispatch, database
<1> QED
  BY <1>2, <1>3, LookingUpKeepsAge

LEMMA RulesForKeepsAge ==
    ASSUME RulesInv, AgeInv, NEW d \in Changes, rulesFor(d) PROVE AgeInv'
<1>1. PICK g : g = readMasks(Caches)
  OBVIOUS
<1>2. PICK h : h = get(g, "shape")
  OBVIOUS
<1>3. /\ Found(Caches, g, {"recorded", "masks"}, announced, Exempt)
      /\ Aged(g.cache, g.loads)
  BY <1>1, StateFacts, ReadMasksIsSound, ReadMasksIsAged DEF rulesFor, RoomForLoads, Caches, AgeInv
<1>4. Typed(g.cache, g.loads) /\ \E i \in Loads : g.loads[i] = None
  BY <1>3 DEF Found, Grows, Keeps, rulesFor, RoomForLoads, Caches, Sound, Typed
<1>5. Aged(h.cache, h.loads)
  BY <1>2, <1>3, <1>4, GetIsAged DEF Catalogs
<1>6. cache' = h.cache /\ loads' = h.loads /\ UNCHANGED <<tier, rules, pushedAt, now>>
  BY <1>1, <1>2 DEF rulesFor, database
<1> QED
  BY <1>5, <1>6, LookingUpKeepsAge

\* A query reads the rules of every push so far.
LEMMA QueryKeepsAge ==
    ASSUME RulesInv, AgeInv, NEW i \in Loads, QueryRuns(i) PROVE AgeInv'
<1>1. UNCHANGED <<tier, cache, rules, pushedAt, now>> /\ loads[i] \in Load /\ loads[i] # None
      /\ loads' = [loads EXCEPT ![i].read = rules]
  BY StateFacts DEF QueryRuns, Sound, database
<1>2. /\ loads'[i].read = rules /\ loads'[i].begun = loads[i].begun /\ loads'[i] # None
      /\ \A j \in Loads : j # i => loads'[j] = loads[j]
  <2>1. loads'[i] = [loads[i] EXCEPT !.read = rules] /\ \A j \in Loads : j # i => loads'[j] = loads[j]
    BY <1>1, StateFacts DEF Sound
  <2>2. [loads[i] EXCEPT !.read = rules] \in Load
    BY <1>1 DEF Load, RulesInv, DatabaseOK
  <2> QED BY <1>1, <2>1, <2>2, LoadAssumption DEF Load
<1>3. Covers(rules, loads[i].begun)
  BY ClockFacts DEF Covers
<1>4. \A j \in Loads : LoadAged(loads', j)
  BY <1>1, <1>2, <1>3 DEF AgeInv, Aged, LoadAged
<1>5. \A k \in Catalogs : EntryAged(cache', loads', k)
  BY <1>1, <1>2, StateFacts DEF AgeInv, Aged, EntryAged, Sound, Entry
<1> QED
  BY <1>1, <1>4, <1>5, LookingUpKeepsAge DEF Aged

\* An answer is as new as the moment its load began.
LEMMA AnswerKeepsAge ==
    ASSUME RulesInv, AgeInv, NEW i \in Loads, LoadSettles(i) PROVE AgeInv'
<1> DEFINE key == loads[i].key
           r == loads[i].read
           cached == cache[key] # None /\ cache[key].on = i
           entries == IF cached THEN [cache EXCEPT ![key] = [@ EXCEPT !.on = None, !.got = r]] ELSE cache
           rest == [loads EXCEPT ![i] = None]
           done == [at |-> "done", on |-> None, got |-> r]
           settled == [cache |-> entries, loads |-> rest, lookup |-> done]
           next == IF AwaitedFor(i, "recorded") THEN getMasks(settled, r) ELSE settled
<1>1. /\ loads[i] # None /\ r # None /\ cache' = next.cache /\ loads' = next.loads
      /\ UNCHANGED <<tier, rules, pushedAt, now>>
  BY DEF LoadSettles, database
<1>2. PICK b \in Nat : b = loads[i].begun
  BY <1>1, StateFacts, ClockFacts DEF Sound, Load
<1>3. key \in Catalogs /\ r \in Rules /\ Covers(r, b) /\ b <= now /\ now <= b + LoadTime
  BY <1>1, <1>2, StateFacts DEF Sound, Load, AgeInv, Aged, LoadAged
<1>4. /\ rest \in [Loads -> Load \union {None}] /\ rest[i] = None
      /\ \A j \in Loads : j # i => rest[j] = loads[j]
  BY StateFacts DEF Sound
<1>5. /\ entries \in [Catalogs -> Entry \union {None}]
      /\ cached => entries[key].on = None /\ entries[key].got = r /\ entries[key].readAt = cache[key].readAt
      /\ \A k \in Catalogs : k # key \/ ~cached => entries[k] = cache[k]
  <2>1. CASE cached
    <3>1. cache[key] \in Entry
      BY <1>3, <2>1, StateFacts DEF Sound
    <3> DEFINE new == [cache[key] EXCEPT !.on = None, !.got = r]
    <3>2. new \in Entry /\ new.on = None /\ new.got = r /\ new.readAt = cache[key].readAt
      BY <1>3, <3>1 DEF Entry
    <3>3. entries = [cache EXCEPT ![key] = new]
      BY <2>1
    <3> QED
      BY <1>3, <3>2, <3>3, StateFacts DEF Sound
  <2>2. CASE ~cached
    BY <2>2, StateFacts DEF Sound
  <2> QED BY <2>1, <2>2
<1>6. settled.cache = entries /\ settled.loads = rest
  OBVIOUS
<1>7. cached => cache[key].readAt = b /\ b <= now
  BY <1>2, <1>3, NoneAssumption DEF AgeInv, Aged, EntryAged
<1>8. \A k \in Catalogs : cache[k] # None /\ cache[k].on = i => k = key
  BY StateFacts, NoneAssumption DEF Sound
<1> HIDE DEF entries, rest
<1>9. ASSUME NEW k \in Catalogs PROVE EntryAged(entries, rest, k)
  <2>1. CASE k = key /\ cached
    <3>1. entries[k].on = None /\ entries[k].got = r /\ entries[k].readAt = b
      BY <1>5, <1>7, <2>1
    <3>2. b - AgeWhenTaken(k) \in Int /\ b - AgeWhenTaken(k) <= b
      BY ClockFacts
    <3>3. Covers(r, b - AgeWhenTaken(k))
      BY <1>3, <3>2, CoversEarlier
    <3> QED
      BY <1>3, <3>1, <3>3 DEF EntryAged
  <2>2. CASE ~(k = key /\ cached)
    <3>1. entries[k] = cache[k] /\ EntryAged(cache, loads, k)
      BY <1>5, <2>2 DEF AgeInv, Aged
    <3>2. cache[k] # None /\ cache[k].on # None => cache[k].on \in Loads /\ cache[k].on # i
      BY <1>8, <2>2, StateFacts DEF Sound, Entry
    <3> QED BY <1>4, <3>1, <3>2 DEF EntryAged
  <2> QED BY <2>1, <2>2
<1>10. ASSUME NEW j \in Loads PROVE LoadAged(rest, j)
  BY <1>4 DEF AgeInv, Aged, LoadAged
<1>11. Aged(settled.cache, settled.loads) /\ Typed(settled.cache, settled.loads)
  BY <1>4, <1>5, <1>6, <1>9, <1>10 DEF Aged, Typed
<1>12. ASSUME tier = "views" PROVE Covers(r, now - AgeWhenTaken("masks"))
  <2>1. AgeWhenTaken("masks") \in Nat /\ AgeWhenTaken("masks") >= LoadTime
    BY <1>12, ClockFacts DEF Catalogs
  <2>2. now - AgeWhenTaken("masks") \in Int /\ now - AgeWhenTaken("masks") <= b
    BY <1>2, <1>3, <2>1, ClockFacts
  <2> QED BY <1>3, <2>2, CoversEarlier
<1>13. \E j \in Loads : settled.loads[j] = None
  BY <1>4, <1>6
<1> HIDE DEF settled
<1>14. Aged(next.cache, next.loads)
  BY <1>11, <1>12, <1>13, GetMasksIsAged
<1> QED
  BY <1>1, <1>14, LookingUpKeepsAge

\* A load that failed leaves no entry behind.
LEMMA FailureKeepsAge ==
    ASSUME RulesInv, AgeInv, NEW i \in Loads, LoadFails(i) PROVE AgeInv'
<1>1. /\ UNCHANGED <<tier, rules, pushedAt, now>>
      /\ \A k \in Catalogs : cache'[k] # None => cache'[k] = cache[k] /\ cache[k].on # i
      /\ \A j \in Loads : loads'[j] # None => loads'[j] = loads[j]
      /\ \A j \in Loads : j # i => loads'[j] = loads[j]
  BY StateFacts DEF LoadFails, Sound, database
<1>2. \A k \in Catalogs : EntryAged(cache', loads', k)
  BY <1>1, StateFacts DEF AgeInv, Aged, EntryAged, Sound, Entry
<1>3. \A j \in Loads : LoadAged(loads', j)
  BY <1>1 DEF AgeInv, Aged, LoadAged
<1> QED
  BY <1>1, <1>2, <1>3, LookingUpKeepsAge DEF Aged

\* A push is too young for any entry or load to have missed.
LEMMA PushKeepsAge ==
    ASSUME RulesInv, AgeInv, Push PROVE AgeInv'
<1>1. /\ UNCHANGED <<tier, cache, loads, now>> /\ rules' = rules + 1
      /\ rules + 1 \in Rules /\ pushedAt'[rules + 1] = now
      /\ \A r \in 1..rules : pushedAt'[r] = pushedAt[r]
  BY BoundsAssumption, ClockFacts DEF Push, RulesInv, DatabaseOK, Rules
<1>2. \A r \in 1..rules' : r = rules + 1 \/ r \in 1..rules
  BY <1>1, ClockFacts
<1>3. ASSUME NEW g, NEW t \in Int, t <= now, Covers(g, t)
      PROVE  \A r \in 1..rules' : pushedAt'[r] < t => g >= r
  <2> SUFFICES ASSUME NEW r \in 1..rules', pushedAt'[r] < t PROVE g >= r
    OBVIOUS
  <2>1. CASE r = rules + 1
    BY <1>1, <1>3, <2>1, ClockFacts
  <2>2. CASE r \in 1..rules
    BY <1>1, <1>3, <2>2 DEF Covers
  <2> QED BY <1>2, <2>1, <2>2
<1>4. \A k \in Catalogs : AgeWhenTaken(k)' = AgeWhenTaken(k)
  BY <1>1 DEF AgeWhenTaken
<1>5. ASSUME NEW k \in Catalogs PROVE EntryAged(cache, loads, k)'
  <2>1. ASSUME cache[k] # None, cache[k].on = None
        PROVE  \A r \in 1..rules' : pushedAt'[r] < cache[k].readAt - AgeWhenTaken(k) => cache[k].got >= r
    <3>1. PICK t \in Nat : t = cache[k].readAt /\ t <= now
      BY <2>1, StateFacts, ClockFacts DEF Sound, Entry, AgeInv, Aged, EntryAged
    <3>2. t - AgeWhenTaken(k) \in Int /\ t - AgeWhenTaken(k) <= now
      BY <3>1, ClockFacts
    <3>3. Covers(cache[k].got, t - AgeWhenTaken(k))
      BY <2>1, <3>1 DEF AgeInv, Aged, EntryAged
    <3> QED
      BY <1>3, <3>1, <3>2, <3>3
  <2> QED
    BY <1>1, <1>4, <2>1 DEF AgeInv, Aged, EntryAged, Covers
<1>6. ASSUME NEW i \in Loads PROVE LoadAged(loads, i)'
  <2>1. ASSUME loads[i] # None, loads[i].read # None
        PROVE  \A r \in 1..rules' : pushedAt'[r] < loads[i].begun => loads[i].read >= r
    <3>1. PICK b \in Nat : b = loads[i].begun
      BY <2>1, StateFacts, ClockFacts DEF Sound, Load
    <3>2. b <= now /\ Covers(loads[i].read, b)
      BY <2>1, <3>1 DEF AgeInv, Aged, LoadAged
    <3> QED
      BY <1>3, <3>1, <3>2
  <2> QED
    BY <1>1, <2>1 DEF AgeInv, Aged, LoadAged, Covers
<1>7. \A r \in 1..rules' : pushedAt'[r] <= now'
  BY <1>1, <1>2, ClockFacts DEF AgeInv
<1> QED
  BY <1>5, <1>6, <1>7 DEF AgeInv, Aged

\* The clock moves while no load would have taken too long by then.
LEMMA TickKeepsAge ==
    ASSUME RulesInv, AgeInv, Tick PROVE AgeInv'
<1>1. /\ UNCHANGED <<tier, cache, loads, rules, pushedAt>> /\ now' = now + 1
      /\ \A i \in Loads : loads[i] # None => now < loads[i].begun + LoadTime
  BY DEF Tick, database
<1>2. \A k \in Catalogs : cache[k] # None => cache[k].readAt \in Nat
  BY StateFacts, ClockFacts DEF Sound, Entry
<1>3. \A i \in Loads : loads[i] # None => loads[i].begun \in Nat
  BY StateFacts, ClockFacts DEF Sound, Load
<1>4. \A r \in 1..rules' : pushedAt'[r] <= now'
  BY <1>1, ClockFacts DEF AgeInv
<1>5. ASSUME NEW k \in Catalogs PROVE EntryAged(cache, loads, k)'
  BY <1>1, <1>2, ClockFacts DEF AgeInv, Aged, EntryAged, Covers, AgeWhenTaken
<1>6. ASSUME NEW i \in Loads PROVE LoadAged(loads, i)'
  BY <1>1, <1>3, ClockFacts DEF AgeInv, Aged, LoadAged, Covers
<1> QED
  BY <1>4, <1>5, <1>6 DEF AgeInv, Aged

LEMMA StepKeepsAge == RulesInv /\ AgeInv /\ [Next]_vars => AgeInv'
<1> SUFFICES ASSUME RulesInv, AgeInv, [Next]_vars PROVE AgeInv'
  OBVIOUS
<1>1. ASSUME NEW d \in Changes, Dispatch(d) \/ rulesFor(d) PROVE AgeInv'
  BY <1>1, DispatchKeepsAge, RulesForKeepsAge
<1>2. ASSUME NEW d \in Changes, Unmatched(d) \/ Judged(d) \/ Done(d) PROVE AgeInv'
  <2>1. UNCHANGED <<tier, cache, loads, rules, pushedAt, now>>
    BY <1>2 DEF Unmatched, Judged, Done, database
  <2> QED
    BY <2>1, LookingUpKeepsAge DEF AgeInv
<1>3. ASSUME NEW i \in Loads, QueryRuns(i) \/ LoadSettles(i) \/ LoadFails(i) PROVE AgeInv'
  BY <1>3, QueryKeepsAge, AnswerKeepsAge, FailureKeepsAge
<1>4. CASE Push \/ Tick
  BY <1>4, PushKeepsAge, TickKeepsAge
<1>5. CASE invalidateCatalogs
  <2>1. /\ UNCHANGED <<tier, loads, rules, pushedAt, now>>
        /\ \A k \in Catalogs : cache'[k] = None
    BY <1>5 DEF invalidateCatalogs
  <2> QED
    BY <2>1, LookingUpKeepsAge DEF AgeInv, Aged, EntryAged
<1>6. CASE UNCHANGED vars
  <2>1. UNCHANGED <<tier, cache, loads, rules, pushedAt, now>>
    BY <1>6 DEF vars
  <2> QED
    BY <2>1, LookingUpKeepsAge DEF AgeInv
<1> QED
  BY <1>1, <1>2, <1>3, <1>4, <1>5, <1>6 DEF Next

\* Where no push is announced the TTL does it: what is in use as fresh has the
\* rules of every push made a TTL before its rules were read, whatever a load takes.
THEOREM OldRulesGoOutOfUse == Spec => []OldRulesExpire
<1>1. Init => AgeInv
  BY BoundsAssumption DEF Init, AgeInv, Aged, EntryAged, LoadAged
<1>2. ASSUME RulesInv, AgeInv PROVE OldRulesExpire
  <2> SUFFICES ASSUME NEW key \in Catalogs, NEW r \in 1..rules,
                      FreshEntry(cache, key), cache[key].on = None,
                      pushedAt[r] + TTL + AgeWhenTaken(key) <= now
               PROVE  cache[key].got >= r
    BY DEF OldRulesExpire
  <2>1. PICK t \in Nat : t = cache[key].readAt
    BY <1>2, StateFacts, ClockFacts DEF FreshEntry, Sound, Entry
  <2>2. Covers(cache[key].got, t - AgeWhenTaken(key)) /\ now - t < TTL
    BY <1>2, <2>1 DEF FreshEntry, AgeInv, Aged, EntryAged
  <2>3. pushedAt[r] < t - AgeWhenTaken(key)
    BY <1>2, <2>1, <2>2, ClockFacts
  <2> QED
    BY <2>2, <2>3 DEF Covers
<1> QED
  BY <1>1, <1>2, Invariance, StepKeepsAge, PTL DEF Spec
====
