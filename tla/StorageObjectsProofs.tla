---- MODULE StorageObjectsProofs ----
(***************************************************************************)
(* What holds of a bucket for any names, requests and bounds. The types    *)
(* and the foreign key hold on either backend; that rows have their bytes, *)
(* that nothing is left behind and that the promises of ObjectMap are kept *)
(* is about a store that refuses to drop a bucket with objects in it (s3). *)
(***************************************************************************)
EXTENDS StorageObjects, TLAPS

\* What a request knows of its object by the time it uses it.
Named ==
    \A r \in Requests :
        /\ reqs[r].pc \in {"put", "commit"} => reqs[r].name \in Names /\ reqs[r].version \in 1..versions
        /\ reqs[r].pc \in {"get", "bytes", "missing"} => reqs[r].name \in Names /\ reqs[r].version \in Version

TypeInv == TypeOK /\ Named

Uploading(r) == reqs[r].pc \in {"put", "commit"}

\* A version being uploaded is in no row, and no two requests upload the same.
Fresh ==
    /\ \A n \in Names : rows[n] # None => rows[n] \in 1..versions
    /\ \A r \in Requests, n \in Names : Uploading(r) => rows[n] # reqs[r].version
    /\ \A r, q \in Requests : Uploading(r) /\ Uploading(q) /\ r # q => reqs[r].version # reqs[q].version

\* What is being discarded is not the live version of a name, unless the name is in
\* doubt, and never becomes it.
Doomed ==
    \A q \in Requests : reqs[q].pc = "discard" => \A n \in Names, v \in Version : <<n, v>> \in reqs[q].keys =>
        /\ v \in 1..versions
        /\ rows[n] # v \/ n \in lost
        /\ \A r \in Requests : Uploading(r) => reqs[r].version # v

\* An emptyBucket has only keys left of rows whose lock it holds.
Emptying ==
    \A q \in Requests : reqs[q].pc = "emptying" => \A n \in Names, v \in Version : <<n, v>> \in reqs[q].keys =>
        locked[n] = q /\ rows[n] = v

\* Bytes are stored before they are committed, and those of a row stay for as long
\* as the row does, or an open emptyBucket has yet to delete them.
Backed ==
    /\ \A r \in Requests : reqs[r].pc = "commit" => <<reqs[r].name, reqs[r].version>> \in stored
    /\ \A n \in Names :
          rows[n] # None /\ n \notin lost /\ (locked[n] = Nobody \/ <<n, rows[n]>> \in reqs[locked[n]].keys)
          => <<n, rows[n]>> \in stored

Claimed(n, v) ==
    \/ rows[n] = v
    \/ \E r \in Requests :
          \/ reqs[r].pc = "discard" /\ <<n, v>> \in reqs[r].keys
          \/ reqs[r].pc = "commit" /\ reqs[r].name = n /\ reqs[r].version = v

\* While nothing has failed, bytes are a row's or some request's to deal with.
Tidy ==
    /\ lost = {}
    /\ \A n \in Names, v \in Version : <<n, v>> \in stored => Claimed(n, v)
    /\ \A n \in Names : locked[n] # Nobody /\ <<n, rows[n]>> \in stored => <<n, rows[n]>> \in reqs[locked[n]].keys

ObjectsInv ==
    /\ TypeInv /\ RowsHaveABucket
    /\ Fresh /\ Doomed /\ Emptying
    /\ backend = "s3" => Backed
    /\ faults = 0 => Tidy

----------------------------------------------------------------------------
(* The records of requests *)

LEMMA Numbers == MaxVersions \in Nat /\ MaxFaults \in Nat
BY BoundsAssumption

LEMMA IdleIsRequest ==
    /\ Idle \in Request /\ Idle.pc = "idle"
    /\ \A pc : /\ Begin(pc).pc = pc /\ Begin(pc).keys = {}
               /\ Begin(pc).name = None /\ Begin(pc).version = None
BY DEF Idle, Begin, Request

LEMMA BeginIsRequest ==
    ASSUME NEW pc \in {"get", "create", "dropStore", "emptying", "discard"}, NEW ks \in SUBSET Keys
    PROVE  /\ Begin(pc) \in Request
           /\ [Begin(pc) EXCEPT !.keys = ks] \in Request
           /\ [Begin(pc) EXCEPT !.keys = ks].pc = pc
           /\ [Begin(pc) EXCEPT !.keys = ks].keys = ks
           /\ [Begin(pc) EXCEPT !.keys = ks].name = None
           /\ [Begin(pc) EXCEPT !.keys = ks].version = None
BY DEF Begin, Idle, Request

Discarding(ks) == [Begin("discard") EXCEPT !.keys = ks]

LEMMA DiscardingIsRequest ==
    \A ks \in SUBSET Keys :
        /\ Discarding(ks) \in Request /\ Discarding(ks).pc = "discard" /\ Discarding(ks).keys = ks
BY BeginIsRequest DEF Discarding

LEMMA KeyIsKey ==
    ASSUME NEW n \in Names, NEW v \in Version
    PROVE  {<<n, v>>} \in SUBSET Keys /\ Discarding({<<n, v>>}) \in Request
<1>1. {<<n, v>>} \in SUBSET Keys
    BY DEF Keys
<1>. QED  BY <1>1, DiscardingIsRequest

----------------------------------------------------------------------------
(* What the steps of several outcomes do *)

\* The key a request stores its bytes under.
Own(r) == <<reqs[r].name, reqs[r].version>>

PutDone(r, rec) ==
    /\ reqs[r].pc = "put" /\ reqs' = [reqs EXCEPT ![r] = rec]
    /\ UNCHANGED <<backend, bucket, rows, locked, lost, versions>>
    /\ home' \in BOOLEAN /\ stored' \in {stored, stored \union {Own(r)}}
    /\ faults' \in {faults, faults + 1} /\ faults' <= MaxFaults
    /\ \/ rec = [reqs[r] EXCEPT !.pc = "commit"] /\ Own(r) \in stored'
       \/ rec = Discarding({Own(r)})

CommitDone(r, n, v, rec) ==
    /\ reqs[r].pc = "commit" /\ reqs' = [reqs EXCEPT ![r] = rec]
    /\ n \in Names /\ v \in 1..versions /\ locked[n] = Nobody
    /\ UNCHANGED <<backend, bucket, locked, home, stored, versions>>
    /\ faults' \in {faults, faults + 1} /\ faults' <= MaxFaults
    /\ \/ /\ bucket /\ rows' = [rows EXCEPT ![n] = v] /\ lost' = lost \ {n}
          /\ \/ rows[n] = None /\ rec = Idle
             \/ rows[n] # None /\ rec = Discarding({<<n, rows[n]>>})
       \/ /\ bucket /\ rows' = [rows EXCEPT ![n] = v] /\ lost' = lost \union {n} /\ faults' > 0
          /\ rec = Discarding({<<n, v>>})
       \/ /\ rows' = rows /\ lost' = lost
          /\ rec = Discarding({<<n, v>>})

RemoveDone(r, ns, rec) ==
    /\ reqs[r] = Idle /\ reqs' = [reqs EXCEPT ![r] = rec]
    /\ \A n \in ns : rows[n] # None /\ locked[n] = Nobody
    /\ rows' = [n \in Names |-> IF n \in ns THEN None ELSE rows[n]]
    /\ lost' = lost \ ns
    /\ UNCHANGED <<backend, bucket, locked, home, stored, versions>>
    /\ faults' \in {faults, faults + 1} /\ faults' <= MaxFaults
    /\ \/ rec = Discarding({k \in LiveKeys : k[1] \in ns})
       \/ rec = Idle /\ faults' > 0

LEMMA PutEffect ==
    ASSUME TypeInv, NEW r \in Requests, PutObject(r)
    PROVE  \E rec \in Request : PutDone(r, rec)
<1>1. reqs[r].pc = "put" /\ reqs[r] \in Request /\ Own(r) \in Keys
    <2>1. reqs[r].pc = "put" /\ reqs[r] \in Request
        BY DEF PutObject, TypeInv, TypeOK
    <2>2. reqs[r].name \in Names /\ reqs[r].version \in 1..versions /\ versions \in 0..MaxVersions
        BY <2>1 DEF TypeInv, TypeOK, Named
    <2>3. reqs[r].version \in Version
        BY <2>2, Numbers DEF Version
    <2>. QED  BY <2>1, <2>2, <2>3 DEF Own, Keys
<1>2. /\ UNCHANGED <<backend, bucket, rows, locked, lost, versions>>
      /\ home' \in BOOLEAN /\ stored' \in {stored, stored \union {Own(r)}}
      /\ faults' \in {faults, faults + 1} /\ faults' <= MaxFaults
    <2>1. UNCHANGED <<backend, bucket, rows, locked, lost, versions>>
        BY DEF PutObject, database
    <2>2. home' \in BOOLEAN /\ stored' \in {stored, stored \union {Own(r)}}
        BY DEF PutObject, TypeInv, TypeOK, Own, store
    <2>3. faults' \in {faults, faults + 1} /\ faults' <= MaxFaults
        BY Numbers DEF PutObject, TypeInv, TypeOK, Fault, NoFault
    <2>. QED  BY <2>1, <2>2, <2>3
<1>3. CASE reqs' = [reqs EXCEPT ![r] = [reqs[r] EXCEPT !.pc = "commit"]] /\ Own(r) \in stored'
    <2>1. [reqs[r] EXCEPT !.pc = "commit"] \in Request
        BY <1>1 DEF Request
    <2>. QED  BY <1>1, <1>2, <1>3, <2>1 DEF PutDone
<1>4. CASE Discard(r, {Own(r)})
    <2>1. Discarding({Own(r)}) \in Request
        BY <1>1, DiscardingIsRequest
    <2>. QED  BY <1>1, <1>2, <1>4, <2>1 DEF PutDone, Discard, Step, Discarding
<1>. QED  BY <1>3, <1>4 DEF PutObject, Step, Own

LEMMA CommitEffect ==
    ASSUME TypeInv, NEW r \in Requests, CommitUpload(r), NEW n, n = reqs[r].name, NEW v, v = reqs[r].version
    PROVE  \E rec \in Request : CommitDone(r, n, v, rec)
<1>1. /\ reqs[r].pc = "commit" /\ n \in Names /\ v \in 1..versions /\ v \in Version /\ locked[n] = Nobody
      /\ rows[n] \in Version \union {None}
    BY Numbers DEF CommitUpload, TypeInv, TypeOK, Named, Version
<1>2. /\ UNCHANGED <<backend, bucket, locked, home, stored, versions>>
      /\ faults' \in {faults, faults + 1} /\ faults' <= MaxFaults
    BY Numbers DEF CommitUpload, TypeInv, TypeOK, Fault, NoFault, store
<1>3. \/ /\ bucket /\ rows' = [rows EXCEPT ![n] = v] /\ lost' = lost \ {n}
         /\ IF Replaced(n) = {} THEN Finish(r) ELSE Discard(r, Replaced(n))
      \/ /\ bucket /\ rows' = [rows EXCEPT ![n] = v] /\ lost' = lost \union {n}
         /\ Fault /\ Discard(r, {<<n, v>>})
      \/ /\ rows' = rows /\ lost' = lost /\ Discard(r, {<<n, v>>})
    BY DEF CommitUpload
<1>4. Discarding({<<n, v>>}) \in Request
    BY <1>1, KeyIsKey
<1>5. CASE /\ bucket /\ rows' = [rows EXCEPT ![n] = v] /\ lost' = lost \ {n}
           /\ IF Replaced(n) = {} THEN Finish(r) ELSE Discard(r, Replaced(n))
    <2>1. CASE rows[n] = None
        BY <1>1, <1>2, <1>5, <2>1, IdleIsRequest DEF CommitDone, Replaced, Finish, Step
    <2>2. CASE rows[n] # None
        <3>1. Replaced(n) = {<<n, rows[n]>>}
            BY <2>2 DEF Replaced, Key
        <3>2. Discarding({<<n, rows[n]>>}) \in Request
            BY <1>1, <2>2, KeyIsKey
        <3>. QED  BY <1>1, <1>2, <1>5, <2>2, <3>1, <3>2 DEF CommitDone, Discard, Step, Discarding
    <2>. QED  BY <2>1, <2>2
<1>6. CASE /\ bucket /\ rows' = [rows EXCEPT ![n] = v] /\ lost' = lost \union {n}
           /\ Fault /\ Discard(r, {<<n, v>>})
    <2>1. faults' > 0
        BY <1>6 DEF Fault, TypeInv, TypeOK
    <2>. QED  BY <1>1, <1>2, <1>4, <1>6, <2>1 DEF CommitDone, Discard, Step, Discarding
<1>7. CASE rows' = rows /\ lost' = lost /\ Discard(r, {<<n, v>>})
    BY <1>1, <1>2, <1>4, <1>7 DEF CommitDone, Discard, Step, Discarding
<1>. QED  BY <1>3, <1>5, <1>6, <1>7

LEMMA RemoveEffect ==
    ASSUME TypeInv, NEW r \in Requests, NEW ns \in SUBSET Names, RemoveObjects(r, ns)
    PROVE  \E rec \in Request : RemoveDone(r, ns, rec)
<1>1. /\ reqs[r] = Idle
      /\ \A n \in ns : rows[n] # None /\ locked[n] = Nobody
      /\ rows' = [n \in Names |-> IF n \in ns THEN None ELSE rows[n]]
      /\ lost' = lost \ ns
      /\ UNCHANGED <<backend, bucket, locked, home, stored, versions>>
      /\ faults' \in {faults, faults + 1} /\ faults' <= MaxFaults
    BY Numbers DEF RemoveObjects, TypeInv, TypeOK, Fault, NoFault, store
<1>2. LiveKeys \subseteq Keys
    BY DEF LiveKeys, Keys, TypeInv, TypeOK
<1>3. CASE Discard(r, {k \in LiveKeys : k[1] \in ns})
    <2>1. Discarding({k \in LiveKeys : k[1] \in ns}) \in Request
        BY <1>2, DiscardingIsRequest
    <2>. QED  BY <1>1, <1>3, <2>1 DEF RemoveDone, Discard, Step, Discarding
<1>4. CASE Finish(r) /\ Fault
    <2>1. faults' > 0
        BY <1>4 DEF Fault, TypeInv, TypeOK
    <2>. QED  BY <1>1, <1>4, <2>1, IdleIsRequest DEF RemoveDone, Finish, Step
<1>. QED  BY <1>3, <1>4 DEF RemoveObjects

----------------------------------------------------------------------------
(* Types *)

\* A request is replaced that holds no lock, or lets go of those it holds.
LEMMA StepTyped ==
    ASSUME TypeInv, NEW r \in Requests, NEW rec \in Request, reqs' = [reqs EXCEPT ![r] = rec],
           backend' = backend, bucket' \in BOOLEAN, home' \in BOOLEAN,
           rows' \in [Names -> Version \union {None}],
           locked' \in [Names -> Requests \union {Nobody}],
           stored' \subseteq Keys, versions' \in versions..MaxVersions, faults' \in 0..MaxFaults,
           lost' \subseteq {n \in Names : rows'[n] # None},
           \A n \in Names : locked'[n] # Nobody =>
               /\ rows'[n] # None
               /\ \/ locked'[n] = locked[n] /\ locked[n] # r
                  \/ locked'[n] = r /\ rec.pc = "emptying",
           rec.pc \in {"put", "commit"} => rec.name \in Names /\ rec.version \in 1..versions',
           rec.pc \in {"get", "bytes", "missing"} => rec.name \in Names /\ rec.version \in Version
    PROVE  TypeInv'
<1>1. versions \in 0..MaxVersions /\ reqs \in [Requests -> Request]
    BY DEF TypeInv, TypeOK
<1>2. reqs' \in [Requests -> Request] /\ versions' \in 0..MaxVersions
    BY <1>1, Numbers
<1>3. \A n \in Names : locked'[n] # Nobody => rows'[n] # None /\ reqs'[locked'[n]].pc = "emptying"
    BY <1>1 DEF TypeInv, TypeOK
<1>4. Named'
    <2>. SUFFICES ASSUME NEW q \in Requests
                  PROVE  /\ reqs'[q].pc \in {"put", "commit"} => reqs'[q].name \in Names /\ reqs'[q].version \in 1..versions'
                         /\ reqs'[q].pc \in {"get", "bytes", "missing"} => reqs'[q].name \in Names /\ reqs'[q].version \in Version
        BY DEF Named
    <2>1. CASE q = r
        BY <1>1, <2>1
    <2>2. CASE q # r
        <3>1. reqs'[q] = reqs[q]
            BY <1>1, <2>2
        <3>2. \A x \in 1..versions : x \in 1..versions'
            BY <1>1, Numbers
        <3>. QED  BY <3>1, <3>2 DEF TypeInv, Named
    <2>. QED  BY <2>1, <2>2
<1>. QED  BY <1>2, <1>3, <1>4 DEF TypeInv, TypeOK

LEMMA InitTyped == Init => TypeInv
BY Numbers, IdleIsRequest DEF Init, TypeInv, TypeOK, Named

----------------------------------------------------------------------------
(* Keeping the invariant *)

\* The requests whose keys and versions the invariant is about.
Busy == {"put", "commit", "discard", "emptying"}

LEMMA StepReplaces ==
    ASSUME TypeInv, NEW r \in Requests, NEW rec, reqs' = [reqs EXCEPT ![r] = rec]
    PROVE  reqs'[r] = rec /\ \A q \in Requests : q # r => reqs'[q] = reqs[q]
BY DEF TypeInv, TypeOK

\* A step that touches none of the rows and none of the busy requests.
LEMMA QuietKeeps ==
    ASSUME ObjectsInv, TypeInv', RowsHaveABucket',
           NEW r \in Requests, NEW rec, reqs' = [reqs EXCEPT ![r] = rec],
           reqs[r].pc \notin Busy, rec.pc \notin Busy,
           UNCHANGED <<backend, rows, locked, lost, versions>>,
           stored' \subseteq stored, backend = "s3" => stored' = stored,
           faults' = 0 => faults = 0
    PROVE  ObjectsInv'
<1>1. reqs'[r] = rec /\ \A q \in Requests : q # r => reqs'[q] = reqs[q]
    BY StepReplaces DEF ObjectsInv
<1>2. \A q \in Requests : \/ reqs'[q] = reqs[q]
                          \/ reqs'[q].pc \notin Busy /\ reqs[q].pc \notin Busy
    BY <1>1
<1>3. Fresh'
    BY <1>2 DEF ObjectsInv, Fresh, Uploading, Busy
<1>4. Doomed'
    BY <1>2 DEF ObjectsInv, Doomed, Uploading, Busy
<1>5. Emptying'
    BY <1>2 DEF ObjectsInv, Emptying, Busy
<1>6. \A n \in Names : locked[n] # Nobody => reqs'[locked[n]] = reqs[locked[n]]
    BY <1>2 DEF ObjectsInv, TypeInv, TypeOK, Busy
<1>7. backend' = "s3" => Backed'
    BY <1>2, <1>6 DEF ObjectsInv, Backed, Busy
<1>8. faults' = 0 => Tidy'
    <2>. SUFFICES ASSUME faults' = 0 PROVE Tidy'
        OBVIOUS
    <2>1. Tidy
        BY DEF ObjectsInv
    <2>2. \A n \in Names, v \in Version : Claimed(n, v) => Claimed(n, v)'
        BY <1>2 DEF Claimed, Busy
    <2>. QED  BY <2>1, <2>2, <1>6 DEF Tidy
<1>. QED  BY <1>3, <1>4, <1>5, <1>7, <1>8 DEF ObjectsInv

LEMMA BeginUploadKeeps ==
    ASSUME ObjectsInv, NEW r \in Requests, NEW n \in Names, NEW upsert \in BOOLEAN, BeginUpload(r, n, upsert)
    PROVE  ObjectsInv'
<1>. DEFINE v == versions + 1
            rec == [pc |-> "put", name |-> n, version |-> v, upsert |-> upsert, keys |-> {}]
<1>1. /\ reqs[r].pc = "idle" /\ reqs' = [reqs EXCEPT ![r] = rec]
      /\ versions \in Nat /\ versions' = v /\ v \in Version /\ v \in 1..v
      /\ UNCHANGED <<backend, bucket, rows, locked, lost, home, stored, faults>>
    BY Numbers, IdleIsRequest DEF BeginUpload, Step, ObjectsInv, TypeInv, TypeOK, database, store, Version
<1>2. rec \in Request /\ rec.pc = "put" /\ rec.name = n /\ rec.version = v
    BY <1>1 DEF Request, Keys
<1>3. TypeInv'
    <2>1. versions' \in versions..MaxVersions
        BY <1>1, Numbers DEF Version
    <2>2. \A m \in Names : locked[m] # Nobody => locked[m] # r
        BY <1>1 DEF ObjectsInv, TypeInv, TypeOK
    <2>3. TypeInv /\ TypeOK
        BY DEF ObjectsInv, TypeInv
    <2>. HIDE DEF rec
    <2>. QED  BY <1>1, <1>2, <2>1, <2>2, <2>3, StepTyped DEF TypeOK
<1>. HIDE DEF rec
<1>4. reqs'[r] = rec /\ \A q \in Requests : q # r => reqs'[q] = reqs[q]
    BY <1>1, StepReplaces DEF ObjectsInv
<1>5. v \notin 1..versions /\ \A x \in 1..versions : x \in 1..v
    BY <1>1
<1>6. \A q \in Requests : Uploading(q) => reqs[q].version \in 1..versions
    BY DEF ObjectsInv, TypeInv, Named, Uploading
<1>. HIDE DEF v
<1>7. Fresh'
    <2>1. \A m \in Names : rows[m] # v
        BY <1>5, NoneAssumption, <1>1 DEF ObjectsInv, Fresh, Version
    <2>. QED  BY <1>1, <1>2, <1>4, <1>5, <1>6, <2>1 DEF ObjectsInv, Fresh, Uploading
<1>8. Doomed'
    BY <1>1, <1>2, <1>4, <1>5 DEF ObjectsInv, Doomed, Uploading
<1>9. Emptying'
    BY <1>1, <1>2, <1>4 DEF ObjectsInv, Emptying
<1>10. \A m \in Names : locked[m] # Nobody => reqs'[locked[m]] = reqs[locked[m]]
    BY <1>1, <1>4 DEF ObjectsInv, TypeInv, TypeOK
<1>11. backend' = "s3" => Backed'
    BY <1>1, <1>2, <1>4, <1>10 DEF ObjectsInv, Backed
<1>12. faults' = 0 => Tidy'
    <2>1. \A m \in Names, w \in Version : Claimed(m, w) => Claimed(m, w)'
        BY <1>1, <1>4 DEF Claimed
    <2>. QED  BY <1>1, <1>10, <2>1 DEF ObjectsInv, Tidy
<1>13. RowsHaveABucket'
    BY <1>1 DEF ObjectsInv, RowsHaveABucket
<1>. QED  BY <1>3, <1>7, <1>8, <1>9, <1>11, <1>12, <1>13 DEF ObjectsInv

LEMMA PutKeeps ==
    ASSUME ObjectsInv, NEW r \in Requests, NEW rec \in Request, PutDone(r, rec),
           NEW n, n = reqs[r].name, NEW v, v = reqs[r].version
    PROVE  ObjectsInv'
<1>1. /\ reqs[r].pc = "put" /\ Uploading(r) /\ reqs' = [reqs EXCEPT ![r] = rec]
      /\ n \in Names /\ v \in 1..versions /\ v \in Version /\ versions \in 0..MaxVersions
      /\ UNCHANGED <<backend, bucket, rows, locked, lost, versions>>
      /\ stored' \in {stored, stored \union {<<n, v>>}}
    BY Numbers DEF ObjectsInv, TypeInv, TypeOK, Named, PutDone, Own, Version, Uploading
<1>2. \/ rec.pc = "commit" /\ rec.name = n /\ rec.version = v /\ rec.keys = reqs[r].keys /\ <<n, v>> \in stored'
      \/ rec.pc = "discard" /\ rec.keys = {<<n, v>>}
    <2>1. reqs[r] \in Request
        BY DEF ObjectsInv, TypeInv, TypeOK
    <2>2. {<<n, v>>} \in SUBSET Keys
        BY <1>1 DEF Keys
    <2>. QED  BY <2>1, <2>2, DiscardingIsRequest DEF PutDone, Own, Request
<1>3. TypeInv'
    <2>1. versions' \in versions..MaxVersions
        BY <1>1, Numbers
    <2>2. \A m \in Names : locked[m] # Nobody => locked[m] # r
        BY <1>1 DEF ObjectsInv, TypeInv, TypeOK
    <2>3. TypeInv /\ TypeOK
        BY DEF ObjectsInv, TypeInv
    <2>4. faults' \in 0..MaxFaults
        BY <2>3, Numbers DEF PutDone, TypeOK
    <2>5. stored' \subseteq Keys /\ home' \in BOOLEAN
        BY <1>1, <2>3 DEF PutDone, TypeOK, Keys
    <2>. QED  BY <1>1, <1>2, <2>1, <2>2, <2>3, <2>4, <2>5, StepTyped DEF TypeOK
<1>4. reqs'[r] = rec /\ \A q \in Requests : q # r => reqs'[q] = reqs[q]
    BY <1>1, StepReplaces DEF ObjectsInv
<1>5. /\ \A q \in Requests : Uploading(q)' => Uploading(q) /\ reqs'[q].version = reqs[q].version
      /\ \A m \in Names : rows[m] # v
      /\ \A q \in Requests : q # r /\ Uploading(q) => reqs[q].version # v
    BY <1>1, <1>2, <1>4 DEF ObjectsInv, Fresh, Uploading
<1>6. Fresh'
    BY <1>1, <1>5 DEF ObjectsInv, Fresh
<1>7. Doomed'
    <2>. SUFFICES ASSUME NEW q \in Requests, reqs'[q].pc = "discard", NEW m \in Names, NEW w \in Version,
                         <<m, w>> \in reqs'[q].keys
                  PROVE  /\ w \in 1..versions'
                         /\ rows'[m] # w \/ m \in lost'
                         /\ \A p \in Requests : Uploading(p)' => reqs'[p].version # w
        BY DEF Doomed
    <2>1. CASE q = r
        <3>1. w = v /\ ~Uploading(r)'
            BY <1>2, <1>4, <2>1 DEF Uploading
        <3>. QED  BY <1>1, <1>5, <3>1
    <2>2. CASE q # r
        BY <1>1, <1>4, <1>5, <2>2 DEF ObjectsInv, Doomed
    <2>. QED  BY <2>1, <2>2
<1>8. Emptying'
    BY <1>1, <1>2, <1>4 DEF ObjectsInv, Emptying
<1>9. \A m \in Names : locked[m] # Nobody => reqs'[locked[m]] = reqs[locked[m]]
    BY <1>1, <1>4 DEF ObjectsInv, TypeInv, TypeOK
<1>10. backend' = "s3" => Backed'
    BY <1>1, <1>2, <1>4, <1>9 DEF ObjectsInv, Backed
<1>11. faults' = 0 => Tidy'
    <2>. SUFFICES ASSUME faults' = 0 PROVE Tidy'
        OBVIOUS
    <2>1. Tidy
        <3>1. faults = 0
            BY DEF ObjectsInv, TypeInv, TypeOK, PutDone
        <3>. QED  BY <3>1 DEF ObjectsInv
    <2>2. Claimed(n, v)'
        <3>1. reqs'[r] = rec
            BY <1>4
        <3>. QED  BY <1>2, <3>1 DEF Claimed
    <2>3. \A m \in Names, w \in Version : Claimed(m, w) => Claimed(m, w)'
        BY <1>1, <1>4 DEF Claimed
    <2>4. \A m \in Names, w \in Version : <<m, w>> \in stored' => <<m, w>> \in stored \/ (m = n /\ w = v)
        BY <1>1
    <2>5. \A m \in Names : <<m, rows[m]>> \in stored' => <<m, rows[m]>> \in stored
        <3>1. \A m \in Names : rows[m] # v
            BY <1>5
        <3>. QED  BY <1>1, <3>1
    <2>. QED  BY <1>1, <1>9, <2>1, <2>2, <2>3, <2>4, <2>5 DEF Tidy
<1>12. RowsHaveABucket'
    BY <1>1 DEF ObjectsInv, RowsHaveABucket
<1>. QED  BY <1>3, <1>6, <1>7, <1>8, <1>10, <1>11, <1>12 DEF ObjectsInv

LEMMA CommitKeeps ==
    ASSUME ObjectsInv, NEW r \in Requests, NEW rec \in Request,
           NEW n, n = reqs[r].name, NEW v, v = reqs[r].version, CommitDone(r, n, v, rec)
    PROVE  ObjectsInv'
<1>1. /\ reqs[r].pc = "commit" /\ Uploading(r) /\ reqs' = [reqs EXCEPT ![r] = rec]
      /\ n \in Names /\ v \in 1..versions /\ v \in Version /\ versions \in 0..MaxVersions
      /\ locked[n] = Nobody
      /\ UNCHANGED <<backend, bucket, locked, home, stored, versions>>
    BY Numbers DEF ObjectsInv, TypeInv, TypeOK, CommitDone, Version, Uploading
<1>2. /\ rec.pc \in {"idle", "discard"}
      /\ \/ /\ bucket /\ rows' = [rows EXCEPT ![n] = v] /\ lost' = lost \ {n}
            /\ \/ rows[n] = None /\ rec.pc = "idle"
               \/ rows[n] # None /\ rec.pc = "discard" /\ rec.keys = {<<n, rows[n]>>}
         \/ /\ bucket /\ rows' = [rows EXCEPT ![n] = v] /\ lost' = lost \union {n} /\ faults' > 0
            /\ rec.pc = "discard" /\ rec.keys = {<<n, v>>}
         \/ rows' = rows /\ lost' = lost /\ rec.pc = "discard" /\ rec.keys = {<<n, v>>}
    <2>1. rows[n] \in Version \union {None}
        BY <1>1 DEF ObjectsInv, TypeInv, TypeOK
    <2>2. {<<n, v>>} \in SUBSET Keys /\ (rows[n] # None => {<<n, rows[n]>>} \in SUBSET Keys)
        BY <1>1, <2>1 DEF Keys
    <2>. QED  BY <2>2, DiscardingIsRequest, IdleIsRequest DEF CommitDone
<1>3. /\ rows \in [Names -> Version \union {None}]
      /\ v # None /\ rows[n] # v
      /\ rows' \in [Names -> Version \union {None}] /\ rows' \in {rows, [rows EXCEPT ![n] = v]}
      /\ \A m \in Names : m # n => rows'[m] = rows[m]
    BY <1>1, <1>2, NoneAssumption DEF ObjectsInv, TypeInv, TypeOK, Fresh, Version
<1>4. TypeInv'
    <2>1. versions' \in versions..MaxVersions
        BY <1>1, Numbers
    <2>2. TypeInv /\ TypeOK
        BY DEF ObjectsInv, TypeInv
    <2>3. \A m \in Names : locked[m] # Nobody => locked[m] # r /\ rows'[m] # None
        BY <1>1, <1>3, <2>2 DEF TypeOK
    <2>4. faults' \in 0..MaxFaults
        BY <2>2, Numbers DEF CommitDone, TypeOK
    <2>5. lost' \subseteq {m \in Names : rows'[m] # None}
        <3>1. CASE rows' = rows /\ lost' = lost
            BY <2>2, <3>1 DEF TypeOK
        <3>2. CASE rows' = [rows EXCEPT ![n] = v] /\ lost' \subseteq lost \union {n}
            BY <1>1, <1>3, <2>2, <3>2 DEF TypeOK
        <3>. QED  BY <1>2, <3>1, <3>2
    <2>6. /\ UNCHANGED <<backend, bucket, locked, home, stored>> /\ reqs' = [reqs EXCEPT ![r] = rec]
          /\ rows' \in [Names -> Version \union {None}] /\ rec.pc \in {"idle", "discard"}
        BY <1>1, <1>2, <1>3
    <2>. QED  BY <2>1, <2>2, <2>3, <2>4, <2>5, <2>6, StepTyped DEF TypeOK
<1>5. reqs'[r] = rec /\ \A q \in Requests : q # r => reqs'[q] = reqs[q]
    BY <1>1, StepReplaces DEF ObjectsInv
<1>6. /\ \A q \in Requests : Uploading(q)' => q # r /\ Uploading(q) /\ reqs'[q].version = reqs[q].version
      /\ \A q \in Requests : q # r /\ Uploading(q) => reqs[q].version # v
    BY <1>1, <1>2, <1>5 DEF ObjectsInv, Fresh, Uploading
<1>7. Fresh'
    <2>1. \A m \in Names : rows'[m] \in {rows[m], v}
        BY <1>1, <1>3
    <2>. QED  BY <1>1, <1>6, <2>1 DEF ObjectsInv, Fresh
<1>8. Doomed'
    <2>. SUFFICES ASSUME NEW q \in Requests, reqs'[q].pc = "discard", NEW m \in Names, NEW w \in Version,
                         <<m, w>> \in reqs'[q].keys
                  PROVE  /\ w \in 1..versions'
                         /\ rows'[m] # w \/ m \in lost'
                         /\ \A p \in Requests : Uploading(p)' => reqs'[p].version # w
        BY DEF Doomed
    <2>1. CASE q = r /\ rec.keys = {<<n, v>>}
        <3>1. m = n /\ w = v
            BY <1>5, <2>1
        <3>2. rows' = rows \/ n \in lost'
            BY <1>2, <1>3, <1>5, <2>1
        <3>. QED  BY <1>1, <1>3, <1>6, <3>1, <3>2
    <2>2. CASE q = r /\ rows[n] # None /\ rec.keys = {<<n, rows[n]>>} /\ rows' = [rows EXCEPT ![n] = v]
        <3>1. m = n /\ w = rows[n]
            BY <1>5, <2>2
        <3>2. rows[n] \in 1..versions /\ \A p \in Requests : Uploading(p) => reqs[p].version # rows[n]
            BY <1>1, <2>2 DEF ObjectsInv, Fresh
        <3>. QED  BY <1>1, <1>3, <1>6, <2>2, <3>1, <3>2
    <2>3. CASE q # r
        <3>1. /\ w \in 1..versions /\ (rows[m] # w \/ m \in lost)
              /\ \A p \in Requests : Uploading(p) => reqs[p].version # w
            BY <1>5, <2>3 DEF ObjectsInv, Doomed
        <3>2. w # v
            BY <1>1, <3>1
        <3>3. rows'[m] # w \/ m \in lost'
            <4>1. CASE rows' = rows /\ lost' = lost
                BY <3>1, <4>1
            <4>2. CASE rows' = [rows EXCEPT ![n] = v] /\ lost' \in {lost \ {n}, lost \union {n}}
                BY <1>1, <1>3, <3>1, <3>2, <4>2
            <4>. QED  BY <1>2, <4>1, <4>2
        <3>. QED  BY <1>1, <1>6, <3>1, <3>3
    <2>. QED  BY <1>2, <1>5, <2>1, <2>2, <2>3
<1>9. Emptying'
    <2>. SUFFICES ASSUME NEW q \in Requests, reqs'[q].pc = "emptying", NEW m \in Names, NEW w \in Version,
                         <<m, w>> \in reqs'[q].keys
                  PROVE  locked[m] = q /\ rows'[m] = w
        BY <1>1 DEF Emptying
    <2>1. q # r /\ locked[m] = q /\ rows[m] = w
        BY <1>2, <1>5 DEF ObjectsInv, Emptying
    <2>2. m # n
        BY <1>1, <2>1, NobodyAssumption
    <2>. QED  BY <1>3, <2>1, <2>2
<1>10. \A m \in Names : locked[m] # Nobody => m # n /\ reqs'[locked[m]] = reqs[locked[m]]
    BY <1>1, <1>5 DEF ObjectsInv, TypeInv, TypeOK
<1>11. backend' = "s3" => Backed'
    <2>. SUFFICES ASSUME backend = "s3" PROVE Backed'
        BY <1>1
    <2>1. Backed
        BY DEF ObjectsInv
    <2>2. \A q \in Requests : reqs'[q].pc = "commit" => <<reqs'[q].name, reqs'[q].version>> \in stored'
        BY <1>1, <1>2, <1>5, <2>1 DEF Backed
    <2>3. rows' # rows => rows'[n] = v /\ <<n, rows'[n]>> \in stored'
        BY <1>1, <1>3, <2>1 DEF Backed
    <2>4. \A m \in Names : m # n => (m \in lost' <=> m \in lost)
        BY <1>2
    <2>5. \A m \in Names :
              rows'[m] # None /\ m \notin lost' /\ (locked'[m] = Nobody \/ <<m, rows'[m]>> \in reqs'[locked'[m]].keys)
              => <<m, rows'[m]>> \in stored'
        <3>. SUFFICES ASSUME NEW m \in Names, rows'[m] # None, m \notin lost',
                             locked[m] = Nobody \/ <<m, rows'[m]>> \in reqs'[locked[m]].keys
                      PROVE  <<m, rows'[m]>> \in stored
            BY <1>1
        <3>1. CASE m # n
            BY <1>3, <1>10, <2>1, <2>4, <3>1 DEF Backed
        <3>2. CASE m = n /\ rows' = rows
            BY <1>1, <1>2, <1>3, <2>1, <3>2 DEF Backed
        <3>3. CASE m = n /\ rows' # rows
            BY <1>1, <2>3, <3>3
        <3>. QED  BY <3>1, <3>2, <3>3
    <2>. QED  BY <2>2, <2>5 DEF Backed
<1>12. faults' = 0 => Tidy'
    <2>. SUFFICES ASSUME faults' = 0 PROVE Tidy'
        OBVIOUS
    <2>1. Tidy
        <3>1. faults = 0
            BY DEF ObjectsInv, TypeInv, TypeOK, CommitDone
        <3>. QED  BY <3>1 DEF ObjectsInv
    <2>2. lost' = {}
        BY <1>2, <2>1 DEF Tidy
    <2>3. \A m \in Names, w \in Version : Claimed(m, w) => Claimed(m, w)'
        <3>. SUFFICES ASSUME NEW m \in Names, NEW w \in Version, Claimed(m, w) PROVE Claimed(m, w)'
            OBVIOUS
        <3>1. CASE rows[m] = w /\ rows'[m] = w
            BY <3>1 DEF Claimed
        <3>2. CASE rows[m] = w /\ rows'[m] # w
            <4>1. m = n /\ rows[n] # None /\ rec.pc = "discard" /\ rec.keys = {<<n, rows[n]>>}
                BY <1>1, <1>2, <1>3, <3>2, NoneAssumption DEF Version
            <4>. QED  BY <1>5, <3>2, <4>1 DEF Claimed
        <3>3. CASE m = n /\ w = v
            <4>1. rows'[n] = v \/ (rec.pc = "discard" /\ rec.keys = {<<n, v>>})
                BY <1>1, <1>2, <1>3
            <4>. QED  BY <1>5, <3>3, <4>1 DEF Claimed
        <3>4. CASE \E q \in Requests : q # r /\ (\/ reqs[q].pc = "discard" /\ <<m, w>> \in reqs[q].keys
                                                 \/ reqs[q].pc = "commit" /\ reqs[q].name = m /\ reqs[q].version = w)
            BY <1>5, <3>4 DEF Claimed
        <3>. QED  BY <1>1, <3>1, <3>2, <3>3, <3>4 DEF Claimed
    <2>. QED  BY <1>1, <1>3, <1>10, <2>1, <2>2, <2>3 DEF Tidy
<1>13. RowsHaveABucket'
    BY <1>1, <1>2 DEF ObjectsInv, RowsHaveABucket
<1>. QED  BY <1>4, <1>7, <1>8, <1>9, <1>11, <1>12, <1>13 DEF ObjectsInv

LEMMA DiscardKeeps ==
    ASSUME ObjectsInv, NEW r \in Requests, DiscardBytes(r)
    PROVE  ObjectsInv'
<1>1. /\ reqs[r].pc = "discard" /\ reqs' = [reqs EXCEPT ![r] = Idle]
      /\ UNCHANGED <<backend, bucket, rows, locked, lost, home, versions>>
      /\ stored' \in {stored, stored \ reqs[r].keys}
      /\ faults' \in 0..MaxFaults /\ (faults' = 0 => faults = 0 /\ stored' = stored \ reqs[r].keys)
    BY Numbers DEF DiscardBytes, ObjectsInv, TypeInv, TypeOK, Fault, NoFault, Finish, Step, database
<1>2. TypeInv /\ TypeOK /\ versions' \in versions..MaxVersions
    BY <1>1, Numbers DEF ObjectsInv, TypeInv, TypeOK
<1>3. TypeInv'
    <2>1. \A m \in Names : locked[m] # Nobody => locked[m] # r /\ rows[m] # None
        BY <1>1, <1>2 DEF TypeOK
    <2>2. stored' \subseteq Keys
        BY <1>1, <1>2 DEF TypeOK
    <2>. QED  BY <1>1, <1>2, <2>1, <2>2, IdleIsRequest, StepTyped DEF TypeOK
<1>4. reqs'[r].pc = "idle" /\ \A q \in Requests : q # r => reqs'[q] = reqs[q]
    BY <1>1, <1>2, StepReplaces, IdleIsRequest
<1>5. Fresh'
    BY <1>1, <1>4 DEF ObjectsInv, Fresh, Uploading
<1>6. Doomed'
    BY <1>1, <1>4 DEF ObjectsInv, Doomed, Uploading
<1>7. Emptying'
    BY <1>1, <1>4 DEF ObjectsInv, Emptying
<1>8. \A m \in Names : locked[m] # Nobody => reqs'[locked[m]] = reqs[locked[m]]
    BY <1>1, <1>2, <1>4 DEF TypeOK
<1>9. backend' = "s3" => Backed'
    <2>. SUFFICES ASSUME backend = "s3" PROVE Backed'
        BY <1>1
    <2>1. Backed
        BY DEF ObjectsInv
    <2>2. \A q \in Requests : reqs'[q].pc = "commit" => <<reqs'[q].name, reqs'[q].version>> \in stored'
        <3>. SUFFICES ASSUME NEW q \in Requests, reqs'[q].pc = "commit"
                      PROVE  <<reqs[q].name, reqs[q].version>> \in stored' /\ reqs'[q] = reqs[q]
            BY <1>1
        <3>1. q # r /\ reqs'[q] = reqs[q] /\ Uploading(q)
            BY <1>4 DEF Uploading
        <3>2. reqs[q].name \in Names /\ reqs[q].version \in Version
            BY <1>2, <3>1, Numbers DEF TypeInv, TypeOK, Named, Uploading, Version
        <3>3. <<reqs[q].name, reqs[q].version>> \notin reqs[r].keys
            BY <1>1, <3>1, <3>2 DEF ObjectsInv, Doomed
        <3>. QED  BY <1>1, <2>1, <3>1, <3>3 DEF Backed
    <2>3. \A m \in Names : rows[m] # None /\ m \notin lost => <<m, rows[m]>> \notin reqs[r].keys
        BY <1>1, <1>2 DEF ObjectsInv, Doomed, TypeOK
    <2>. QED  BY <1>1, <1>8, <2>1, <2>2, <2>3 DEF Backed
<1>10. faults' = 0 => Tidy'
    <2>. SUFFICES ASSUME faults' = 0 PROVE Tidy'
        OBVIOUS
    <2>1. Tidy /\ stored' = stored \ reqs[r].keys
        BY <1>1 DEF ObjectsInv
    <2>2. \A m \in Names, w \in Version : Claimed(m, w) /\ <<m, w>> \notin reqs[r].keys => Claimed(m, w)'
        BY <1>1, <1>4 DEF Claimed
    <2>. QED  BY <1>1, <1>8, <2>1, <2>2 DEF Tidy
<1>11. RowsHaveABucket'
    BY <1>1 DEF ObjectsInv, RowsHaveABucket
<1>. QED  BY <1>3, <1>5, <1>6, <1>7, <1>9, <1>10, <1>11 DEF ObjectsInv

LEMMA RemoveKeeps ==
    ASSUME ObjectsInv, NEW r \in Requests, NEW rec \in Request, NEW ns \in SUBSET Names, RemoveDone(r, ns, rec)
    PROVE  ObjectsInv'
<1>1. /\ reqs[r].pc = "idle" /\ reqs' = [reqs EXCEPT ![r] = rec]
      /\ \A n \in ns : rows[n] # None /\ locked[n] = Nobody
      /\ rows' = [n \in Names |-> IF n \in ns THEN None ELSE rows[n]]
      /\ lost' = lost \ ns
      /\ UNCHANGED <<backend, bucket, locked, home, stored, versions>>
      /\ rows \in [Names -> Version \union {None}]
    BY IdleIsRequest DEF RemoveDone, ObjectsInv, TypeInv, TypeOK
<1>2. \/ rec.pc = "discard" /\ \A n \in Names, v \in Version : <<n, v>> \in rec.keys <=> n \in ns /\ rows[n] = v
      \/ rec.pc = "idle" /\ faults' > 0
    <2>1. CASE rec = Discarding({k \in LiveKeys : k[1] \in ns})
        <3>1. {k \in LiveKeys : k[1] \in ns} \subseteq Keys
            BY <1>1 DEF LiveKeys, Keys
        <3>2. rec.pc = "discard" /\ rec.keys = {k \in LiveKeys : k[1] \in ns}
            BY <2>1, <3>1, DiscardingIsRequest
        <3>3. \A n \in Names, v \in Version : <<n, v>> \in LiveKeys <=> rows[n] = v
            BY NoneAssumption DEF LiveKeys, Version
        <3>. QED  BY <3>2, <3>3
    <2>2. CASE rec = Idle /\ faults' > 0
        BY <2>2, IdleIsRequest
    <2>. QED  BY <2>1, <2>2 DEF RemoveDone
<1>3. TypeInv /\ TypeOK /\ faults' \in 0..MaxFaults /\ (faults' = 0 => faults = 0)
    BY Numbers DEF ObjectsInv, TypeInv, TypeOK, RemoveDone
<1>4. TypeInv'
    <2>1. \A m \in Names : locked[m] # Nobody => locked[m] # r /\ rows'[m] # None
        BY <1>1, <1>3 DEF TypeOK
    <2>2. /\ versions' \in versions..MaxVersions /\ rec.pc \in {"idle", "discard"}
          /\ rows' \in [Names -> Version \union {None}]
          /\ lost' \subseteq {m \in Names : rows'[m] # None}
        BY <1>1, <1>2, <1>3, Numbers DEF TypeOK
    <2>3. UNCHANGED <<backend, bucket, locked, home, stored>> /\ reqs' = [reqs EXCEPT ![r] = rec]
        BY <1>1
    <2>. QED  BY <1>3, <2>1, <2>2, <2>3, StepTyped DEF TypeOK
<1>5. reqs'[r] = rec /\ \A q \in Requests : q # r => reqs'[q] = reqs[q]
    BY <1>1, <1>3, StepReplaces
<1>6. \A q \in Requests : Uploading(q)' => Uploading(q) /\ reqs'[q].version = reqs[q].version
    BY <1>2, <1>5 DEF Uploading
<1>7. Fresh'
    <2>1. \A q \in Requests : Uploading(q) => reqs[q].version # None
        BY NoneAssumption, Numbers DEF ObjectsInv, TypeInv, TypeOK, Named, Uploading
    <2>. QED  BY <1>1, <1>6, <2>1 DEF ObjectsInv, Fresh
<1>8. Doomed'
    <2>. SUFFICES ASSUME NEW q \in Requests, reqs'[q].pc = "discard", NEW m \in Names, NEW w \in Version,
                         <<m, w>> \in reqs'[q].keys
                  PROVE  /\ w \in 1..versions'
                         /\ rows'[m] # w \/ m \in lost'
                         /\ \A p \in Requests : Uploading(p)' => reqs'[p].version # w
        BY DEF Doomed
    <2>1. w # None
        BY NoneAssumption DEF Version
    <2>2. CASE q = r
        <3>1. m \in ns /\ rows[m] = w
            BY <1>2, <1>5, <2>2
        <3>2. w \in 1..versions /\ \A p \in Requests : Uploading(p) => reqs[p].version # w
            BY <2>1, <3>1 DEF ObjectsInv, Fresh
        <3>. QED  BY <1>1, <1>6, <2>1, <3>1, <3>2
    <2>3. CASE q # r
        <3>1. /\ w \in 1..versions /\ (rows[m] # w \/ m \in lost)
              /\ \A p \in Requests : Uploading(p) => reqs[p].version # w
            BY <1>5, <2>3 DEF ObjectsInv, Doomed
        <3>. QED  BY <1>1, <1>6, <2>1, <3>1
    <2>. QED  BY <2>2, <2>3
<1>9. Emptying'
    <2>. SUFFICES ASSUME NEW q \in Requests, reqs'[q].pc = "emptying", NEW m \in Names, NEW w \in Version,
                         <<m, w>> \in reqs'[q].keys
                  PROVE  locked[m] = q /\ rows'[m] = w
        BY <1>1 DEF Emptying
    <2>1. q # r /\ locked[m] = q /\ rows[m] = w
        BY <1>2, <1>5 DEF ObjectsInv, Emptying
    <2>. QED  BY <1>1, <2>1, NobodyAssumption
<1>10. \A m \in Names : locked[m] # Nobody => m \notin ns /\ reqs'[locked[m]] = reqs[locked[m]]
    BY <1>1, <1>3, <1>5 DEF TypeOK
<1>11. backend' = "s3" => Backed'
    BY <1>1, <1>2, <1>5, <1>10 DEF ObjectsInv, Backed
<1>12. faults' = 0 => Tidy'
    <2>. SUFFICES ASSUME faults' = 0 PROVE Tidy'
        OBVIOUS
    <2>1. Tidy
        BY <1>3 DEF ObjectsInv
    <2>2. rec.pc = "discard" /\ \A n \in Names, v \in Version : <<n, v>> \in rec.keys <=> n \in ns /\ rows[n] = v
        BY <1>2
    <2>3. \A m \in Names, w \in Version : Claimed(m, w) => Claimed(m, w)'
        BY <1>1, <1>5, <2>2 DEF Claimed
    <2>. QED  BY <1>1, <1>10, <2>1, <2>3 DEF Tidy
<1>13. RowsHaveABucket'
    BY <1>1 DEF ObjectsInv, RowsHaveABucket
<1>. QED  BY <1>4, <1>7, <1>8, <1>9, <1>11, <1>12, <1>13 DEF ObjectsInv

LEMMA BeginEmptyKeeps ==
    ASSUME ObjectsInv, NEW r \in Requests, BeginEmpty(r)
    PROVE  ObjectsInv'
<1>. DEFINE rec == [Begin("emptying") EXCEPT !.keys = LiveKeys]
<1>1. /\ reqs[r].pc = "idle" /\ reqs' = [reqs EXCEPT ![r] = rec]
      /\ \A n \in Names : locked[n] = Nobody
      /\ locked' = [n \in Names |-> IF rows[n] = None THEN Nobody ELSE r]
      /\ UNCHANGED <<backend, bucket, home, rows, lost, stored, versions, faults>>
    BY IdleIsRequest DEF BeginEmpty, Step, store
<1>2. TypeInv /\ TypeOK /\ rows \in [Names -> Version \union {None}]
    BY DEF ObjectsInv, TypeInv, TypeOK
<1>3. /\ rec \in Request /\ rec.pc = "emptying" /\ rec.keys = LiveKeys
      /\ \A n \in Names, v \in Version : <<n, v>> \in LiveKeys <=> rows[n] = v
    <2>1. LiveKeys \in SUBSET Keys
        BY <1>2 DEF LiveKeys, Keys
    <2>2. \A n \in Names, v \in Version : <<n, v>> \in LiveKeys <=> rows[n] = v
        BY NoneAssumption DEF LiveKeys, Version
    <2>. QED  BY <2>1, <2>2, BeginIsRequest
<1>. HIDE DEF rec
<1>4. TypeInv'
    <2>1. \A n \in Names : locked'[n] # Nobody => rows[n] # None /\ locked'[n] = r
        BY <1>1
    <2>2. versions' \in versions..MaxVersions /\ locked' \in [Names -> Requests \union {Nobody}]
        BY <1>1, <1>2, Numbers DEF TypeOK
    <2>3. UNCHANGED <<backend, bucket, home, rows, lost, stored, faults>> /\ reqs' = [reqs EXCEPT ![r] = rec]
        BY <1>1
    <2>4. /\ bucket' \in BOOLEAN /\ home' \in BOOLEAN /\ rows' \in [Names -> Version \union {None}]
          /\ stored' \subseteq Keys /\ faults' \in 0..MaxFaults /\ backend' = backend
          /\ lost' \subseteq {n \in Names : rows'[n] # None}
        BY <1>2, <2>3 DEF TypeOK
    <2>5. \A n \in Names : locked'[n] # Nobody => rows'[n] # None /\ locked'[n] = r /\ rec.pc = "emptying"
        BY <1>3, <2>1, <2>3
    <2>. QED  BY <1>1, <1>2, <1>3, <2>2, <2>4, <2>5, StepTyped
<1>5. reqs'[r] = rec /\ \A q \in Requests : q # r => reqs'[q] = reqs[q]
    BY <1>1, <1>2, StepReplaces
<1>6. Fresh'
    BY <1>1, <1>3, <1>5 DEF ObjectsInv, Fresh, Uploading
<1>7. Doomed'
    BY <1>1, <1>3, <1>5 DEF ObjectsInv, Doomed, Uploading
<1>8. Emptying'
    <2>. SUFFICES ASSUME NEW q \in Requests, reqs'[q].pc = "emptying", NEW m \in Names, NEW w \in Version,
                         <<m, w>> \in reqs'[q].keys
                  PROVE  locked'[m] = q /\ rows[m] = w
        BY <1>1 DEF Emptying
    <2>1. CASE q = r
        <3>1. rows[m] = w /\ rows[m] # None
            BY <1>3, <1>5, <2>1, NoneAssumption DEF Version
        <3>. QED  BY <1>1, <2>1, <3>1
    <2>2. CASE q # r
        BY <1>1, <1>5, <2>2, NobodyAssumption DEF ObjectsInv, Emptying
    <2>. QED  BY <2>1, <2>2
<1>9. backend' = "s3" => Backed'
    BY <1>1, <1>3, <1>5 DEF ObjectsInv, Backed
<1>10. faults' = 0 => Tidy'
    <2>. SUFFICES ASSUME faults' = 0 PROVE Tidy'
        OBVIOUS
    <2>1. Tidy
        BY <1>1 DEF ObjectsInv
    <2>2. \A m \in Names, w \in Version : Claimed(m, w) => Claimed(m, w)'
        BY <1>1, <1>5 DEF Claimed
    <2>3. \A m \in Names : locked'[m] # Nobody => <<m, rows[m]>> \in reqs'[locked'[m]].keys
        BY <1>1, <1>2, <1>3, <1>5
    <2>. QED  BY <1>1, <2>1, <2>2, <2>3 DEF Tidy
<1>11. RowsHaveABucket'
    BY <1>1 DEF ObjectsInv, RowsHaveABucket
<1>. QED  BY <1>4, <1>6, <1>7, <1>8, <1>9, <1>10, <1>11 DEF ObjectsInv

LEMMA EmptyOneKeeps ==
    ASSUME ObjectsInv, NEW r \in Requests, EmptyOne(r)
    PROVE  ObjectsInv'
<1>1. TypeInv /\ TypeOK /\ reqs[r] \in Request /\ reqs[r].pc = "emptying"
    BY DEF ObjectsInv, TypeInv, TypeOK, EmptyOne
<1>2. PICK k \in reqs[r].keys :
          /\ stored' = stored \ {k}
          /\ reqs' = [reqs EXCEPT ![r] = [reqs[r] EXCEPT !.keys = @ \ {k}]]
    BY DEF EmptyOne, Step
<1>3. PICK n \in Names, v \in Version : k = <<n, v>>
    BY <1>1, <1>2 DEF Request, Keys
<1>4. PICK rec \in Request : rec.pc = "emptying" /\ rec.keys = reqs[r].keys \ {k} /\ reqs' = [reqs EXCEPT ![r] = rec]
    <2>1. [reqs[r] EXCEPT !.keys = @ \ {k}] \in Request
        BY <1>1 DEF Request
    <2>2. /\ [reqs[r] EXCEPT !.keys = @ \ {k}].pc = "emptying"
          /\ [reqs[r] EXCEPT !.keys = @ \ {k}].keys = reqs[r].keys \ {k}
        BY <1>1 DEF Request
    <2>. QED  BY <1>2, <2>1, <2>2
<1>5. UNCHANGED <<backend, bucket, home, rows, locked, lost, versions, faults>>
    BY DEF EmptyOne, database
<1>6. TypeInv'
    <2>1. \A m \in Names : locked[m] # Nobody =>
              /\ rows[m] # None
              /\ \/ locked'[m] = locked[m] /\ locked[m] # r
                 \/ locked'[m] = r /\ rec.pc = "emptying"
        BY <1>1, <1>4, <1>5 DEF TypeOK
    <2>2. versions' \in versions..MaxVersions /\ stored' \subseteq Keys
        BY <1>1, <1>2, <1>5, Numbers DEF TypeOK
    <2>3. /\ bucket' \in BOOLEAN /\ home' \in BOOLEAN /\ rows' \in [Names -> Version \union {None}]
          /\ locked' \in [Names -> Requests \union {Nobody}]
          /\ faults' \in 0..MaxFaults /\ backend' = backend
          /\ lost' \subseteq {m \in Names : rows'[m] # None}
        BY <1>1, <1>5 DEF TypeOK
    <2>4. \A m \in Names : locked'[m] # Nobody =>
              /\ rows'[m] # None
              /\ \/ locked'[m] = locked[m] /\ locked[m] # r
                 \/ locked'[m] = r /\ rec.pc = "emptying"
        BY <1>5, <2>1
    <2>. QED  BY <1>1, <1>4, <2>2, <2>3, <2>4, StepTyped
<1>7. reqs'[r] = rec /\ \A q \in Requests : q # r => reqs'[q] = reqs[q]
    BY <1>1, <1>4, StepReplaces
<1>8. locked[n] = r /\ rows[n] = v
    BY <1>1, <1>2, <1>3 DEF ObjectsInv, Emptying
<1>9. Fresh'
    BY <1>4, <1>5, <1>7 DEF ObjectsInv, Fresh, Uploading
<1>10. Doomed'
    BY <1>4, <1>5, <1>7 DEF ObjectsInv, Doomed, Uploading
<1>11. Emptying'
    BY <1>1, <1>4, <1>5, <1>7 DEF ObjectsInv, Emptying
<1>12. \A m \in Names, q \in Requests : <<m, rows[m]>> # k /\ <<m, rows[m]>> \in reqs[q].keys => <<m, rows[m]>> \in reqs'[q].keys
    BY <1>4, <1>7
<1>13. \A q \in Requests : <<n, v>> \in reqs'[q].keys => q # r /\ <<n, v>> \in reqs[q].keys
    BY <1>3, <1>4, <1>7
<1>14. backend' = "s3" => Backed'
    <2>. SUFFICES ASSUME backend = "s3" PROVE Backed'
        BY <1>5
    <2>1. Backed
        BY DEF ObjectsInv
    <2>2. \A q \in Requests : reqs'[q].pc = "commit" => <<reqs'[q].name, reqs'[q].version>> \in stored'
        <3>. SUFFICES ASSUME NEW q \in Requests, reqs'[q].pc = "commit"
                      PROVE  <<reqs'[q].name, reqs'[q].version>> \in stored'
            OBVIOUS
        <3>1. q # r /\ reqs'[q] = reqs[q] /\ reqs[q].version # v
            BY <1>4, <1>7, <1>8 DEF ObjectsInv, Fresh, Uploading
        <3>. QED  BY <1>2, <1>3, <2>1, <3>1 DEF Backed
    <2>3. \A m \in Names :
              rows[m] # None /\ m \notin lost /\ (locked[m] = Nobody \/ <<m, rows[m]>> \in reqs'[locked[m]].keys)
              => <<m, rows[m]>> \in stored'
        <3>. SUFFICES ASSUME NEW m \in Names, rows[m] # None, m \notin lost,
                             locked[m] = Nobody \/ <<m, rows[m]>> \in reqs'[locked[m]].keys
                      PROVE  <<m, rows[m]>> \in stored'
            OBVIOUS
        <3>1. m # n
            BY <1>3, <1>4, <1>7, <1>8, NobodyAssumption
        <3>2. locked[m] \in Requests \union {Nobody}
            BY <1>1 DEF TypeOK
        <3>3. locked[m] = Nobody \/ <<m, rows[m]>> \in reqs[locked[m]].keys
            BY <1>4, <1>7, <3>2
        <3>. QED  BY <1>2, <1>3, <2>1, <3>1, <3>3 DEF Backed
    <2>. QED  BY <1>5, <2>2, <2>3 DEF Backed
<1>15. faults' = 0 => Tidy'
    <2>. SUFFICES ASSUME faults' = 0 PROVE Tidy'
        OBVIOUS
    <2>1. Tidy
        BY <1>5 DEF ObjectsInv
    <2>2. \A m \in Names, w \in Version : Claimed(m, w) => Claimed(m, w)'
        BY <1>1, <1>5, <1>7 DEF Claimed
    <2>3. \A m \in Names : locked[m] # Nobody /\ <<m, rows[m]>> \in stored' => <<m, rows[m]>> \in reqs'[locked[m]].keys
        <3>. SUFFICES ASSUME NEW m \in Names, locked[m] # Nobody, <<m, rows[m]>> \in stored'
                      PROVE  <<m, rows[m]>> \in reqs'[locked[m]].keys
            OBVIOUS
        <3>1. locked[m] \in Requests /\ <<m, rows[m]>> # k /\ <<m, rows[m]>> \in stored
            BY <1>1, <1>2 DEF TypeOK
        <3>. QED  BY <1>12, <2>1, <3>1 DEF Tidy
    <2>. QED  BY <1>2, <1>5, <2>1, <2>2, <2>3 DEF Tidy
<1>16. RowsHaveABucket'
    BY <1>5 DEF ObjectsInv, RowsHaveABucket
<1>. QED  BY <1>6, <1>9, <1>10, <1>11, <1>14, <1>15, <1>16 DEF ObjectsInv

LEMMA CommitEmptyKeeps ==
    ASSUME ObjectsInv, NEW r \in Requests, CommitEmpty(r)
    PROVE  ObjectsInv'
<1>1. /\ TypeInv /\ TypeOK /\ r # Nobody
      /\ rows \in [Names -> Version \union {None}] /\ locked \in [Names -> Requests \union {Nobody}]
    BY NobodyAssumption DEF ObjectsInv, TypeInv, TypeOK
<1>2. /\ reqs[r].pc = "emptying" /\ reqs[r].keys = {} /\ reqs' = [reqs EXCEPT ![r] = Idle]
      /\ \A n \in Names : rows'[n] = IF locked[n] = r THEN None ELSE rows[n]
      /\ \A n \in Names : locked'[n] = IF locked[n] = r THEN Nobody ELSE locked[n]
      /\ \A n \in Names : n \in lost' <=> n \in lost /\ locked[n] # r
      /\ lost' \subseteq lost
      /\ rows' \in [Names -> Version \union {None}] /\ locked' \in [Names -> Requests \union {Nobody}]
      /\ UNCHANGED <<backend, bucket, home, stored, versions, faults>>
    BY <1>1 DEF CommitEmpty, Finish, Step, Unlock, Held, store
<1>3. TypeInv'
    <2>1. /\ bucket' \in BOOLEAN /\ home' \in BOOLEAN /\ stored' \subseteq Keys
          /\ faults' \in 0..MaxFaults /\ backend' = backend /\ versions' \in versions..MaxVersions
        BY <1>1, <1>2, Numbers DEF TypeOK
    <2>2. lost' \subseteq {n \in Names : rows'[n] # None}
        BY <1>1, <1>2 DEF TypeOK
    <2>3. \A n \in Names : locked'[n] # Nobody => rows'[n] # None /\ locked'[n] = locked[n] /\ locked[n] # r
        BY <1>1, <1>2 DEF TypeOK
    <2>. QED  BY <1>1, <1>2, <2>1, <2>2, <2>3, IdleIsRequest, StepTyped
<1>4. reqs'[r].pc = "idle" /\ \A q \in Requests : q # r => reqs'[q] = reqs[q]
    <2>1. reqs' = [reqs EXCEPT ![r] = Idle] /\ reqs \in [Requests -> Request]
        BY <1>1, <1>2 DEF TypeOK
    <2>. QED  BY <2>1, IdleIsRequest
<1>5. Fresh'
    <2>1. \A q \in Requests : Uploading(q) => reqs[q].version # None
        BY NoneAssumption, Numbers DEF ObjectsInv, TypeInv, TypeOK, Named, Uploading
    <2>2. \A q \in Requests : Uploading(q)' => Uploading(q) /\ reqs'[q].version = reqs[q].version
        BY <1>4 DEF Uploading
    <2>. QED  BY <1>2, <2>1, <2>2 DEF ObjectsInv, Fresh
<1>6. Doomed'
    <2>1. \A q \in Requests : Uploading(q)' => Uploading(q) /\ reqs'[q].version = reqs[q].version
        BY <1>4 DEF Uploading
    <2>2. \A n \in Names, v \in Version : rows[n] # v \/ n \in lost => rows'[n] # v \/ n \in lost'
        BY <1>2, NoneAssumption DEF Version
    <2>. QED  BY <1>2, <1>4, <2>1, <2>2 DEF ObjectsInv, Doomed
<1>7. Emptying'
    BY <1>1, <1>2, <1>4 DEF ObjectsInv, Emptying
<1>8. \A n \in Names : locked'[n] # Nobody => locked'[n] = locked[n] /\ locked[n] # r /\ reqs'[locked[n]] = reqs[locked[n]]
    BY <1>1, <1>2, <1>4
<1>9. backend' = "s3" => Backed'
    <2>. SUFFICES ASSUME backend = "s3" PROVE Backed'
        BY <1>2
    <2>1. Backed
        BY DEF ObjectsInv
    <2>2. \A n \in Names : rows'[n] # None => rows'[n] = rows[n] /\ locked'[n] = locked[n]
        BY <1>2
    <2>. QED  BY <1>2, <1>4, <1>8, <2>1, <2>2 DEF Backed
<1>10. faults' = 0 => Tidy'
    <2>. SUFFICES ASSUME faults' = 0 PROVE Tidy'
        OBVIOUS
    <2>1. Tidy
        BY <1>2 DEF ObjectsInv
    <2>2. \A n \in Names : locked[n] = r => <<n, rows[n]>> \notin stored
        BY <1>1, <1>2, <2>1 DEF Tidy
    <2>3. \A m \in Names, w \in Version : Claimed(m, w) /\ <<m, w>> \in stored => Claimed(m, w)'
        BY <1>2, <1>4, <2>2 DEF Claimed
    <2>. QED  BY <1>2, <1>8, <2>1, <2>3 DEF Tidy
<1>11. RowsHaveABucket'
    BY <1>2 DEF ObjectsInv, RowsHaveABucket
<1>. QED  BY <1>3, <1>5, <1>6, <1>7, <1>9, <1>10, <1>11 DEF ObjectsInv

\* The rows are back whose lock a failed empty, or every empty at a crash, lets go
\* of: those are in doubt of which the bytes may have been deleted.
LEMMA FailEmptyKeeps ==
    ASSUME ObjectsInv, NEW r \in Requests, FailEmpty(r)
    PROVE  ObjectsInv'
<1>1. /\ TypeInv /\ TypeOK /\ r # Nobody
      /\ rows \in [Names -> Version \union {None}] /\ locked \in [Names -> Requests \union {Nobody}]
    BY NobodyAssumption DEF ObjectsInv, TypeInv, TypeOK
<1>2. /\ reqs[r].pc = "emptying" /\ reqs' = [reqs EXCEPT ![r] = Idle]
      /\ \A n \in Names : locked'[n] = IF locked[n] = r THEN Nobody ELSE locked[n]
      /\ lost \subseteq lost' /\ lost' \subseteq lost \union {n \in Names : locked[n] = r}
      /\ \A n \in Names : locked[n] = r /\ n \notin lost' => <<n, rows[n]>> \in reqs[r].keys
      /\ locked' \in [Names -> Requests \union {Nobody}]
      /\ UNCHANGED <<backend, bucket, home, rows, stored, versions>>
      /\ faults' \in 0..MaxFaults /\ faults' > 0
    <2>1. faults' \in 0..MaxFaults /\ faults' > 0
        BY <1>1, Numbers DEF FailEmpty, Fault, TypeOK
    <2>. QED  BY <1>1, <2>1 DEF FailEmpty, Finish, Step, Unlock, Held, store
<1>3. TypeInv'
    <2>1. /\ bucket' \in BOOLEAN /\ home' \in BOOLEAN /\ stored' \subseteq Keys
          /\ backend' = backend /\ versions' \in versions..MaxVersions
          /\ rows' \in [Names -> Version \union {None}]
        BY <1>1, <1>2, Numbers DEF TypeOK
    <2>2. lost' \subseteq {n \in Names : rows'[n] # None}
        BY <1>1, <1>2 DEF TypeOK
    <2>3. \A n \in Names : locked'[n] # Nobody => rows'[n] # None /\ locked'[n] = locked[n] /\ locked[n] # r
        BY <1>1, <1>2 DEF TypeOK
    <2>. QED  BY <1>1, <1>2, <2>1, <2>2, <2>3, IdleIsRequest, StepTyped
<1>4. reqs'[r].pc = "idle" /\ \A q \in Requests : q # r => reqs'[q] = reqs[q]
    <2>1. reqs' = [reqs EXCEPT ![r] = Idle] /\ reqs \in [Requests -> Request]
        BY <1>1, <1>2 DEF TypeOK
    <2>. QED  BY <2>1, IdleIsRequest
<1>5. Fresh'
    BY <1>2, <1>4 DEF ObjectsInv, Fresh, Uploading
<1>6. Doomed'
    <2>1. \A q \in Requests : Uploading(q)' => Uploading(q) /\ reqs'[q].version = reqs[q].version
        BY <1>4 DEF Uploading
    <2>. QED  BY <1>2, <1>4, <2>1 DEF ObjectsInv, Doomed
<1>7. Emptying'
    BY <1>1, <1>2, <1>4 DEF ObjectsInv, Emptying
<1>8. \A n \in Names : locked'[n] # Nobody => locked'[n] = locked[n] /\ locked[n] # r /\ reqs'[locked[n]] = reqs[locked[n]]
    BY <1>1, <1>2, <1>4
<1>9. backend' = "s3" => Backed'
    <2>. SUFFICES ASSUME backend = "s3" PROVE Backed'
        BY <1>2
    <2>1. Backed
        BY DEF ObjectsInv
    <2>. SUFFICES ASSUME NEW n \in Names, rows[n] # None, n \notin lost',
                         locked'[n] = Nobody \/ <<n, rows[n]>> \in reqs'[locked'[n]].keys
                  PROVE  <<n, rows[n]>> \in stored
        BY <1>2, <1>4, <2>1 DEF Backed
    <2>2. CASE locked[n] = r
        BY <1>2, <2>1, <2>2 DEF Backed
    <2>3. CASE locked[n] # r
        BY <1>2, <1>8, <2>1, <2>3 DEF Backed
    <2>. QED  BY <2>2, <2>3
<1>10. RowsHaveABucket'
    BY <1>2 DEF ObjectsInv, RowsHaveABucket
<1>. QED  BY <1>2, <1>3, <1>5, <1>6, <1>7, <1>9, <1>10 DEF ObjectsInv

LEMMA CrashKeeps == ObjectsInv /\ Crash => ObjectsInv'
<1>. SUFFICES ASSUME ObjectsInv, Crash PROVE ObjectsInv'
    OBVIOUS
<1>1. /\ TypeInv /\ TypeOK
      /\ rows \in [Names -> Version \union {None}] /\ locked \in [Names -> Requests \union {Nobody}]
    BY DEF ObjectsInv, TypeInv, TypeOK
<1>2. /\ reqs' = [r \in Requests |-> Idle]
      /\ locked' = [n \in Names |-> Nobody]
      /\ lost \subseteq lost' /\ lost' \subseteq lost \union {n \in Names : locked[n] # Nobody}
      /\ \A n \in Names : locked[n] # Nobody /\ n \notin lost' => <<n, rows[n]>> \in reqs[locked[n]].keys
      /\ UNCHANGED <<backend, bucket, home, rows, stored, versions>>
      /\ faults' \in 0..MaxFaults /\ faults' > 0
    <2>1. faults' \in 0..MaxFaults /\ faults' > 0
        BY <1>1, Numbers DEF Crash, Fault, TypeOK
    <2>. QED  BY <1>1, <2>1 DEF Crash, store
<1>3. \A r \in Requests : reqs'[r].pc = "idle"
    BY <1>2, IdleIsRequest
<1>4. TypeInv'
    <2>1. reqs' \in [Requests -> Request] /\ locked' \in [Names -> Requests \union {Nobody}]
        BY <1>2, IdleIsRequest
    <2>2. lost' \subseteq {n \in Names : rows'[n] # None}
        BY <1>1, <1>2 DEF TypeOK
    <2>3. Named'
        BY <1>3 DEF Named
    <2>. QED  BY <1>1, <1>2, <2>1, <2>2, <2>3 DEF TypeInv, TypeOK
<1>5. Fresh' /\ Doomed' /\ Emptying'
    BY <1>2, <1>3 DEF ObjectsInv, Fresh, Doomed, Emptying, Uploading
<1>6. backend' = "s3" => Backed'
    BY <1>1, <1>2, <1>3 DEF ObjectsInv, Backed
<1>7. RowsHaveABucket'
    BY <1>2 DEF ObjectsInv, RowsHaveABucket
<1>. QED  BY <1>2, <1>4, <1>5, <1>6, <1>7 DEF ObjectsInv

----------------------------------------------------------------------------
(* The steps that leave the rows alone *)

QuietDone(r, rec) ==
    /\ reqs[r].pc \notin Busy /\ rec.pc \notin Busy /\ reqs' = [reqs EXCEPT ![r] = rec]
    /\ rec.pc \in {"get", "bytes", "missing"} => rec.name \in Names /\ rec.version \in Version
    /\ UNCHANGED <<backend, rows, locked, lost, versions>>
    /\ bucket' \in BOOLEAN /\ RowsHaveABucket'
    /\ home' \in BOOLEAN /\ stored' \subseteq stored /\ (backend = "s3" => stored' = stored)
    /\ faults' \in {faults, faults + 1} /\ faults' <= MaxFaults

LEMMA QuietDoneKeeps ==
    ASSUME ObjectsInv, NEW r \in Requests, NEW rec \in Request, QuietDone(r, rec)
    PROVE  ObjectsInv'
<1>1. TypeInv /\ TypeOK
    BY DEF ObjectsInv, TypeInv
<1>2. /\ reqs[r].pc \notin Busy /\ rec.pc \notin Busy /\ reqs' = [reqs EXCEPT ![r] = rec]
      /\ UNCHANGED <<backend, rows, locked, lost, versions>>
      /\ stored' \subseteq stored /\ (backend = "s3" => stored' = stored)
      /\ faults' \in 0..MaxFaults /\ (faults' = 0 => faults = 0)
    BY <1>1, Numbers DEF QuietDone, TypeOK
<1>3. TypeInv'
    <2>1. /\ bucket' \in BOOLEAN /\ home' \in BOOLEAN /\ stored' \subseteq Keys
          /\ backend' = backend /\ versions' \in versions..MaxVersions
          /\ rows' \in [Names -> Version \union {None}]
          /\ locked' \in [Names -> Requests \union {Nobody}]
          /\ lost' \subseteq {n \in Names : rows'[n] # None}
        BY <1>1, <1>2, Numbers DEF TypeOK, QuietDone
    <2>2. \A n \in Names : locked'[n] # Nobody => rows'[n] # None /\ locked'[n] = locked[n] /\ locked[n] # r
        BY <1>1, <1>2 DEF TypeOK, Busy
    <2>3. /\ rec.pc \in {"put", "commit"} => rec.name \in Names /\ rec.version \in 1..versions'
          /\ rec.pc \in {"get", "bytes", "missing"} => rec.name \in Names /\ rec.version \in Version
        BY DEF QuietDone, Busy
    <2>. QED  BY <1>1, <1>2, <2>1, <2>2, <2>3, StepTyped
<1>4. RowsHaveABucket'
    BY DEF QuietDone
<1>. QED  BY <1>2, <1>3, <1>4, QuietKeeps

LEMMA TouchIsQuiet ==
    ASSUME ObjectsInv, NEW r \in Requests, NEW n \in Names, Touch(r, n)
    PROVE  \E rec \in Request : QuietDone(r, rec)
<1>. DEFINE rec == [Begin("get") EXCEPT !.name = n, !.version = rows[n]]
<1>1. rows[n] \in Version
    BY DEF Touch, ObjectsInv, TypeInv, TypeOK
<1>2. rec \in Request /\ rec.pc = "get" /\ rec.name = n /\ rec.version = rows[n]
    BY <1>1 DEF Begin, Idle, Request
<1>3. /\ reqs[r].pc = "idle" /\ reqs' = [reqs EXCEPT ![r] = rec]
      /\ UNCHANGED <<backend, bucket, rows, locked, lost, versions, home, stored, faults>>
    BY IdleIsRequest DEF Touch, Step, database, store
<1>. HIDE DEF rec
<1>4. RowsHaveABucket' /\ bucket \in BOOLEAN /\ home \in BOOLEAN /\ faults <= MaxFaults
    BY <1>3, Numbers DEF ObjectsInv, RowsHaveABucket, TypeInv, TypeOK
<1>. QED  BY <1>1, <1>2, <1>3, <1>4 DEF QuietDone, Busy

LEMMA GetIsQuiet ==
    ASSUME ObjectsInv, NEW r \in Requests, GetObject(r)
    PROVE  \E rec \in Request : QuietDone(r, rec)
<1>1. /\ reqs[r].pc = "get" /\ reqs[r] \in Request
      /\ UNCHANGED <<backend, bucket, rows, locked, lost, versions, home, stored>>
      /\ faults' \in {faults, faults + 1} /\ faults' <= MaxFaults
    BY Numbers DEF GetObject, database, store, ObjectsInv, TypeInv, TypeOK, Fault, NoFault
<1>2. RowsHaveABucket' /\ bucket \in BOOLEAN /\ home \in BOOLEAN
    BY <1>1 DEF ObjectsInv, RowsHaveABucket, TypeInv, TypeOK
<1>3. ASSUME NEW pc \in {"bytes", "missing"}, reqs' = [reqs EXCEPT ![r] = [reqs[r] EXCEPT !.pc = pc]]
      PROVE  \E rec \in Request : QuietDone(r, rec)
    <2>1. /\ [reqs[r] EXCEPT !.pc = pc] \in Request
          /\ [reqs[r] EXCEPT !.pc = pc].pc = pc
          /\ [reqs[r] EXCEPT !.pc = pc].name = reqs[r].name
          /\ [reqs[r] EXCEPT !.pc = pc].version = reqs[r].version
        BY <1>1 DEF Request
    <2>2. reqs[r].name \in Names /\ reqs[r].version \in Version
        BY <1>1 DEF ObjectsInv, TypeInv, Named
    <2>3. PICK rec \in Request : /\ rec.pc = pc /\ rec.name = reqs[r].name /\ rec.version = reqs[r].version
                                 /\ reqs' = [reqs EXCEPT ![r] = rec]
        BY <1>3, <2>1
    <2>. QED  BY <1>1, <1>2, <2>2, <2>3 DEF QuietDone, Busy
<1>4. CASE reqs' = [reqs EXCEPT ![r] = Idle]
    BY <1>1, <1>2, <1>4, IdleIsRequest DEF QuietDone, Busy
<1>. QED  BY <1>3, <1>4 DEF GetObject, Step, Finish

LEMMA FinishIsQuiet ==
    ASSUME ObjectsInv, NEW r \in Requests, Answered(r) \/ InsertBucket(r) \/ DeleteBucketRow(r)
    PROVE  QuietDone(r, Idle)
<1>1. /\ reqs[r].pc \in {"bytes", "missing", "create", "dropRow"} /\ reqs' = [reqs EXCEPT ![r] = Idle]
      /\ UNCHANGED <<backend, rows, locked, lost, versions, home, stored>>
    BY DEF Answered, InsertBucket, DeleteBucketRow, Finish, Step, database, store
<1>2. home \in BOOLEAN /\ faults' \in {faults, faults + 1} /\ faults' <= MaxFaults
    BY Numbers DEF Answered, InsertBucket, DeleteBucketRow, ObjectsInv, TypeInv, TypeOK, Fault, NoFault
<1>3. bucket' \in BOOLEAN /\ RowsHaveABucket'
    <2>1. bucket \in BOOLEAN /\ RowsHaveABucket /\ rows' = rows
        BY <1>1 DEF ObjectsInv, TypeInv, TypeOK
    <2>2. CASE bucket' = bucket \/ bucket' = TRUE
        BY <2>1, <2>2 DEF RowsHaveABucket
    <2>3. CASE bucket' = (bucket /\ LiveKeys # {})
        BY <2>1, <2>3 DEF RowsHaveABucket, LiveKeys
    <2>. QED  BY <2>2, <2>3 DEF Answered, InsertBucket, DeleteBucketRow, database
<1>. QED  BY <1>1, <1>2, <1>3, IdleIsRequest DEF QuietDone, Busy

LEMMA BucketIsQuiet ==
    ASSUME ObjectsInv, NEW r \in Requests, CreateBucket(r) \/ BeginRemoveBucket(r) \/ DeleteStoreBucket(r)
    PROVE  \E rec \in Request : QuietDone(r, rec)
<1>1. reqs[r] \in Request /\ home \in BOOLEAN
    BY DEF ObjectsInv, TypeInv, TypeOK
<1>2. \E rec \in Request : /\ reqs' = [reqs EXCEPT ![r] = rec] /\ rec.pc \in {"create", "dropStore", "dropRow"}
                           /\ reqs[r].pc \in {"idle", "dropStore"}
    <2>1. CASE CreateBucket(r) \/ BeginRemoveBucket(r)
        <3>1. \A pc \in {"create", "dropStore"} : Begin(pc) \in Request /\ Begin(pc).pc = pc
            BY DEF Begin, Idle, Request
        <3>. QED  BY <2>1, <3>1, IdleIsRequest DEF CreateBucket, BeginRemoveBucket, Step
    <2>2. CASE DeleteStoreBucket(r)
        <3>1. [reqs[r] EXCEPT !.pc = "dropRow"] \in Request /\ [reqs[r] EXCEPT !.pc = "dropRow"].pc = "dropRow"
            BY <1>1 DEF Request
        <3>. QED  BY <2>2, <3>1 DEF DeleteStoreBucket, Step
    <2>. QED  BY <2>1, <2>2
<1>3. /\ UNCHANGED <<backend, bucket, rows, locked, lost, versions, faults>>
      /\ home' \in BOOLEAN /\ stored' \subseteq stored /\ (backend = "s3" => stored' = stored)
    BY <1>1 DEF CreateBucket, BeginRemoveBucket, DeleteStoreBucket, database, store
<1>4. RowsHaveABucket' /\ bucket \in BOOLEAN /\ faults <= MaxFaults
    BY <1>3, Numbers DEF ObjectsInv, RowsHaveABucket, TypeInv, TypeOK
<1>. QED  BY <1>2, <1>3, <1>4 DEF QuietDone, Busy

----------------------------------------------------------------------------
(* The theorems *)

LEMMA InitObjects == Init => ObjectsInv
<1>. SUFFICES ASSUME Init PROVE ObjectsInv
    OBVIOUS
<1>1. /\ \A r \in Requests : reqs[r].pc = "idle"
      /\ \A n \in Names : rows[n] = None /\ locked[n] = Nobody
      /\ lost = {} /\ stored = {} /\ bucket
    BY IdleIsRequest DEF Init
<1>2. RowsHaveABucket
    BY <1>1 DEF RowsHaveABucket
<1>3. Fresh /\ Doomed /\ Emptying /\ Backed
    BY <1>1 DEF Fresh, Doomed, Emptying, Backed, Uploading
<1>4. Tidy
    BY <1>1 DEF Tidy
<1>. QED  BY <1>2, <1>3, <1>4, InitTyped DEF ObjectsInv

LEMMA KeepsObjects == ObjectsInv /\ [Next]_vars => ObjectsInv'
<1>. SUFFICES ASSUME ObjectsInv, [Next]_vars PROVE ObjectsInv'
    OBVIOUS
<1>1. CASE UNCHANGED vars
    BY <1>1 DEF vars, ObjectsInv, TypeInv, TypeOK, Named, RowsHaveABucket, Fresh, Doomed, Emptying, Backed,
                Tidy, Claimed, Uploading
<1>2. CASE Crash
    BY <1>2, CrashKeeps
<1>3. ASSUME NEW r \in Requests, Upload(r) PROVE ObjectsInv'
    <2>1. ASSUME NEW n \in Names, NEW upsert \in BOOLEAN, BeginUpload(r, n, upsert) PROVE ObjectsInv'
        BY <2>1, BeginUploadKeeps
    <2>2. CASE PutObject(r)
        BY <2>2, PutEffect, PutKeeps DEF ObjectsInv
    <2>3. CASE CommitUpload(r)
        BY <2>3, CommitEffect, CommitKeeps DEF ObjectsInv
    <2>4. CASE DiscardBytes(r)
        BY <2>4, DiscardKeeps
    <2>. QED  BY <1>3, <2>1, <2>2, <2>3, <2>4 DEF Upload
<1>4. ASSUME NEW r \in Requests, Removal(r) PROVE ObjectsInv'
    <2>1. ASSUME NEW ns \in SUBSET Names, RemoveObjects(r, ns) PROVE ObjectsInv'
        BY <2>1, RemoveEffect, RemoveKeeps DEF ObjectsInv
    <2>. QED  BY <1>4, <2>1, BeginEmptyKeeps, EmptyOneKeeps, CommitEmptyKeeps, FailEmptyKeeps DEF Removal
<1>5. ASSUME NEW r \in Requests, Read(r) PROVE ObjectsInv'
    <2>1. ASSUME NEW n \in Names, Touch(r, n) PROVE ObjectsInv'
        BY <2>1, TouchIsQuiet, QuietDoneKeeps
    <2>. QED  BY <1>5, <2>1, GetIsQuiet, FinishIsQuiet, IdleIsRequest, QuietDoneKeeps DEF Read
<1>6. ASSUME NEW r \in Requests, Buckets(r) PROVE ObjectsInv'
    BY <1>6, BucketIsQuiet, FinishIsQuiet, IdleIsRequest, QuietDoneKeeps DEF Buckets
<1>. QED  BY <1>1, <1>2, <1>3, <1>4, <1>5, <1>6 DEF Next

LEMMA ObjectsInvariant == Spec => []ObjectsInv
BY InitObjects, KeepsObjects, PTL DEF Spec

\* Every variable keeps its shape, and only rows there are locked or in doubt, on
\* either object store.
THEOREM TypeCorrect == Spec => []TypeOK
<1>1. ObjectsInv => TypeOK
    BY DEF ObjectsInv, TypeInv
<1>. QED  BY <1>1, ObjectsInvariant, PTL

\* The foreign key does its work: no row of storage.objects outlives its bucket's,
\* on either object store.
THEOREM NoRowsWithoutBucket == Spec => []RowsHaveABucket
<1>1. ObjectsInv => RowsHaveABucket
    BY DEF ObjectsInv
<1>. QED  BY <1>1, ObjectsInvariant, PTL

\* On s3, whatever uploads, removals, empties and failures overlap, the version a
\* row names has its bytes, but while it is being emptied or in doubt.
THEOREM BytesAreThere == Spec => [](backend = "s3" => RowsHaveTheirBytes)
<1>1. ObjectsInv => (backend = "s3" => RowsHaveTheirBytes)
    BY DEF ObjectsInv, Backed, RowsHaveTheirBytes
<1>. QED  BY <1>1, ObjectsInvariant, PTL

\* On s3, if no call has failed by the time no request is in progress, what is
\* stored is what the rows name: every refused, replaced and removed version is gone.
THEOREM NothingIsLeftBehind == Spec => [](backend = "s3" => NothingLeftBehind)
<1>1. ASSUME ObjectsInv, backend = "s3" PROVE NothingLeftBehind
    <2>. SUFFICES ASSUME faults = 0, \A r \in Requests : reqs[r] = Idle PROVE stored = LiveKeys
        BY DEF NothingLeftBehind
    <2>1. Tidy /\ Backed /\ TypeOK
        BY <1>1 DEF ObjectsInv, TypeInv
    <2>2. (\A r \in Requests : reqs[r].pc = "idle") /\ \A n \in Names : locked[n] = Nobody
        BY <2>1, IdleIsRequest DEF TypeOK
    <2>3. \A n \in Names, v \in Version : <<n, v>> \in stored => rows[n] = v
        BY <2>1, <2>2 DEF Tidy, Claimed
    <2>4. stored \subseteq LiveKeys
        BY <2>1, <2>3, NoneAssumption DEF TypeOK, Keys, LiveKeys, Version
    <2>5. LiveKeys \subseteq stored
        BY <2>1, <2>2 DEF LiveKeys, Backed, Tidy
    <2>. QED  BY <2>4, <2>5
<1>. QED  BY <1>1, ObjectsInvariant, PTL

----------------------------------------------------------------------------
(* The refinement of ObjectMap, on s3 *)

S3Inv == ObjectsInv /\ backend = "s3"

Reads == {"get", "bytes", "missing"}
Doubtful == lost \union {n \in Names : locked[n] # Nobody}
Reading == [r \in Requests |-> ReadOf(r)]

\* A reader's record and the lack of one are told apart by their fields.
LEMMA ReaderIsNotIdle == \A n, v, t : [name |-> n, seen |-> v, told |-> t] # Idle
<1>. SUFFICES ASSUME NEW n, NEW v, NEW t, [name |-> n, seen |-> v, told |-> t] = Idle PROVE FALSE
    OBVIOUS
<1>1. DOMAIN [name |-> n, seen |-> v, told |-> t] = {"name", "seen", "told"}
    OBVIOUS
<1>2. "pc" \in DOMAIN Idle
    BY DEF Idle
<1>. QED  BY <1>1, <1>2

LEMMA ReadingKept ==
    ASSUME \A q \in Requests : \/ reqs'[q] = reqs[q]
                               \/ reqs'[q].pc \notin Reads /\ reqs[q].pc \notin Reads
    PROVE  Reading' = Reading
<1>1. \A q \in Requests : ReadOf(q)' = ReadOf(q)
    BY DEF ReadOf, Reads
<1>. QED  BY <1>1 DEF Reading

LEMMA NotAReader ==
    ASSUME TypeInv, NEW r \in Requests, NEW rec, reqs' = [reqs EXCEPT ![r] = rec],
           reqs[r].pc \notin Reads, rec.pc \notin Reads
    PROVE  Reading' = Reading
BY StepReplaces, ReadingKept

\* The steps that change nothing a reader could tell.
LEMMA Stutters ==
    ASSUME rows' = rows, lost' = lost, locked' = locked, Reading' = Reading
    PROVE  UNCHANGED Map!vars
BY DEF Map!vars, Reading

LEMMA MapsAll ==
    ASSUME NEW ns \in SUBSET Names, Map!Remove(ns) \/ Map!BeginEmpty(ns) \/ Map!EndDoubt(ns) \/ Map!LeaveAll(ns)
    PROVE  [Map!Next]_(Map!vars)
BY DEF Map!Next

LEMMA CommitMaps ==
    ASSUME ObjectsInv, NEW r \in Requests, CommitUpload(r), NEW n, n = reqs[r].name, NEW v, v = reqs[r].version
    PROVE  [Map!Next]_(Map!vars)
<1>1. PICK rec \in Request : CommitDone(r, n, v, rec)
    BY CommitEffect DEF ObjectsInv
<1>2. /\ reqs[r].pc = "commit" /\ Uploading(r) /\ reqs' = [reqs EXCEPT ![r] = rec]
      /\ n \in Names /\ v \in Version /\ locked[n] = Nobody /\ locked' = locked
    BY <1>1, Numbers DEF ObjectsInv, TypeInv, TypeOK, CommitDone, Version, Uploading
<1>3. rec.pc \notin Reads
    <2>1. rows[n] \in Version \union {None}
        BY <1>2 DEF ObjectsInv, TypeInv, TypeOK
    <2>2. {<<n, v>>} \in SUBSET Keys /\ (rows[n] # None => {<<n, rows[n]>>} \in SUBSET Keys)
        BY <1>2, <2>1 DEF Keys
    <2>3. rec.pc \in {"idle", "discard"}
        BY <1>1, <2>2, DiscardingIsRequest, IdleIsRequest DEF CommitDone
    <2>. QED  BY <2>3 DEF Reads
<1>4. Reading' = Reading
    BY <1>2, <1>3, NotAReader DEF ObjectsInv, Reads
<1>5. v \in Map!Unheld
    BY <1>1, <1>2 DEF Map!Unheld, ObjectsInv, Fresh
<1>6. CASE rows' = [rows EXCEPT ![n] = v] /\ lost' = lost \ {n}
    <2>1. Doubtful' = Doubtful \ {n}
        BY <1>2, <1>6 DEF Doubtful
    <2>2. Map!Write(n, v)
        BY <1>4, <1>5, <1>6, <2>1 DEF Map!Write, Reading, Doubtful
    <2>. QED  BY <1>2, <2>2 DEF Map!Next
<1>7. CASE rows' = [rows EXCEPT ![n] = v] /\ lost' = lost \union {n}
    <2>1. Doubtful' = Doubtful \union {n}
        BY <1>2, <1>7 DEF Doubtful
    <2>2. Map!WriteUnsure(n, v)
        BY <1>4, <1>5, <1>7, <2>1 DEF Map!WriteUnsure, Reading, Doubtful
    <2>. QED  BY <1>2, <2>2 DEF Map!Next
<1>8. CASE rows' = rows /\ lost' = lost
    BY <1>2, <1>4, <1>8, Stutters
<1>. QED  BY <1>1, <1>6, <1>7, <1>8 DEF CommitDone

LEMMA RemoveMaps ==
    ASSUME ObjectsInv, NEW r \in Requests, NEW ns \in SUBSET Names, RemoveObjects(r, ns)
    PROVE  [Map!Next]_(Map!vars)
<1>1. PICK rec \in Request : RemoveDone(r, ns, rec)
    BY RemoveEffect DEF ObjectsInv
<1>2. /\ reqs[r].pc = "idle" /\ reqs' = [reqs EXCEPT ![r] = rec]
      /\ \A n \in ns : locked[n] = Nobody
      /\ rows' = [n \in Names |-> IF n \in ns THEN None ELSE rows[n]]
      /\ lost' = lost \ ns /\ locked' = locked
    BY <1>1, IdleIsRequest DEF RemoveDone
<1>3. rec.pc \notin Reads
    <2>1. {k \in LiveKeys : k[1] \in ns} \subseteq Keys
        BY DEF LiveKeys, Keys, ObjectsInv, TypeInv, TypeOK
    <2>2. rec.pc \in {"idle", "discard"}
        BY <1>1, <2>1, DiscardingIsRequest, IdleIsRequest DEF RemoveDone
    <2>. QED  BY <2>2 DEF Reads
<1>4. Reading' = Reading
    BY <1>2, <1>3, NotAReader DEF ObjectsInv, Reads
<1>5. Doubtful' = Doubtful \ ns
    BY <1>2 DEF Doubtful
<1>6. Map!Remove(ns)
    BY <1>2, <1>4, <1>5 DEF Map!Remove, Reading, Doubtful
<1>. QED  BY <1>6, MapsAll

LEMMA BeginEmptyMaps ==
    ASSUME ObjectsInv, NEW r \in Requests, BeginEmpty(r)
    PROVE  [Map!Next]_(Map!vars)
<1>. PICK ns \in SUBSET Names : ns = {n \in Names : rows[n] # None}
    OBVIOUS
<1>1. /\ reqs[r].pc = "idle" /\ reqs' = [reqs EXCEPT ![r] = [Begin("emptying") EXCEPT !.keys = LiveKeys]]
      /\ \A n \in Names : locked[n] = Nobody
      /\ locked' = [n \in Names |-> IF rows[n] = None THEN Nobody ELSE r]
      /\ rows' = rows /\ lost' = lost /\ r # Nobody
    BY IdleIsRequest, NobodyAssumption DEF BeginEmpty, Step
<1>2. [Begin("emptying") EXCEPT !.keys = LiveKeys].pc \notin Reads
    BY DEF Begin, Idle, Reads
<1>3. Reading' = Reading
    BY <1>1, <1>2, NotAReader DEF ObjectsInv, Reads
<1>4. Doubtful' = Doubtful \union ns
    BY <1>1 DEF Doubtful
<1>5. Map!BeginEmpty(ns)
    BY <1>1, <1>3, <1>4 DEF Map!BeginEmpty, Reading, Doubtful
<1>. QED  BY <1>5, MapsAll

LEMMA CommitEmptyMaps ==
    ASSUME ObjectsInv, NEW r \in Requests, CommitEmpty(r)
    PROVE  [Map!Next]_(Map!vars)
<1>. PICK ns \in SUBSET Names : ns = Held(r)
    BY DEF Held
<1>1. /\ reqs[r].pc = "emptying" /\ reqs' = [reqs EXCEPT ![r] = Idle] /\ r # Nobody
      /\ rows' = [n \in Names |-> IF n \in ns THEN None ELSE rows[n]]
      /\ locked' = [n \in Names |-> IF n \in ns THEN Nobody ELSE locked[n]]
      /\ lost' = lost \ ns
    BY NobodyAssumption DEF CommitEmpty, Finish, Step, Unlock
<1>2. Reading' = Reading
    BY <1>1, NotAReader, IdleIsRequest DEF ObjectsInv, Reads
<1>3. Doubtful' = Doubtful \ ns
    BY <1>1 DEF Doubtful, Held
<1>4. Map!Remove(ns)
    BY <1>1, <1>2, <1>3 DEF Map!Remove, Reading, Doubtful
<1>. QED  BY <1>4, MapsAll

LEMMA FailEmptyMaps ==
    ASSUME ObjectsInv, NEW r \in Requests, FailEmpty(r)
    PROVE  [Map!Next]_(Map!vars)
<1>. PICK ns \in SUBSET Names : ns = Held(r) \ lost'
    BY DEF Held
<1>1. /\ reqs[r].pc = "emptying" /\ reqs' = [reqs EXCEPT ![r] = Idle] /\ r # Nobody
      /\ locked' = [n \in Names |-> IF n \in Held(r) THEN Nobody ELSE locked[n]]
      /\ lost \subseteq lost' /\ lost' \subseteq lost \union Held(r) /\ rows' = rows
    BY NobodyAssumption DEF FailEmpty, Finish, Step, Unlock, Held
<1>2. Reading' = Reading
    BY <1>1, NotAReader, IdleIsRequest DEF ObjectsInv, Reads
<1>3. Doubtful' = Doubtful \ ns
    BY <1>1 DEF Doubtful, Held
<1>4. Map!EndDoubt(ns)
    BY <1>1, <1>2, <1>3 DEF Map!EndDoubt, Reading, Doubtful
<1>. QED  BY <1>4, MapsAll

LEMMA CrashMaps == Crash => [Map!Next]_(Map!vars)
<1>. SUFFICES ASSUME Crash PROVE [Map!Next]_(Map!vars)
    OBVIOUS
<1>. PICK ns \in SUBSET Names : ns = {n \in Names : locked[n] # Nobody} \ lost'
    OBVIOUS
<1>1. /\ reqs' = [r \in Requests |-> Idle] /\ locked' = [n \in Names |-> Nobody] /\ rows' = rows
      /\ lost \subseteq lost' /\ lost' \subseteq lost \union {n \in Names : locked[n] # Nobody}
    BY DEF Crash
<1>2. Reading' = [r \in Requests |-> Idle]
    <2>1. \A r \in Requests : ReadOf(r)' = Idle
        BY <1>1, IdleIsRequest DEF ReadOf
    <2>. QED  BY <2>1 DEF Reading
<1>3. Doubtful' = Doubtful \ ns
    BY <1>1 DEF Doubtful
<1>4. Map!LeaveAll(ns)
    BY <1>1, <1>2, <1>3 DEF Map!LeaveAll, Reading, Doubtful
<1>. QED  BY <1>4, MapsAll

\* A request answered, or whose call failed, is a reader gone; a fetch that finds
\* no bytes found them replaced, removed or in doubt.
LEMMA ReadMaps ==
    ASSUME S3Inv, NEW r \in Requests, Read(r)
    PROVE  [Map!Next]_(Map!vars)
<1>1. TypeInv /\ Reading[r] = ReadOf(r) /\ reqs[r] \in Request
    BY DEF S3Inv, ObjectsInv, TypeInv, TypeOK, Reading
<1>2. UNCHANGED <<rows, lost, locked>>
    BY DEF Read, GetObject, Answered, Touch, database
<1>3. ASSUME NEW rec, reqs' = [reqs EXCEPT ![r] = rec], NEW read,
             read = IF rec.pc \in Reads
                    THEN [name |-> rec.name, seen |-> rec.version,
                          told |-> IF rec.pc = "get" THEN "nothing" ELSE rec.pc]
                    ELSE Idle
      PROVE  Reading' = [Reading EXCEPT ![r] = read]
    <2>1. reqs'[r] = rec /\ \A q \in Requests : q # r => reqs'[q] = reqs[q]
        BY <1>1, <1>3, StepReplaces
    <2>2. ReadOf(r)' = read /\ \A q \in Requests : q # r => ReadOf(q)' = ReadOf(q)
        BY <1>3, <2>1 DEF ReadOf, Reads
    <2>. QED  BY <2>2 DEF Reading
<1>4. CASE Finish(r)
    <2>1. Reading' = [Reading EXCEPT ![r] = Idle]
        BY <1>3, <1>4, IdleIsRequest DEF Finish, Step, Reads
    <2>2. Map!Leave(r)
        BY <1>2, <2>1 DEF Map!Leave, Reading
    <2>. QED  BY <2>2 DEF Map!Next
<1>5. ASSUME NEW n \in Names, Touch(r, n) PROVE [Map!Next]_(Map!vars)
    <2>0. PICK rec, read : /\ rec = [Begin("get") EXCEPT !.name = n, !.version = rows[n]]
                           /\ read = [name |-> n, seen |-> rows[n], told |-> "nothing"]
        OBVIOUS
    <2>1. rec.pc = "get" /\ rec.name = n /\ rec.version = rows[n]
        BY <2>0 DEF Begin, Idle
    <2>2. /\ reqs[r].pc = "idle" /\ reqs' = [reqs EXCEPT ![r] = rec] /\ rows[n] # None
        BY <1>5, <2>0, IdleIsRequest DEF Touch, Step
    <2>3. Reading' = [Reading EXCEPT ![r] = read]
        <3>1. reqs' = [reqs EXCEPT ![r] = rec]
            BY <2>2
        <3>2. read = IF rec.pc \in Reads
                     THEN [name |-> rec.name, seen |-> rec.version,
                           told |-> IF rec.pc = "get" THEN "nothing" ELSE rec.pc]
                     ELSE Idle
            BY <2>0, <2>1 DEF Reads
        <3>. QED  BY <1>3, <3>1, <3>2
    <2>4. Reading[r] = Idle
        BY <1>1, <2>2 DEF ReadOf
    <2>5. Map!Look(r, n)
        BY <1>2, <2>0, <2>2, <2>3, <2>4 DEF Map!Look, Reading
    <2>. QED  BY <2>5 DEF Map!Next
<1>6. ASSUME reqs[r].pc = "get", NEW pc \in {"bytes", "missing"}, Step(r, [reqs[r] EXCEPT !.pc = pc]),
             pc = IF <<reqs[r].name, reqs[r].version>> \in stored THEN "bytes" ELSE "missing"
      PROVE  [Map!Next]_(Map!vars)
    <2>. PICK n, v, rec : n = reqs[r].name /\ v = reqs[r].version /\ rec = [reqs[r] EXCEPT !.pc = pc]
        OBVIOUS
    <2>1. rec.pc = pc /\ rec.name = n /\ rec.version = v
        BY <1>1 DEF Request
    <2>2. /\ Reading[r] = [name |-> n, seen |-> v, told |-> "nothing"] /\ Reading[r] # Idle
          /\ n \in Names /\ v \in Version
        BY <1>1, <1>6, ReaderIsNotIdle DEF ReadOf, TypeInv, Named
    <2>3. Reading' = [Reading EXCEPT ![r] = [name |-> n, seen |-> v, told |-> pc]]
        <3>1. reqs' = [reqs EXCEPT ![r] = rec]
            BY <1>6 DEF Step
        <3>2. [name |-> n, seen |-> v, told |-> pc] =
                  IF rec.pc \in Reads
                  THEN [name |-> rec.name, seen |-> rec.version,
                        told |-> IF rec.pc = "get" THEN "nothing" ELSE rec.pc]
                  ELSE Idle
            BY <2>1 DEF Reads
        <3>. QED  BY <1>3, <3>1, <3>2
    <2>4. Reading' = [Reading EXCEPT ![r].told = pc]
        <3>1. [Reading[r] EXCEPT !.told = pc] = [name |-> n, seen |-> v, told |-> pc]
            BY <2>2
        <3>. QED  BY <2>3, <3>1
    <2>5. CASE pc = "bytes"
        <3>1. Map!TellBytes(r)
            BY <1>2, <2>2, <2>4, <2>5 DEF Map!TellBytes, Reading
        <3>. QED  BY <3>1 DEF Map!Next
    <2>6. CASE pc = "missing"
        <3>1. rows[n] # v \/ n \in Doubtful
            <4>1. <<n, v>> \notin stored
                BY <1>6, <2>6
            <4>. QED  BY <2>2, <4>1, NoneAssumption DEF S3Inv, ObjectsInv, Backed, Doubtful, Version
        <3>2. Map!TellMissing(r)
            BY <1>2, <2>2, <2>4, <2>6, <3>1 DEF Map!TellMissing, Reading, Doubtful
        <3>. QED  BY <3>2 DEF Map!Next
    <2>. QED  BY <2>5, <2>6
<1>. QED  BY <1>4, <1>5, <1>6 DEF Read, GetObject, Answered

LEMMA OthersMap ==
    ASSUME ObjectsInv, NEW r \in Requests,
           \/ \E n \in Names, upsert \in BOOLEAN : BeginUpload(r, n, upsert)
           \/ PutObject(r) \/ DiscardBytes(r) \/ EmptyOne(r) \/ Buckets(r)
    PROVE  UNCHANGED Map!vars
<1>1. TypeInv /\ reqs[r] \in Request
    BY DEF ObjectsInv, TypeInv, TypeOK
<1>2. UNCHANGED <<rows, lost, locked>>
    BY DEF BeginUpload, PutObject, DiscardBytes, EmptyOne, Buckets, CreateBucket, InsertBucket, BeginRemoveBucket,
           DeleteStoreBucket, DeleteBucketRow, database
<1>3. ASSUME NEW rec, reqs' = [reqs EXCEPT ![r] = rec], reqs[r].pc \notin Reads, rec.pc \notin Reads
      PROVE  UNCHANGED Map!vars
    BY <1>1, <1>2, <1>3, NotAReader, Stutters
<1>4. CASE \E n \in Names, upsert \in BOOLEAN : BeginUpload(r, n, upsert)
    BY <1>3, <1>4, IdleIsRequest DEF BeginUpload, Step, Reads
<1>5. CASE PutObject(r)
    BY <1>1, <1>3, <1>5 DEF PutObject, Step, Discard, Begin, Idle, Request, Reads
<1>6. CASE EmptyOne(r)
    BY <1>1, <1>3, <1>6 DEF EmptyOne, Step, Request, Reads
<1>7. CASE DiscardBytes(r) \/ InsertBucket(r) \/ DeleteBucketRow(r)
    BY <1>3, <1>7, IdleIsRequest DEF DiscardBytes, InsertBucket, DeleteBucketRow, Finish, Step, Reads
<1>8. CASE CreateBucket(r) \/ BeginRemoveBucket(r)
    BY <1>3, <1>8, IdleIsRequest DEF CreateBucket, BeginRemoveBucket, Step, Reads
<1>9. CASE DeleteStoreBucket(r)
    BY <1>1, <1>3, <1>9 DEF DeleteStoreBucket, Step, Request, Reads
<1>. QED  BY <1>4, <1>5, <1>6, <1>7, <1>8, <1>9 DEF Buckets

LEMMA InitMaps == Init => Map!Init
<1>. SUFFICES ASSUME Init PROVE Map!Init
    OBVIOUS
<1>1. \A r \in Requests : ReadOf(r) = Idle
    BY IdleIsRequest DEF Init, ReadOf
<1>2. \A n \in Names : locked[n] = Nobody
    BY DEF Init
<1>. QED  BY <1>1, <1>2 DEF Init, Map!Init

LEMMA StepMaps == S3Inv /\ [Next]_vars => [Map!Next]_(Map!vars)
<1>. SUFFICES ASSUME S3Inv, [Next]_vars PROVE [Map!Next]_(Map!vars)
    OBVIOUS
<1>1. ObjectsInv
    BY DEF S3Inv
<1>2. CASE UNCHANGED vars
    <2>1. Reading' = Reading
        BY <1>2, ReadingKept DEF vars
    <2>. QED  BY <1>2, <2>1, Stutters DEF vars
<1>3. ASSUME NEW r \in Requests, Upload(r) PROVE [Map!Next]_(Map!vars)
    BY <1>1, <1>3, CommitMaps, OthersMap DEF Upload
<1>4. ASSUME NEW r \in Requests, Removal(r) PROVE [Map!Next]_(Map!vars)
    BY <1>1, <1>4, RemoveMaps, BeginEmptyMaps, OthersMap, CommitEmptyMaps, FailEmptyMaps DEF Removal
<1>. QED  BY <1>1, <1>2, <1>3, <1>4, CrashMaps, ReadMaps, OthersMap DEF Next

LEMMA StaysOnItsStore == ObjectsInv /\ [Next]_vars => backend' = backend
BY DEF Next, vars, Upload, BeginUpload, PutObject, CommitUpload, DiscardBytes, Removal, RemoveObjects, BeginEmpty, EmptyOne,
       CommitEmpty, FailEmpty, Read, Touch, GetObject, Answered, Buckets, CreateBucket, InsertBucket,
       BeginRemoveBucket, DeleteStoreBucket, DeleteBucketRow, Crash

\* On s3, what the clients of a bucket see is what ObjectMap promises: a read is
\* answered with the upload found under the name, or with 404 only when that has
\* been replaced or removed, or is in doubt.
THEOREM Refines == Spec /\ backend = "s3" => ImplementsObjectMap
<1>1. Init /\ backend = "s3" => S3Inv
    BY InitObjects DEF S3Inv
<1>2. S3Inv /\ [Next]_vars => S3Inv'
    BY KeepsObjects, StaysOnItsStore DEF S3Inv
<1>. QED  BY <1>1, <1>2, InitMaps, StepMaps, PTL DEF Spec, ImplementsObjectMap, Map!Spec

====
