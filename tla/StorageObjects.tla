---- MODULE StorageObjects ----
(***************************************************************************)
(* One bucket of the storage service (packages/storage): its row and its   *)
(* objects' rows in Postgres, the bytes in the object store, and the       *)
(* requests that write, read, remove and empty it. A request is a sequence *)
(* of transactions and store calls; an action is one of them. Bytes are    *)
(* kept under a fresh version per upload and a row names the version that  *)
(* is live. Postgres and the store are outside this repository, and either *)
(* may fail a call, or do it and lose the answer.                          *)
(***************************************************************************)
EXTENDS Naturals

CONSTANTS
    Names,         \* object names
    Requests,      \* slots for requests in progress
    Nobody,
    None,
    MaxVersions,   \* bound: uploads that store bytes
    MaxFaults,     \* bound: failed calls, lost answers and crashes
    Backends       \* which object stores the service may run on: s3, file

ASSUME BoundsAssumption == MaxVersions \in Nat /\ MaxFaults \in Nat
ASSUME BackendsAssumption == Backends \subseteq {"s3", "file"}
ASSUME NobodyAssumption == Nobody \notin Requests
ASSUME NoneAssumption == None \notin 1..MaxVersions

VARIABLES
    backend,
    bucket,    \* whether storage.buckets holds the bucket's row
    home,      \* whether the object store has the bucket
    rows,      \* storage.objects: the version each name's row holds
    locked,    \* the open transaction of emptyBucket that has deleted a row
    stored,    \* the keys the object store holds, <<name, version>>
    reqs,
    versions,  \* how many versions have been given out
    faults,
    lost       \* names whose row came back, or went in, with an error answered

vars == <<backend, bucket, home, rows, locked, stored, reqs, versions, faults, lost>>
database == <<bucket, rows, locked, lost>>
store == <<home, stored>>

Version == 1..MaxVersions
Keys == Names \X Version

Idle == [pc |-> "idle", name |-> None, version |-> None, upsert |-> FALSE, keys |-> {}]
Begin(pc) == [Idle EXCEPT !.pc = pc]
Step(r, rec) == reqs' = [reqs EXCEPT ![r] = rec]
Finish(r) == Step(r, Idle)
\* discard: the request ends with the deletion of keys no row points at.
Discard(r, keys) == Step(r, [Begin("discard") EXCEPT !.keys = keys])
Key(n) == {<<n, rows[n]>>}
LiveKeys == {<<n, rows[n]>> : n \in {m \in Names : rows[m] # None}}

\* A call fails, or is done and its answer lost.
Fault == faults < MaxFaults /\ faults' = faults + 1
NoFault == UNCHANGED faults

----------------------------------------------------------------------------
(* Upload *)

\* The bucket is read, the limits and the bucket's rules accept the upload,
\* rehearsed in a transaction rolled back. A refusal changes nothing.
BeginUpload(r, n, upsert) ==
    /\ reqs[r] = Idle
    /\ bucket
    /\ locked[n] = Nobody
    /\ upsert \/ rows[n] = None
    /\ versions < MaxVersions
    /\ versions' = versions + 1
    /\ Step(r, [pc |-> "put", name |-> n, version |-> versions + 1, upsert |-> upsert, keys |-> {}])
    /\ UNCHANGED <<backend, database, store, faults>>

(* Mutant: the bytes go under the name alone, over those being served. *)
PutObjectInPlace(r) ==
    LET key == <<reqs[r].name, reqs[r].version>>
    IN  /\ reqs[r].pc = "put"
        /\ home
        /\ stored' = {k \in stored : k[1] # reqs[r].name} \union {key}
        /\ Step(r, [reqs[r] EXCEPT !.pc = "commit"])
        /\ NoFault
        /\ UNCHANGED <<backend, database, home, versions>>

\* The bytes are stored beside those being served. A store without the bucket
\* refuses them, except a directory, which is made again.
PutObject(r) ==
    LET key == <<reqs[r].name, reqs[r].version>>
        can == home \/ backend = "file"
    IN  /\ reqs[r].pc = "put"
        /\ \/ /\ can
              /\ stored' = stored \union {key}
              /\ home' = TRUE
              /\ Step(r, [reqs[r] EXCEPT !.pc = "commit"])
              /\ NoFault
           \/ /\ can
              /\ Fault
              /\ stored' \in {stored, stored \union {key}}
              /\ Discard(r, {key})
              /\ UNCHANGED home
           \/ /\ ~can
              /\ Discard(r, {key})
              /\ NoFault
              /\ UNCHANGED store
        /\ UNCHANGED <<backend, database, versions>>

(* Mutant: the bytes of the version replaced are left where they are. *)
Forgotten(n) == {}

\* What is left to delete once the row names the upload's version.
Replaced(n) == IF rows[n] = None THEN {} ELSE Key(n)

\* commitUploadAs: the row is switched to the new version, or inserted, unless
\* it exists and was not to be overwritten, or the rules refuse it by now, or
\* its bucket has gone. A row an open emptyBucket has deleted is waited for.
\* A commit whose answer is lost is done, and taken for a failure.
CommitUpload(r) ==
    LET n == reqs[r].name
        v == reqs[r].version
        mayWrite == bucket /\ (rows[n] = None \/ reqs[r].upsert)
        written == [rows EXCEPT ![n] = v]
    IN  /\ reqs[r].pc = "commit"
        /\ locked[n] = Nobody
        /\ \/ /\ mayWrite
              /\ rows' = written
              /\ lost' = lost \ {n}
              /\ IF Replaced(n) = {} THEN Finish(r) ELSE Discard(r, Replaced(n))
              /\ NoFault
           \/ /\ mayWrite
              /\ Fault
              /\ rows' = written
              /\ lost' = lost \union {n}
              /\ Discard(r, {<<n, v>>})
           \/ /\ UNCHANGED <<rows, lost>>
              /\ Discard(r, {<<n, v>>})
              /\ NoFault
        /\ UNCHANGED <<backend, bucket, locked, store, versions>>

(* Mutant: every version kept under the name is deleted. *)
DiscardByName(r) ==
    /\ reqs[r].pc = "discard"
    /\ stored' = {k \in stored : \A d \in reqs[r].keys : k[1] # d[1]}
    /\ NoFault
    /\ Finish(r)
    /\ UNCHANGED <<backend, database, home, versions>>

\* Best effort: a failure leaves bytes behind and fails no request.
DiscardBytes(r) ==
    /\ reqs[r].pc = "discard"
    /\ \/ stored' = stored \ reqs[r].keys /\ NoFault
       \/ stored' = stored /\ Fault
    /\ Finish(r)
    /\ UNCHANGED <<backend, database, home, versions>>

----------------------------------------------------------------------------
(* Remove and empty *)

\* deleteObjectsAs: the rows the delete rule lets the caller remove, then the
\* bytes of those. With the answer lost the request fails and the bytes stay.
RemoveObjects(r, ns) ==
    /\ reqs[r] = Idle
    /\ bucket
    /\ ns # {}
    /\ \A n \in ns : rows[n] # None /\ locked[n] = Nobody
    /\ rows' = [n \in Names |-> IF n \in ns THEN None ELSE rows[n]]
    /\ lost' = lost \ ns
    /\ \/ Discard(r, {k \in LiveKeys : k[1] \in ns}) /\ NoFault
       \/ Finish(r) /\ Fault
    /\ UNCHANGED <<backend, bucket, locked, store, versions>>

\* emptyBucket: the rows are deleted in a transaction that stays open.
BeginEmpty(r) ==
    /\ reqs[r] = Idle
    /\ bucket
    /\ LiveKeys # {}
    /\ \A n \in Names : locked[n] = Nobody
    /\ locked' = [n \in Names |-> IF rows[n] = None THEN Nobody ELSE r]
    /\ Step(r, [Begin("emptying") EXCEPT !.keys = LiveKeys])
    /\ UNCHANGED <<backend, bucket, rows, lost, store, versions, faults>>

EmptyOne(r) ==
    /\ reqs[r].pc = "emptying"
    /\ \E k \in reqs[r].keys :
          /\ stored' = stored \ {k}
          /\ Step(r, [reqs[r] EXCEPT !.keys = @ \ {k}])
    /\ UNCHANGED <<backend, database, home, versions, faults>>

Held(r) == {n \in Names : locked[n] = r}
Unlock(ns) == locked' = [n \in Names |-> IF n \in ns THEN Nobody ELSE locked[n]]

(* Mutant: the connection goes back with its transaction open. *)
CommitEmptyOpen(r) ==
    /\ reqs[r].pc = "emptying"
    /\ reqs[r].keys = {}
    /\ Finish(r)
    /\ UNCHANGED <<backend, database, store, versions, faults>>

CommitEmpty(r) ==
    /\ reqs[r].pc = "emptying"
    /\ reqs[r].keys = {}
    /\ rows' = [n \in Names |-> IF n \in Held(r) THEN None ELSE rows[n]]
    /\ lost' = lost \ Held(r)
    /\ Unlock(Held(r))
    /\ Finish(r)
    /\ UNCHANGED <<backend, bucket, store, versions, faults>>

\* A deletion or the commit fails: the rows are back, those of bytes already
\* deleted too, until the bucket is emptied again.
FailEmpty(r) ==
    /\ reqs[r].pc = "emptying"
    /\ Fault
    /\ lost' = lost \union {n \in Held(r) : <<n, rows[n]>> \notin reqs[r].keys}
    /\ Unlock(Held(r))
    /\ Finish(r)
    /\ UNCHANGED <<backend, bucket, rows, store, versions>>

----------------------------------------------------------------------------
(* Read *)

\* touchObject: which version is live. It waits for a row an open emptyBucket
\* has deleted. No row is answered 404 at once.
Touch(r, n) ==
    /\ reqs[r] = Idle
    /\ bucket
    /\ locked[n] = Nobody
    /\ rows[n] # None
    /\ Step(r, [Begin("get") EXCEPT !.name = n, !.version = rows[n]])
    /\ UNCHANGED <<backend, database, store, versions, faults>>

GetObject(r) ==
    /\ reqs[r].pc = "get"
    /\ \/ /\ NoFault
          /\ Step(r, [reqs[r] EXCEPT !.pc = IF <<reqs[r].name, reqs[r].version>> \in stored
                                            THEN "bytes" ELSE "missing"])
       \/ Fault /\ Finish(r)
    /\ UNCHANGED <<backend, database, store, versions>>

Answered(r) ==
    /\ reqs[r].pc \in {"bytes", "missing"}
    /\ Finish(r)
    /\ UNCHANGED <<backend, database, store, versions, faults>>

----------------------------------------------------------------------------
(* The bucket itself *)

\* create: the store's bucket, made again if it has gone, then its row, which
\* may turn out to be there.
CreateBucket(r) ==
    /\ reqs[r] = Idle
    /\ home' = TRUE
    /\ Step(r, Begin("create"))
    /\ UNCHANGED <<backend, database, stored, versions, faults>>

InsertBucket(r) ==
    /\ reqs[r].pc = "create"
    /\ \/ bucket' = TRUE /\ NoFault
       \/ UNCHANGED bucket /\ Fault
    /\ Finish(r)
    /\ UNCHANGED <<backend, rows, locked, lost, store, versions>>

\* remove: found to hold no rows. Rows deleted but not committed still count.
BeginRemoveBucket(r) ==
    /\ reqs[r] = Idle
    /\ LiveKeys = {}
    /\ Step(r, Begin("dropStore"))
    /\ UNCHANGED <<backend, database, store, versions, faults>>

\* The store's bucket: S3 refuses one that is not empty, and any error is
\* ignored; a directory goes with everything in it.
DeleteStoreBucket(r) ==
    /\ reqs[r].pc = "dropStore"
    /\ home' = IF backend = "s3" /\ stored # {} THEN home ELSE FALSE
    /\ stored' = IF backend = "s3" THEN stored ELSE {}
    /\ Step(r, [reqs[r] EXCEPT !.pc = "dropRow"])
    /\ UNCHANGED <<backend, database, versions, faults>>

(* Mutant: storage.objects does not reference storage.buckets. *)
DeleteBucketRowUnkeyed(r) ==
    /\ reqs[r].pc = "dropRow"
    /\ bucket' = FALSE
    /\ NoFault
    /\ Finish(r)
    /\ UNCHANGED <<backend, rows, locked, lost, store, versions>>

\* The bucket's row: the foreign key refuses while a row names the bucket, and
\* waits for one whose deletion is not committed.
DeleteBucketRow(r) ==
    /\ reqs[r].pc = "dropRow"
    /\ \A n \in Names : locked[n] = Nobody
    /\ \/ bucket' = (bucket /\ LiveKeys # {}) /\ NoFault
       \/ UNCHANGED bucket /\ Fault
    /\ Finish(r)
    /\ UNCHANGED <<backend, rows, locked, lost, store, versions>>

\* The service stops and starts again: its open transaction is rolled back.
Crash ==
    /\ Fault
    /\ reqs' = [r \in Requests |-> Idle]
    /\ locked' = [n \in Names |-> Nobody]
    /\ lost' = lost \union {n \in Names : locked[n] # Nobody /\ <<n, rows[n]>> \notin reqs[locked[n]].keys}
    /\ UNCHANGED <<backend, bucket, rows, store, versions>>

----------------------------------------------------------------------------

Init ==
    /\ backend \in Backends
    /\ bucket = TRUE
    /\ home = TRUE
    /\ rows = [n \in Names |-> None]
    /\ locked = [n \in Names |-> Nobody]
    /\ stored = {}
    /\ reqs = [r \in Requests |-> Idle]
    /\ versions = 0
    /\ faults = 0
    /\ lost = {}

Upload(r) ==
    \/ \E n \in Names, upsert \in BOOLEAN : BeginUpload(r, n, upsert)
    \/ PutObject(r) \/ CommitUpload(r) \/ DiscardBytes(r)
Removal(r) ==
    \/ \E ns \in SUBSET Names : RemoveObjects(r, ns)
    \/ BeginEmpty(r) \/ EmptyOne(r) \/ CommitEmpty(r) \/ FailEmpty(r)
Read(r) == GetObject(r) \/ Answered(r) \/ \E n \in Names : Touch(r, n)
Buckets(r) ==
    CreateBucket(r) \/ InsertBucket(r) \/ BeginRemoveBucket(r) \/ DeleteStoreBucket(r) \/ DeleteBucketRow(r)

Next == Crash \/ \E r \in Requests : Upload(r) \/ Removal(r) \/ Read(r) \/ Buckets(r)

Spec == Init /\ [][Next]_vars

----------------------------------------------------------------------------
(* Properties *)

Request == [pc : {"idle", "put", "commit", "discard", "emptying", "get", "bytes", "missing",
                  "create", "dropStore", "dropRow"},
            name : Names \union {None}, version : Version \union {None},
            upsert : BOOLEAN, keys : SUBSET Keys]

\* Every variable keeps its shape, and only rows there are locked or in doubt.
TypeOK ==
    /\ backend \in Backends
    /\ bucket \in BOOLEAN /\ home \in BOOLEAN
    /\ rows \in [Names -> Version \union {None}]
    /\ locked \in [Names -> Requests \union {Nobody}]
    /\ stored \subseteq Keys
    /\ reqs \in [Requests -> Request]
    /\ versions \in 0..MaxVersions
    /\ faults \in 0..MaxFaults
    /\ lost \subseteq {n \in Names : rows[n] # None}
    /\ \A n \in Names : locked[n] # Nobody => rows[n] # None /\ reqs[locked[n]].pc = "emptying"

\* The row of an object never points at bytes the store does not hold,
\* whatever uploads, removals and reads of it overlap: but while the bucket is
\* being emptied, and for a row left in doubt by a call that failed.
RowsHaveTheirBytes == \A n \in Names : rows[n] # None /\ locked[n] = Nobody /\ n \notin lost => <<n, rows[n]>> \in stored

\* When no call has failed and no request is in progress, the store holds the
\* bytes of the rows and nothing else: no upload, refused or replaced, and no
\* removal leaves bytes behind.
NothingLeftBehind == faults = 0 /\ (\A r \in Requests : reqs[r] = Idle) => stored = LiveKeys

\* The rows of a bucket that has gone are gone with it.
RowsHaveABucket == (\E n \in Names : rows[n] # None) => bucket

\* The service keeps the promises of ObjectMap: the upload a name holds is the
\* version of its row, and what is in doubt is what is being emptied or lost.
ReadOf(r) ==
    IF reqs[r].pc \in {"get", "bytes", "missing"}
    THEN [name |-> reqs[r].name, seen |-> reqs[r].version,
          told |-> IF reqs[r].pc = "get" THEN "nothing" ELSE reqs[r].pc]
    ELSE Idle
Map == INSTANCE ObjectMap WITH
    Uploads <- Version,
    Readers <- Requests,
    Nothing <- Idle,
    content <- rows,
    doubtful <- lost \union {n \in Names : locked[n] # Nobody},
    reading <- [r \in Requests |-> ReadOf(r)]
ImplementsObjectMap == Map!Spec

====
