---- MODULE WorkerDeploy ----
(***************************************************************************)
(* The control plane of a self-hosted stack (packages/self-host-control)   *)
(* deploying functions and hooks: the files its requests write, and how    *)
(* worker.ts decides by a hash of them whether the functions worker, which *)
(* loads them when it starts, has to be restarted. Requests run together,  *)
(* from one await to the next. Docker, the worker and whoever edits the    *)
(* checkout are modelled from how this code uses them.                     *)
(***************************************************************************)
EXTENDS Naturals

CONSTANTS
    Modules,       \* functions, hooks and the manifest's maps
    Requests,
    None,
    MaxVersions,   \* bound: contents a module has after its first
    MaxFaults      \* bound: failed writes and docker calls, crashes, exits, edits

ASSUME BoundsAssumption == MaxVersions \in Nat /\ MaxFaults \in Nat
ASSUME NoneAssumption == None \notin Modules \union 0..MaxVersions \union [Modules -> 0..MaxVersions]

VARIABLES
    disk,      \* the content of each module, by version; a removal is one too
    latest,    \* the newest version of each module
    loaded,    \* the record functions-worker-loaded, a hash of all contents
    owed,      \* whether the record functions-worker-restart-owed is there
    worker,    \* whether the worker runs, and the code it last loaded
    reqs,
    faults,
    reverted,  \* history: a content was written that its module had before
    mixed      \* history: requests or edits overlapped, or the worker came to
               \* load what no record and no restart owed told of

vars == <<disk, latest, loaded, owed, worker, reqs, faults, reverted, mixed>>
files == <<disk, latest, reverted>>
records == <<loaded, owed>>

Version == 0..MaxVersions

\* wrote: what was written to the module. was: the module before. kept: put
\* back. content, unread: the hash, and what it has not read yet.
Idle == [kind |-> "none", pc |-> "idle", module |-> None, wrote |-> None, was |-> None, kept |-> FALSE,
         owed |-> FALSE, stale |-> FALSE, content |-> None, unread |-> {}]

Step(r, rec) == reqs' = [reqs EXCEPT ![r] = rec]
Go(r, pc) == Step(r, [reqs[r] EXCEPT !.pc = pc])
\* An error answers the request, whatever has been done by then.
Fail(r) == Step(r, Idle)
Busy == {r \in Requests : reqs[r] # Idle}

Fault == faults < MaxFaults /\ faults' = faults + 1
NoFault == UNCHANGED faults

\* Module m is given content v: one it had before, or a new one.
Contents(m) == {v \in Version : v <= latest[m] + 1}
Write(m, v) ==
    /\ disk' = [disk EXCEPT ![m] = v]
    /\ latest' = [latest EXCEPT ![m] = IF v > @ THEN v ELSE @]
    /\ reverted' = (reverted \/ (v # disk[m] /\ v <= latest[m]))

----------------------------------------------------------------------------
(* Files *)

\* A deploy or a removal of a function, or a deploy of a hook, whose files are
\* read first so that they can be put back.
Begin(r, kind, m) ==
    /\ reqs[r] = Idle
    /\ Step(r, [Idle EXCEPT !.kind = kind, !.pc = "write", !.module = m,
                    !.was = IF kind = "hook" THEN disk[m] ELSE None])
    /\ mixed' = (mixed \/ Busy # {})
    /\ UNCHANGED <<files, records, worker, faults>>

\* A request that sets or unsets an env value writes no code.
BeginEnv(r) ==
    /\ reqs[r] = Idle
    /\ Step(r, [Idle EXCEPT !.kind = "env", !.pc = "written"])
    /\ mixed' = (mixed \/ Busy # {})
    /\ UNCHANGED <<files, records, worker, faults>>

\* writeChanged, removeAll: a content the module had before, or a new one.
WriteModule(r) ==
    LET m == reqs[r].module
    IN  /\ reqs[r].pc = "write"
        /\ \E v \in Contents(m) :
              /\ Write(m, v)
              /\ Step(r, [reqs[r] EXCEPT !.pc = "written", !.wrote = v, !.was = None])
        /\ UNCHANGED <<records, worker, faults, mixed>>

\* A write fails, having changed nothing or left a file half-written: the deploy
\* of a function fails there and then, a hook is put back.
WriteFails(r) ==
    LET m == reqs[r].module
    IN  /\ reqs[r].pc = "write"
        /\ Fault
        /\ \E v \in {disk[m]} \union {x \in Contents(m) : x > latest[m]} : Write(m, v)
        /\ IF reqs[r].kind = "hook" THEN Go(r, "restore") ELSE Fail(r)
        /\ UNCHANGED <<records, worker, mixed>>

(* Mutant: what a failed write left is answered as the version kept. *)
RestoreNothing(r) ==
    /\ reqs[r].pc = "restore"
    /\ Step(r, [reqs[r] EXCEPT !.pc = "written", !.kept = TRUE])
    /\ UNCHANGED <<files, records, worker, faults, mixed>>

\* restoreFiles: the hook is answered as kept, its previous version still
\* served, or as broken, when it cannot be put back.
RestoreHook(r) ==
    /\ reqs[r].pc = "restore"
    /\ \/ /\ Write(reqs[r].module, reqs[r].was)
          /\ Step(r, [reqs[r] EXCEPT !.pc = "written", !.kept = TRUE])
          /\ NoFault
       \/ /\ Go(r, "written")
          /\ Fault
          /\ UNCHANGED files
    /\ UNCHANGED <<records, worker, mixed>>

----------------------------------------------------------------------------
(* ensureWorkerCurrent *)

(* Mutant: an env request never hashes the code. *)
EnsureWorkerCurrentUnhashed(r) ==
    LET hashes == reqs[r].kind # "env"
    IN  /\ reqs[r].pc = "written"
        /\ Step(r, [reqs[r] EXCEPT !.kind = "none", !.owed = owed, !.pc = "hash",
                        !.content = IF hashes THEN disk ELSE None, !.unread = IF hashes THEN Modules ELSE {}])
        /\ UNCHANGED <<files, records, worker, faults, mixed>>

\* Whether a restart is owed is read. An env request hashes nothing unless one
\* is.
EnsureWorkerCurrent(r) ==
    LET hashes == reqs[r].kind # "env" \/ owed
    IN  /\ reqs[r].pc = "written"
        /\ Step(r, [reqs[r] EXCEPT !.kind = "none", !.owed = owed, !.pc = "hash",
                        !.content = IF hashes THEN disk ELSE None, !.unread = IF hashes THEN Modules ELSE {}])
        /\ UNCHANGED <<files, records, worker, faults, mixed>>

\* workerContentHash: one file read, while others may be written.
HashModule(r, m) ==
    /\ reqs[r].pc = "hash"
    /\ m \in reqs[r].unread
    /\ Step(r, [reqs[r] EXCEPT !.unread = @ \ {m}, !.content[m] = disk[m]])
    /\ UNCHANGED <<files, records, worker, faults, mixed>>

(* Mutant: whether a restart is owed is not looked at. *)
DecideByContent(r) ==
    LET stale == reqs[r].content # None /\ reqs[r].content # loaded
    IN  /\ reqs[r].pc = "hash"
        /\ reqs[r].unread = {}
        /\ owed' = (owed \/ stale)
        /\ Step(r, [reqs[r] EXCEPT !.owed = FALSE, !.stale = stale, !.pc = "list",
                                   !.content = IF stale THEN @ ELSE None])
        /\ UNCHANGED <<files, loaded, worker, faults, mixed>>

(* Mutant: a restart is owed only when the last one left it so. *)
DecideUnowed(r) ==
    LET stale == reqs[r].owed \/ (reqs[r].content # None /\ reqs[r].content # loaded)
    IN  /\ reqs[r].pc = "hash"
        /\ reqs[r].unread = {}
        /\ Step(r, [reqs[r] EXCEPT !.owed = FALSE, !.stale = stale, !.pc = "list",
                                   !.content = IF stale THEN @ ELSE None])
        /\ UNCHANGED <<files, records, worker, faults, mixed>>

\* The worker is stale: a restart is owed until one has been made.
Decide(r) ==
    LET stale == reqs[r].owed \/ (reqs[r].content # None /\ reqs[r].content # loaded)
    IN  /\ reqs[r].pc = "hash"
        /\ reqs[r].unread = {}
        /\ owed' = (owed \/ stale)
        /\ Step(r, [reqs[r] EXCEPT !.owed = FALSE, !.stale = stale, !.pc = "list",
                                   !.content = IF stale THEN @ ELSE None])
        /\ UNCHANGED <<files, loaded, worker, faults, mixed>>

\* docker ps: the worker is listed, or there is none, or docker cannot say,
\* which a request that needed nothing answers with a warning.
ListWorker(r) ==
    LET next == CASE reqs[r].stale -> "restart"
                  [] ~reqs[r].stale /\ ~worker.running -> "start"
                  [] OTHER -> "answered"
    IN  /\ reqs[r].pc = "list"
        /\ \/ Go(r, next) /\ NoFault
           \/ Fail(r) /\ Fault
           \/ ~reqs[r].stale /\ Go(r, "answered") /\ Fault
        /\ UNCHANGED <<files, records, worker, mixed>>

\* docker restart: the worker stops and loads what is there when it starts. It
\* may fail with the worker as it was, stopped, or started.
RestartWorker(r) ==
    /\ reqs[r].pc = "restart"
    /\ \/ /\ worker' = [running |-> TRUE, code |-> disk]
          /\ Go(r, "record")
          /\ NoFault
       \/ /\ worker' \in {worker, [worker EXCEPT !.running = FALSE], [running |-> TRUE, code |-> disk]}
          /\ Fail(r)
          /\ Fault
    /\ UNCHANGED <<files, records, mixed>>

\* restartWorker goes on: what was hashed is recorded, nothing is owed.
RecordLoaded(r) ==
    /\ reqs[r].pc = "record"
    /\ loaded' = reqs[r].content
    /\ owed' = FALSE
    /\ Go(r, "answered")
    /\ UNCHANGED <<files, worker, faults, mixed>>

\* The worker starts by other means than a restart that records it.
Started ==
    /\ worker' = IF worker.running THEN worker ELSE [running |-> TRUE, code |-> disk]
    /\ mixed' = (mixed \/ disk # loaded)

StartWorker(r) ==
    /\ reqs[r].pc = "start"
    /\ \/ Started /\ Go(r, "answered") /\ NoFault
       \/ UNCHANGED <<worker, mixed>> /\ Fail(r) /\ Fault
    /\ UNCHANGED <<files, records>>

Answer(r) ==
    /\ reqs[r].pc = "answered"
    /\ Fail(r)
    /\ UNCHANGED <<files, records, worker, faults, mixed>>

----------------------------------------------------------------------------
(* Around the control plane (external, but for the crash) *)

\* The control plane stops and starts again, its records kept. A restart it
\* had asked docker for is made or not.
Crash ==
    /\ Fault
    /\ reqs' = [r \in Requests |-> Idle]
    /\ worker' \in {worker} \union
          (IF \E r \in Requests : reqs[r].pc = "restart" THEN {[running |-> TRUE, code |-> disk]} ELSE {})
    /\ UNCHANGED <<files, records, mixed>>

WorkerExits ==
    /\ worker.running
    /\ Fault
    /\ worker' = [worker EXCEPT !.running = FALSE]
    /\ UNCHANGED <<files, records, reqs, mixed>>

\* An operator brings the stack up.
StackUp ==
    /\ ~worker.running
    /\ Started
    /\ UNCHANGED <<files, records, reqs, faults>>

\* A file is edited in the project's own checkout.
Edit(m) ==
    /\ Fault
    /\ \E v \in Contents(m) \ {disk[m]} : Write(m, v)
    /\ mixed' = (mixed \/ Busy # {})
    /\ UNCHANGED <<records, worker, reqs>>

----------------------------------------------------------------------------

Init ==
    /\ disk = [m \in Modules |-> 0]
    /\ latest = disk
    /\ loaded \in {None, disk}
    /\ owed = FALSE
    /\ worker = [running |-> TRUE, code |-> disk]
    /\ reqs = [r \in Requests |-> Idle]
    /\ faults = 0
    /\ reverted = FALSE
    /\ mixed = FALSE

Deploy(r) ==
    \/ \E m \in Modules, kind \in {"function", "hook"} : Begin(r, kind, m)
    \/ BeginEnv(r) \/ WriteModule(r) \/ WriteFails(r) \/ RestoreHook(r)
Ensure(r) ==
    \/ EnsureWorkerCurrent(r) \/ Decide(r) \/ ListWorker(r) \/ RestartWorker(r) \/ RecordLoaded(r)
    \/ StartWorker(r) \/ Answer(r) \/ \E m \in Modules : HashModule(r, m)

Next ==
    \/ \E r \in Requests : Deploy(r) \/ Ensure(r)
    \/ Crash \/ WorkerExits \/ StackUp
    \/ \E m \in Modules : Edit(m)

Spec == Init /\ [][Next]_vars

----------------------------------------------------------------------------
(* Properties *)

Files == [Modules -> Version]
Request == [kind : {"none", "function", "hook", "env"},
            pc : {"idle", "write", "restore", "written", "hash", "list", "restart", "record", "start", "answered"},
            module : Modules \union {None}, wrote : Version \union {None}, was : Version \union {None},
            kept : BOOLEAN, owed : BOOLEAN, stale : BOOLEAN, content : Files \union {None}, unread : SUBSET Modules]

\* Every variable keeps its shape, and only a content that was hashed is
\* recorded as loaded.
TypeOK ==
    /\ disk \in Files /\ latest \in Files
    /\ \A m \in Modules : disk[m] <= latest[m]
    /\ loaded \in {None} \union Files
    /\ {owed, reverted, mixed} \subseteq BOOLEAN
    /\ worker \in [running : BOOLEAN, code : Files]
    /\ reqs \in [Requests -> Request]
    /\ \A r \in Requests : reqs[r].pc \in {"restart", "record"} => reqs[r].content # None
    /\ faults \in 0..MaxFaults

\* A worker that runs other code than what is on disk is found out by the next
\* deploy: a restart is owed, or what is recorded as loaded is not what is
\* there. Through failed writes, failed and unfinished restarts, crashes and
\* edits; but not once a content comes back that a module had before, when
\* requests have overlapped or the worker was started unrecorded.
StaleCodeIsNoticed == ~(mixed /\ reverted) => owed \/ loaded # disk \/ worker.code = disk

\* The same without the exception, once every request is answered: worker.ts
\* says that content holds where file times do not, and keeps the worker serving
\* what is on disk.
ContentDecides == Busy = {} => owed \/ loaded # disk \/ worker.code = disk

\* A deploy answered with success has been loaded by the worker: what it wrote,
\* or what was written over it meanwhile.
AnsweredCodeIsLoaded ==
    \A r \in Requests : reqs[r].pc = "answered" /\ reqs[r].wrote # None =>
        /\ ~mixed => worker.code[reqs[r].module] = reqs[r].wrote
        /\ ~reverted => worker.code[reqs[r].module] >= reqs[r].wrote

\* A hook answered as kept still has the files it had before the deploy that
\* failed to write it, as long as nothing else writes the files meanwhile.
KeptHookIsAsBefore ==
    \A r \in Requests : ~mixed /\ reqs[r].kept => disk[reqs[r].module] = reqs[r].was

====
