---- MODULE WorkerDeployProofs ----
(***************************************************************************)
(* What holds of deploys for any modules, requests and bounds. Two ways of *)
(* working keep the worker current: one request at a time, whatever is     *)
(* written (Calm), and contents that are always new, whatever overlaps     *)
(* (Onward). The invariant holds what each needs of every request.         *)
(***************************************************************************)
EXTENDS WorkerDeploy, TLAPS

AtMost(f, g) == \A m \in Modules : f[m] <= g[m]

\* The steps of a request from the one that asks whether the worker is current.
After == {"written", "hash", "list", "restart", "record", "start", "answered"}

\* Whether a request has found that the worker needs no restart, or made one.
Settled(rec) == (rec.pc = "list" /\ ~rec.stale) \/ rec.pc \in {"start", "answered"}

\* What a request knows by the time it uses it.
ShapeOf(rec) ==
    /\ rec.pc \in {"idle", "write", "restore"} => rec.wrote = None /\ ~rec.kept
    /\ rec.pc \in {"write", "restore"} => rec.module \in Modules /\ rec.kind # "env"
    /\ (rec.pc = "write" /\ rec.kind = "hook") \/ rec.pc = "restore" => rec.was \in Version
    /\ rec.wrote # None \/ rec.kept => rec.module \in Modules
    /\ rec.pc = "written" /\ rec.kind = "env" => rec.wrote = None
    /\ rec.pc = "hash" /\ (rec.wrote # None \/ rec.owed \/ rec.unread # {}) => rec.content # None
    /\ (rec.pc = "list" /\ rec.stale) \/ rec.pc \in {"restart", "record"} => rec.content # None

TypeInv == TypeOK /\ \A r \in Requests : ShapeOf(reqs[r])

Alone == \A r, q \in Requests : reqs[r] # Idle /\ reqs[q] # Idle => r = q

\* What is recorded as loaded is what the worker runs, unless a restart is owed.
Recorded == owed \/ loaded = None \/ worker.code = loaded

\* Of the only request: the files are as it wrote, put back or hashed them, and a
\* restart is owed from the decision to make it until it is recorded.
CalmOf(rec) ==
    /\ rec.pc \in After /\ rec.wrote # None => disk[rec.module] = rec.wrote
    /\ rec.kept => disk[rec.module] = rec.was
    /\ rec.pc = "hash" => rec.owed = owed /\ (rec.content # None => rec.content = disk)
    /\ (rec.pc = "list" /\ rec.stale) \/ rec.pc \in {"restart", "record"} => owed /\ rec.content = disk
    /\ rec.pc = "record" \/ (Settled(rec) /\ rec.wrote # None) => worker.code = disk

Calm == ~mixed => Alone /\ Recorded /\ \A r \in Requests : CalmOf(reqs[r])

\* Of each request: what it wrote is there or has been overwritten by something
\* newer, in what it hashed and in what the worker loaded too.
OnwardOf(rec) ==
    /\ rec.pc \in After /\ rec.wrote # None => rec.wrote <= disk[rec.module]
    /\ rec.pc \in {"hash", "list", "restart", "record"} /\ rec.content # None =>
          /\ AtMost(rec.content, disk)
          /\ rec.wrote # None => rec.wrote <= rec.content[rec.module]
    /\ rec.pc = "record" => AtMost(rec.content, worker.code)
    /\ Settled(rec) /\ rec.wrote # None => rec.wrote <= worker.code[rec.module]

\* The worker runs nothing newer than the files, nor older than the record of it.
InOrder == disk = latest /\ AtMost(worker.code, disk) /\ (loaded # None => AtMost(loaded, worker.code))

Onward == ~reverted => InOrder /\ \A r \in Requests : OnwardOf(reqs[r])

DeployInv == TypeInv /\ Calm /\ Onward

----------------------------------------------------------------------------
(* Versions, records of requests, and what steps of requests have in common *)

LEMMA NoneApart == None \notin Modules /\ None \notin Version /\ None \notin Files
BY NoneAssumption DEF Version, Files

LEMMA Versions == \A v \in Version : v \in Nat
BY BoundsAssumption DEF Version

LEMMA IdleRecord ==
    /\ Idle \in Request /\ Idle.pc = "idle" /\ Idle.wrote = None /\ ~Idle.kept
    /\ ShapeOf(Idle) /\ CalmOf(Idle) /\ OnwardOf(Idle)
BY DEF Idle, Request, ShapeOf, CalmOf, OnwardOf, After, Settled

LEMMA AtMostTrans ==
    ASSUME NEW f \in Files, NEW g \in Files, NEW h \in Files, AtMost(f, g), AtMost(g, h)
    PROVE  AtMost(f, h)
<1>. SUFFICES ASSUME NEW m \in Modules PROVE f[m] <= h[m]
    BY DEF AtMost
<1>1. f[m] \in Nat /\ g[m] \in Nat /\ h[m] \in Nat
    BY Versions DEF Files
<1>2. f[m] <= g[m] /\ g[m] <= h[m]
    BY DEF AtMost
<1>. QED  BY <1>1, <1>2

LEMMA AtMostSelf == \A f \in Files : AtMost(f, f)
<1>. SUFFICES ASSUME NEW f \in Files, NEW m \in Modules PROVE f[m] <= f[m]
    BY DEF AtMost
<1>1. f[m] \in Nat
    BY Versions DEF Files
<1>. QED  BY <1>1

\* Two records of files that are each at most the other are the same.
LEMMA AtMostBoth ==
    ASSUME NEW f \in Files, NEW g \in Files, AtMost(f, g), AtMost(g, f)
    PROVE  f = g
<1>1. ASSUME NEW m \in Modules PROVE f[m] = g[m]
    <2>1. f[m] \in Nat /\ g[m] \in Nat
        BY Versions DEF Files
    <2>2. f[m] <= g[m] /\ g[m] <= f[m]
        BY DEF AtMost
    <2>. QED  BY <2>1, <2>2
<1>. QED  BY <1>1 DEF Files

\* What a request has found of the files and the worker stays true as both move on.
LEMMA OnwardKept ==
    ASSUME TypeOK, disk' \in Files, worker'.code \in Files, NEW rec \in Request, ShapeOf(rec),
           AtMost(disk, disk'), AtMost(worker.code, worker'.code), OnwardOf(rec)
    PROVE  OnwardOf(rec)'
<1>1. disk \in Files /\ worker.code \in Files /\ rec.content \in Files \union {None}
    BY DEF TypeOK, Request
<1>2. ASSUME rec.wrote # None
      PROVE  /\ rec.pc \in After => rec.wrote <= disk'[rec.module]
             /\ Settled(rec) => rec.wrote <= worker'.code[rec.module]
    <2>1. rec.module \in Modules /\ rec.wrote \in Version
        BY <1>2 DEF ShapeOf, Request
    <2>2. /\ rec.wrote \in Nat /\ disk[rec.module] \in Nat /\ disk'[rec.module] \in Nat
          /\ worker.code[rec.module] \in Nat /\ worker'.code[rec.module] \in Nat
        BY <1>1, <2>1, Versions DEF Files
    <2>3. /\ disk[rec.module] <= disk'[rec.module]
          /\ worker.code[rec.module] <= worker'.code[rec.module]
        BY <2>1 DEF AtMost
    <2>4. /\ rec.pc \in After => rec.wrote <= disk[rec.module]
          /\ Settled(rec) => rec.wrote <= worker.code[rec.module]
        BY <1>2 DEF OnwardOf
    <2>. QED  BY <2>2, <2>3, <2>4
<1>3. ASSUME rec.pc \in {"hash", "list", "restart", "record"}, rec.content # None
      PROVE  AtMost(rec.content, disk') /\ (rec.wrote # None => rec.wrote <= rec.content[rec.module])
    BY <1>1, <1>3, AtMostTrans DEF OnwardOf
<1>4. ASSUME rec.pc = "record"
      PROVE  AtMost(rec.content, worker'.code)
    <2>1. rec.content \in Files
        BY <1>1, <1>4 DEF ShapeOf
    <2>. QED  BY <1>1, <1>4, <2>1, AtMostTrans DEF OnwardOf
<1>. QED  BY <1>2, <1>3, <1>4 DEF OnwardOf, Settled, After


\* A step of one request keeps the invariant when what it leaves is in order for
\* that request, and what the others found moves on only.
LEMMA StepKeeps ==
    ASSUME DeployInv, NEW r \in Requests, NEW rec \in Request, reqs' = [reqs EXCEPT ![r] = rec], ShapeOf(rec),
           disk' \in Files, latest' \in Files, \A m \in Modules : disk'[m] <= latest'[m],
           loaded' \in {None} \union Files, {owed', reverted', mixed'} \subseteq BOOLEAN,
           worker' \in [running : BOOLEAN, code : Files], faults' \in 0..MaxFaults,
           ~mixed' => /\ \A q \in Requests : q # r => reqs[q] = Idle
                      /\ Recorded' /\ CalmOf(rec)',
           ~reverted' => /\ ~reverted
                         /\ AtMost(disk, disk') /\ AtMost(worker.code, worker'.code)
                         /\ InOrder' /\ OnwardOf(rec)'
    PROVE  DeployInv'
<1>1. TypeOK /\ \A q \in Requests : ShapeOf(reqs[q])
    BY DEF DeployInv, TypeInv
<1>2. reqs'[r] = rec /\ \A q \in Requests : q # r => reqs'[q] = reqs[q]
    BY <1>1 DEF TypeOK
<1>3. TypeInv'
    <2>1. \A q \in Requests : ShapeOf(reqs'[q])
        BY <1>1, <1>2
    <2>2. \A q \in Requests : reqs'[q].pc \in {"restart", "record"} => reqs'[q].content # None
        BY <2>1 DEF ShapeOf
    <2>3. reqs' \in [Requests -> Request]
        BY <1>1 DEF TypeOK
    <2>4. (\A q \in Requests : ShapeOf(reqs[q]))'
        BY <2>1 DEF ShapeOf
    <2>. QED  BY <2>2, <2>3, <2>4 DEF TypeInv, TypeOK
<1>4. Calm'
    <2>. SUFFICES ASSUME ~mixed' PROVE Alone' /\ Recorded' /\ \A q \in Requests : CalmOf(reqs[q])'
        BY DEF Calm
    <2>1. \A q \in Requests : q # r => reqs'[q] = Idle
        BY <1>2
    <2>2. Alone'
        BY <2>1 DEF Alone, Idle
    <2>3. ASSUME NEW q \in Requests PROVE CalmOf(reqs[q])'
        <3>1. CASE q = r
            BY <1>2, <3>1 DEF CalmOf, Settled
        <3>2. CASE q # r
            <4>1. reqs'[q].pc = "idle" /\ reqs'[q].wrote = None /\ ~reqs'[q].kept
                BY <2>1, <3>2, IdleRecord
            <4>. QED  BY <4>1 DEF CalmOf, Settled, After
        <3>. QED  BY <3>1, <3>2
    <2>. QED  BY <2>2, <2>3
<1>5. Onward'
    <2>. SUFFICES ASSUME ~reverted' PROVE InOrder' /\ \A q \in Requests : OnwardOf(reqs[q])'
        BY DEF Onward
    <2>1. ~reverted /\ \A q \in Requests : OnwardOf(reqs[q])
        BY DEF DeployInv, Onward
    <2>2. worker'.code \in Files
        OBVIOUS
    <2>3. ASSUME NEW q \in Requests PROVE OnwardOf(reqs[q])'
        <3>1. PICK x \in Request : x = reqs'[q]
            BY <1>3 DEF TypeInv, TypeOK
        <3>2. OnwardOf(x)'
            <4>1. CASE q = r
                BY <1>2, <3>1, <4>1
            <4>2. CASE q # r
                <5>1. x = reqs[q] /\ ShapeOf(x) /\ OnwardOf(x)
                    BY <1>1, <1>2, <2>1, <3>1, <4>2
                <5>. QED  BY <1>1, <2>2, <5>1, OnwardKept
            <4>. QED  BY <4>1, <4>2
        <3>. QED  BY <3>1, <3>2 DEF OnwardOf, Settled
    <2>. QED  BY <2>3
<1>. QED  BY <1>3, <1>4, <1>5 DEF DeployInv

\* A module is given a content: what is on disk moves on unless a content comes back.
LEMMA WriteEffect ==
    ASSUME TypeOK, NEW m \in Modules, NEW v \in Version, Write(m, v)
    PROVE  /\ disk' \in Files /\ latest' \in Files /\ \A x \in Modules : disk'[x] <= latest'[x]
           /\ disk'[m] = v /\ reverted' \in BOOLEAN
           /\ ~reverted' => ~reverted /\ (disk = latest => disk' = latest' /\ AtMost(disk, disk'))
<1>1. /\ disk \in Files /\ latest \in Files /\ reverted \in BOOLEAN
      /\ disk' = [disk EXCEPT ![m] = v]
      /\ latest' = [latest EXCEPT ![m] = IF v > latest[m] THEN v ELSE latest[m]]
      /\ reverted' = (reverted \/ (v # disk[m] /\ v <= latest[m]))
    BY DEF TypeOK, Write
<1>2. /\ disk'[m] = v /\ latest'[m] = IF v > latest[m] THEN v ELSE latest[m]
      /\ \A x \in Modules : x # m => disk'[x] = disk[x] /\ latest'[x] = latest[x]
      /\ disk' \in Files /\ latest' \in Files /\ reverted' \in BOOLEAN
    BY <1>1 DEF Files
<1>3. v \in Nat /\ \A x \in Modules : disk[x] \in Nat /\ latest[x] \in Nat /\ disk[x] <= latest[x]
    BY <1>1, Versions DEF TypeOK, Files
<1>4. \A x \in Modules : disk'[x] <= latest'[x]
    BY <1>2, <1>3
<1>5. ASSUME ~reverted' PROVE ~reverted /\ (disk = latest => disk' = latest' /\ AtMost(disk, disk'))
    <2>1. ~reverted /\ (v = disk[m] \/ v > latest[m])
        <3>1. ~reverted /\ ~(v # disk[m] /\ v <= latest[m])
            BY <1>1, <1>5, Zenon
        <3>2. v \in Nat /\ latest[m] \in Nat
            BY <1>3
        <3>. QED  BY <3>1, <3>2
    <2>2. disk = latest => \A x \in Modules : disk'[x] = latest'[x] /\ disk[x] <= disk'[x]
        BY <1>2, <1>3, <2>1
    <2>. QED  BY <1>2, <2>1, <2>2 DEF AtMost, Files
<1>. QED  BY <1>2, <1>4, <1>5

LEMMA OthersIdle ==
    ASSUME DeployInv, ~mixed, NEW r \in Requests, reqs[r] # Idle
    PROVE  \A q \in Requests : q # r => reqs[q] = Idle
BY DEF DeployInv, Calm, Alone

\* A step of a request that writes a module.
LEMMA WritingKeeps ==
    ASSUME DeployInv, NEW r \in Requests, reqs[r] # Idle, NEW rec \in Request, reqs' = [reqs EXCEPT ![r] = rec],
           ShapeOf(rec), rec.pc \in {"idle", "restore", "written"},
           NEW m \in Modules, NEW v \in Version, Write(m, v),
           rec.wrote # None => rec.module = m /\ rec.wrote = v,
           rec.kept => rec.module = m /\ rec.was = v,
           UNCHANGED <<records, worker, mixed>>, faults' \in 0..MaxFaults
    PROVE  DeployInv'
<1>1. TypeOK /\ disk \in Files /\ latest \in Files /\ worker.code \in Files
    BY DEF DeployInv, TypeInv, TypeOK
<1>2. /\ disk' \in Files /\ latest' \in Files /\ \A x \in Modules : disk'[x] <= latest'[x]
      /\ disk'[m] = v /\ reverted' \in BOOLEAN
      /\ ~reverted' => ~reverted /\ (disk = latest => disk' = latest' /\ AtMost(disk, disk'))
    BY <1>1, WriteEffect
<1>3. UNCHANGED <<loaded, owed, worker, mixed>>
    BY DEF records
<1>4. ~mixed' => /\ \A q \in Requests : q # r => reqs[q] = Idle
                 /\ Recorded' /\ CalmOf(rec)'
    <2>. SUFFICES ASSUME ~mixed PROVE (\A q \in Requests : q # r => reqs[q] = Idle) /\ Recorded' /\ CalmOf(rec)'
        BY <1>3
    <2>1. Recorded'
        BY <1>3 DEF DeployInv, Calm, Recorded
    <2>2. CalmOf(rec)'
        BY <1>2 DEF CalmOf, Settled
    <2>. QED  BY <2>1, <2>2, OthersIdle
<1>5. ~reverted' => /\ ~reverted
                    /\ AtMost(disk, disk') /\ AtMost(worker.code, worker'.code)
                    /\ InOrder' /\ OnwardOf(rec)'
    <2>. SUFFICES ASSUME ~reverted'
                  PROVE  /\ ~reverted
                         /\ AtMost(disk, disk') /\ AtMost(worker.code, worker'.code)
                         /\ InOrder' /\ OnwardOf(rec)'
        OBVIOUS
    <2>1. ~reverted /\ InOrder
        BY <1>2 DEF DeployInv, Onward
    <2>2. disk' = latest' /\ AtMost(disk, disk')
        BY <1>2, <2>1 DEF InOrder
    <2>3. AtMost(worker.code, worker'.code) /\ AtMost(worker'.code, disk')
        BY <1>1, <1>2, <1>3, <2>1, <2>2, AtMostTrans, AtMostSelf DEF InOrder
    <2>4. InOrder'
        BY <1>3, <2>1, <2>2, <2>3 DEF InOrder, AtMost
    <2>5. OnwardOf(rec)'
        <3>1. v <= v
            BY Versions
        <3>. QED  BY <1>2, <3>1 DEF OnwardOf, Settled
    <2>. QED  BY <2>1, <2>2, <2>3, <2>4, <2>5
<1>6. /\ loaded' \in {None} \union Files /\ {owed', reverted', mixed'} \subseteq BOOLEAN
      /\ worker' \in [running : BOOLEAN, code : Files]
    BY <1>1, <1>2, <1>3 DEF TypeOK
<1>. QED  BY <1>2, <1>4, <1>5, <1>6, StepKeeps

\* A step of a request that writes none: the worker keeps its code or loads what
\* is there.
LEMMA CodeKeeps ==
    ASSUME DeployInv, NEW r \in Requests, NEW rec \in Request, reqs' = [reqs EXCEPT ![r] = rec], ShapeOf(rec),
           UNCHANGED files, loaded' \in {None} \union Files, owed' \in BOOLEAN, mixed' \in BOOLEAN,
           worker' \in [running : BOOLEAN, code : {worker.code, disk}], faults' \in 0..MaxFaults,
           ~mixed' => ~mixed /\ (reqs[r] # Idle \/ Busy = {}) /\ Recorded' /\ CalmOf(rec)',
           ~reverted => (loaded' # None => AtMost(loaded', worker'.code)) /\ OnwardOf(rec)'
    PROVE  DeployInv'
<1>1. TypeOK /\ disk \in Files /\ latest \in Files /\ worker.code \in Files /\ reverted \in BOOLEAN
    BY DEF DeployInv, TypeInv, TypeOK
<1>2. disk' = disk /\ latest' = latest /\ reverted' = reverted
    BY DEF files
<1>3. worker' \in [running : BOOLEAN, code : Files] /\ worker'.code \in {worker.code, disk}
    BY <1>1
<1>4. ~mixed' => /\ \A q \in Requests : q # r => reqs[q] = Idle
                 /\ Recorded' /\ CalmOf(rec)'
    BY OthersIdle DEF Busy
<1>5. ~reverted' => /\ ~reverted
                    /\ AtMost(disk, disk') /\ AtMost(worker.code, worker'.code)
                    /\ InOrder' /\ OnwardOf(rec)'
    <2>. SUFFICES ASSUME ~reverted
                  PROVE  /\ AtMost(disk, disk') /\ AtMost(worker.code, worker'.code)
                         /\ InOrder' /\ OnwardOf(rec)'
        BY <1>2
    <2>1. InOrder
        BY DEF DeployInv, Onward
    <2>2. AtMost(disk, disk') /\ AtMost(worker.code, worker'.code) /\ AtMost(worker'.code, disk')
        BY <1>1, <1>2, <1>3, <2>1, AtMostSelf DEF InOrder
    <2>3. InOrder'
        BY <1>2, <2>1, <2>2 DEF InOrder, AtMost
    <2>. QED  BY <2>2, <2>3
<1>6. {owed', reverted', mixed'} \subseteq BOOLEAN /\ \A m \in Modules : disk'[m] <= latest'[m]
    BY <1>1, <1>2 DEF TypeOK
<1>. QED  BY <1>1, <1>2, <1>3, <1>4, <1>5, <1>6, StepKeeps

----------------------------------------------------------------------------
(* Each action keeps the invariant *)

LEMMA Typed ==
    ASSUME DeployInv
    PROVE  /\ TypeOK /\ disk \in Files /\ latest \in Files /\ worker.code \in Files /\ worker.running \in BOOLEAN
           /\ worker \in [running : BOOLEAN, code : {worker.code, disk}]
           /\ loaded \in {None} \union Files /\ owed \in BOOLEAN /\ mixed \in BOOLEAN
           /\ faults \in 0..MaxFaults /\ (Fault => faults' \in 0..MaxFaults)
           /\ \A r \in Requests : reqs[r] \in Request /\ ShapeOf(reqs[r])
<1>1. TypeOK /\ \A r \in Requests : ShapeOf(reqs[r])
    BY DEF DeployInv, TypeInv
<1>2. faults \in 0..MaxFaults /\ (Fault => faults' \in 0..MaxFaults)
    BY <1>1, BoundsAssumption DEF TypeOK, Fault
<1>3. worker \in [running : BOOLEAN, code : {worker.code, disk}]
    BY <1>1 DEF TypeOK
<1>. QED  BY <1>1, <1>2, <1>3 DEF TypeOK

\* What the invariant gives of a request in progress.
LEMMA Given ==
    ASSUME DeployInv, NEW r \in Requests
    PROVE  /\ ~mixed => Recorded /\ CalmOf(reqs[r])
           /\ ~reverted => InOrder /\ OnwardOf(reqs[r]) /\ (loaded # None => AtMost(loaded, worker.code))
BY DEF DeployInv, Calm, Onward, InOrder

LEMMA BeginKeeps ==
    ASSUME DeployInv, NEW r \in Requests,
           BeginEnv(r) \/ \E m \in Modules, kind \in {"function", "hook"} : Begin(r, kind, m)
    PROVE  DeployInv'
<1>1. /\ UNCHANGED files /\ UNCHANGED <<loaded, owed, worker, faults>>
      /\ mixed' = (mixed \/ Busy # {})
    BY DEF BeginEnv, Begin, records
<1>2. \E rec \in Request :
          /\ reqs' = [reqs EXCEPT ![r] = rec] /\ ShapeOf(rec) /\ rec.pc \in {"write", "written"}
          /\ rec.wrote = None /\ ~rec.kept
    <2>1. CASE BeginEnv(r)
        <3>. DEFINE rec == [Idle EXCEPT !.kind = "env", !.pc = "written"]
        <3>1. rec \in Request /\ ShapeOf(rec) /\ rec.pc = "written" /\ rec.wrote = None /\ ~rec.kept
            BY DEF Idle, Request, ShapeOf
        <3>. QED  BY <2>1, <3>1 DEF BeginEnv, Step
    <2>2. ASSUME NEW m \in Modules, NEW kind \in {"function", "hook"}, Begin(r, kind, m)
          PROVE  \E rec \in Request :
                     /\ reqs' = [reqs EXCEPT ![r] = rec] /\ ShapeOf(rec) /\ rec.pc \in {"write", "written"}
                     /\ rec.wrote = None /\ ~rec.kept
        <3>. DEFINE rec == [Idle EXCEPT !.kind = kind, !.pc = "write", !.module = m,
                                !.was = IF kind = "hook" THEN disk[m] ELSE None]
        <3>1. disk[m] \in Version
            BY Typed DEF Files
        <3>2. rec \in Request /\ ShapeOf(rec) /\ rec.pc = "write" /\ rec.wrote = None /\ ~rec.kept
            BY <3>1 DEF Idle, Request, ShapeOf
        <3>. QED  BY <2>2, <3>2 DEF Begin, Step
    <2>. QED  BY <2>1, <2>2
<1>3. PICK rec \in Request :
          /\ reqs' = [reqs EXCEPT ![r] = rec] /\ ShapeOf(rec) /\ rec.pc \in {"write", "written"}
          /\ rec.wrote = None /\ ~rec.kept
    BY <1>2
<1>4. CalmOf(rec)' /\ OnwardOf(rec)'
    BY <1>3 DEF CalmOf, OnwardOf, Settled
<1>5. mixed' \in BOOLEAN /\ (~mixed' => ~mixed /\ Busy = {} /\ Recorded')
    BY <1>1, Given DEF Recorded
<1>6. ~reverted => (loaded' # None => AtMost(loaded', worker'.code))
    BY <1>1, Given DEF AtMost
<1>7. /\ loaded' \in {None} \union Files /\ owed' \in BOOLEAN /\ faults' \in 0..MaxFaults
      /\ worker' \in [running : BOOLEAN, code : {worker.code, disk}]
    BY <1>1, Typed
<1>. QED  BY <1>1, <1>3, <1>4, <1>5, <1>6, <1>7, CodeKeeps

LEMMA WriteModuleKeeps ==
    ASSUME DeployInv, NEW r \in Requests, WriteModule(r)
    PROVE  DeployInv'
<1>. PICK m : m = reqs[r].module
    OBVIOUS
<1>1. /\ reqs[r] \in Request /\ ShapeOf(reqs[r]) /\ reqs[r].pc = "write" /\ reqs[r] # Idle
      /\ m \in Modules /\ ~reqs[r].kept /\ reqs[r].kind # "env"
    BY Typed, IdleRecord DEF WriteModule, ShapeOf
<1>2. PICK v \in Version : Write(m, v) /\ Step(r, [reqs[r] EXCEPT !.pc = "written", !.wrote = v, !.was = None])
    BY DEF WriteModule, Contents
<1>3. PICK rec \in Request : /\ reqs' = [reqs EXCEPT ![r] = rec] /\ rec.pc = "written"
                             /\ rec.module = m /\ rec.wrote = v /\ rec.kind # "env" /\ ~rec.kept
    <2>. DEFINE rec == [reqs[r] EXCEPT !.pc = "written", !.wrote = v, !.was = None]
    <2>1. /\ rec \in Request /\ rec.pc = "written" /\ rec.module = m /\ rec.wrote = v
          /\ rec.kind # "env" /\ ~rec.kept
        BY <1>1 DEF Request
    <2>. QED  BY <1>2, <2>1 DEF Step
<1>4. UNCHANGED <<records, worker, mixed>> /\ faults' \in 0..MaxFaults
    BY Typed DEF WriteModule
<1>5. ShapeOf(rec)
    BY <1>1, <1>3 DEF ShapeOf
<1>. QED  BY <1>1, <1>2, <1>3, <1>4, <1>5, WritingKeeps

LEMMA WriteFailsKeeps ==
    ASSUME DeployInv, NEW r \in Requests, WriteFails(r)
    PROVE  DeployInv'
<1>. PICK m : m = reqs[r].module
    OBVIOUS
<1>1. /\ reqs[r] \in Request /\ ShapeOf(reqs[r]) /\ reqs[r].pc = "write" /\ reqs[r] # Idle
      /\ m \in Modules /\ ~reqs[r].kept /\ reqs[r].wrote = None /\ reqs[r].kind # "env"
    BY Typed, IdleRecord DEF WriteFails, ShapeOf
<1>2. PICK v \in Version : Write(m, v)
    <2>1. disk[m] \in Version
        BY <1>1, Typed DEF Files
    <2>. QED  BY <2>1 DEF WriteFails, Contents
<1>3. PICK rec \in Request : /\ reqs' = [reqs EXCEPT ![r] = rec] /\ rec.pc \in {"idle", "restore"}
                             /\ ShapeOf(rec) /\ rec.wrote = None /\ ~rec.kept
    <2>1. CASE reqs[r].kind = "hook"
        <3>1. /\ [reqs[r] EXCEPT !.pc = "restore"] \in Request /\ [reqs[r] EXCEPT !.pc = "restore"].pc = "restore"
              /\ ShapeOf([reqs[r] EXCEPT !.pc = "restore"]) /\ [reqs[r] EXCEPT !.pc = "restore"].wrote = None
              /\ ~[reqs[r] EXCEPT !.pc = "restore"].kept
            BY <1>1, <2>1 DEF Request, ShapeOf
        <3>. QED  BY <2>1, <3>1 DEF WriteFails, Go, Step
    <2>2. CASE reqs[r].kind # "hook"
        BY <2>2, IdleRecord DEF WriteFails, Fail, Step
    <2>. QED  BY <2>1, <2>2
<1>4. UNCHANGED <<records, worker, mixed>> /\ faults' \in 0..MaxFaults
    BY Typed DEF WriteFails
<1>. QED  BY <1>1, <1>2, <1>3, <1>4, WritingKeeps

LEMMA RestoreHookKeeps ==
    ASSUME DeployInv, NEW r \in Requests, RestoreHook(r)
    PROVE  DeployInv'
<1>. PICK m, v : m = reqs[r].module /\ v = reqs[r].was
    OBVIOUS
<1>1. /\ reqs[r] \in Request /\ ShapeOf(reqs[r]) /\ reqs[r].pc = "restore" /\ reqs[r] # Idle
      /\ m \in Modules /\ v \in Version /\ ~reqs[r].kept /\ reqs[r].wrote = None
    BY Typed, IdleRecord DEF RestoreHook, ShapeOf
<1>2. UNCHANGED <<records, worker, mixed>> /\ faults' \in 0..MaxFaults
    BY Typed DEF RestoreHook, NoFault
<1>3. CASE Write(m, v) /\ Step(r, [reqs[r] EXCEPT !.pc = "written", !.kept = TRUE])
    <2>1. PICK rec \in Request : /\ reqs' = [reqs EXCEPT ![r] = rec] /\ rec.pc = "written"
                                 /\ rec.wrote = None /\ rec.module = m /\ rec.was = v /\ ShapeOf(rec)
        <3>. DEFINE rec == [reqs[r] EXCEPT !.pc = "written", !.kept = TRUE]
        <3>1. rec \in Request /\ rec.pc = "written" /\ rec.wrote = None /\ rec.module = m /\ rec.was = v
            BY <1>1 DEF Request
        <3>2. ShapeOf(rec)
            BY <1>1, <3>1 DEF ShapeOf
        <3>. QED  BY <1>3, <3>1, <3>2 DEF Step
    <2>. QED  BY <1>1, <1>2, <1>3, <2>1, WritingKeeps
<1>4. CASE Go(r, "written") /\ UNCHANGED files
    <2>1. PICK rec \in Request : /\ reqs' = [reqs EXCEPT ![r] = rec] /\ rec.pc = "written"
                                 /\ rec.wrote = None /\ ~rec.kept /\ ShapeOf(rec)
        <3>. DEFINE rec == [reqs[r] EXCEPT !.pc = "written"]
        <3>1. rec \in Request /\ rec.pc = "written" /\ rec.wrote = None /\ ~rec.kept
            BY <1>1 DEF Request
        <3>2. ShapeOf(rec)
            BY <1>1, <3>1 DEF ShapeOf
        <3>. QED  BY <1>4, <3>1, <3>2 DEF Go, Step
    <2>2. CalmOf(rec)' /\ OnwardOf(rec)'
        BY <2>1 DEF CalmOf, OnwardOf, Settled
    <2>3. /\ loaded' \in {None} \union Files /\ owed' \in BOOLEAN /\ mixed' \in BOOLEAN
          /\ worker' \in [running : BOOLEAN, code : {worker.code, disk}]
        BY <1>2, Typed DEF records
    <2>4. ~mixed' => ~mixed /\ Recorded'
        BY <1>2, Given DEF records, Recorded
    <2>5. ~reverted => (loaded' # None => AtMost(loaded', worker'.code))
        BY <1>2, Given DEF records, AtMost
    <2>. QED  BY <1>1, <1>2, <1>4, <2>1, <2>2, <2>3, <2>4, <2>5, CodeKeeps
<1>. QED  BY <1>3, <1>4 DEF RestoreHook

\* A step that only changes what its request knows.
LEMMA ThinkingKeeps ==
    ASSUME DeployInv, NEW r \in Requests, reqs[r] # Idle, NEW rec \in Request, reqs' = [reqs EXCEPT ![r] = rec],
           ShapeOf(rec), UNCHANGED <<files, loaded, worker, mixed>>,
           owed' \in BOOLEAN, owed => owed', faults' \in 0..MaxFaults,
           ~mixed => CalmOf(rec)', ~reverted => OnwardOf(rec)'
    PROVE  DeployInv'
<1>1. /\ loaded' \in {None} \union Files /\ mixed' \in BOOLEAN
      /\ worker' \in [running : BOOLEAN, code : {worker.code, disk}]
    BY Typed
<1>2. ~mixed' => ~mixed /\ Recorded' /\ CalmOf(rec)'
    BY Given DEF Recorded
<1>3. ~reverted => (loaded' # None => AtMost(loaded', worker'.code)) /\ OnwardOf(rec)'
    BY Given DEF AtMost
<1>. QED  BY <1>1, <1>2, <1>3, CodeKeeps

LEMMA EnsureKeeps ==
    ASSUME DeployInv, NEW r \in Requests, EnsureWorkerCurrent(r)
    PROVE  DeployInv'
<1>1. /\ reqs[r] \in Request /\ ShapeOf(reqs[r]) /\ reqs[r].pc = "written" /\ reqs[r] # Idle
      /\ owed \in BOOLEAN /\ faults \in 0..MaxFaults /\ disk \in Files
      /\ UNCHANGED <<files, loaded, owed, worker, mixed, faults>>
    BY Typed, IdleRecord DEF EnsureWorkerCurrent, records
<1>2. PICK hashes \in BOOLEAN, rec \in Request :
          /\ hashes <=> reqs[r].kind # "env" \/ owed
          /\ reqs' = [reqs EXCEPT ![r] = rec]
          /\ rec.pc = "hash" /\ rec.wrote = reqs[r].wrote /\ rec.module = reqs[r].module /\ rec.was = reqs[r].was
          /\ rec.kept = reqs[r].kept /\ rec.owed = owed
          /\ rec.content = IF hashes THEN disk ELSE None
          /\ rec.unread = IF hashes THEN Modules ELSE {}
    <2>. PICK hashes \in BOOLEAN : hashes = (reqs[r].kind # "env" \/ owed)
        BY <1>1
    <2>. DEFINE rec == [reqs[r] EXCEPT !.kind = "none", !.owed = owed, !.pc = "hash",
                            !.content = IF hashes THEN disk ELSE None, !.unread = IF hashes THEN Modules ELSE {}]
    <2>1. rec \in Request
        BY <1>1 DEF Request
    <2>2. reqs' = [reqs EXCEPT ![r] = rec]
        BY DEF EnsureWorkerCurrent, Step
    <2>3. /\ rec.pc = "hash" /\ rec.wrote = reqs[r].wrote /\ rec.module = reqs[r].module /\ rec.was = reqs[r].was
          /\ rec.kept = reqs[r].kept /\ rec.owed = owed
          /\ rec.content = IF hashes THEN disk ELSE None
          /\ rec.unread = IF hashes THEN Modules ELSE {}
        BY <1>1 DEF Request
    <2>. QED  BY <2>1, <2>2, <2>3
<1>3. ShapeOf(rec)
    BY <1>1, <1>2, NoneApart DEF ShapeOf
<1>4. ~mixed => CalmOf(rec)'
    <2>1. ~mixed => CalmOf(reqs[r])
        BY Given
    <2>. QED  BY <1>1, <1>2, <2>1 DEF CalmOf, Settled, files, After
<1>5. ~reverted => OnwardOf(rec)'
    <2>1. ~reverted => OnwardOf(reqs[r])
        BY Given
    <2>. QED  BY <1>1, <1>2, <2>1, AtMostSelf DEF OnwardOf, Settled, files, After
<1>. QED  BY <1>1, <1>2, <1>3, <1>4, <1>5, ThinkingKeeps

LEMMA HashKeeps ==
    ASSUME DeployInv, NEW r \in Requests, NEW m \in Modules, HashModule(r, m)
    PROVE  DeployInv'
<1>1. /\ reqs[r] \in Request /\ ShapeOf(reqs[r]) /\ reqs[r].pc = "hash" /\ reqs[r] # Idle
      /\ reqs[r].content \in Files
      /\ owed \in BOOLEAN /\ faults \in 0..MaxFaults /\ disk \in Files
      /\ UNCHANGED <<files, loaded, owed, worker, mixed, faults>>
    BY Typed, IdleRecord DEF HashModule, records, ShapeOf, Request
<1>2. PICK rec \in Request :
          /\ reqs' = [reqs EXCEPT ![r] = rec]
          /\ rec.pc = "hash" /\ rec.wrote = reqs[r].wrote /\ rec.module = reqs[r].module /\ rec.was = reqs[r].was
          /\ rec.kept = reqs[r].kept /\ rec.owed = reqs[r].owed
          /\ rec.content = [reqs[r].content EXCEPT ![m] = disk[m]]
    <2>. DEFINE rec == [reqs[r] EXCEPT !.unread = @ \ {m}, !.content[m] = disk[m]]
    <2>1. [reqs[r].content EXCEPT ![m] = disk[m]] \in Files
        BY <1>1 DEF Files
    <2>2. rec.content = [reqs[r].content EXCEPT ![m] = disk[m]]
        BY <1>1 DEF Request
    <2>3. rec \in Request
        BY <1>1, <2>1 DEF Request
    <2>4. /\ rec.pc = "hash" /\ rec.wrote = reqs[r].wrote /\ rec.module = reqs[r].module /\ rec.was = reqs[r].was
          /\ rec.kept = reqs[r].kept /\ rec.owed = reqs[r].owed
        BY <1>1 DEF Request
    <2>5. reqs' = [reqs EXCEPT ![r] = rec]
        BY DEF HashModule, Step
    <2>. QED  BY <2>2, <2>3, <2>4, <2>5
<1>3. rec.content \in Files /\ rec.content # None
    BY <1>1, <1>2, NoneApart DEF Files
<1>4. ShapeOf(rec)
    BY <1>1, <1>2, <1>3 DEF ShapeOf
<1>5. ~mixed => CalmOf(rec)'
    <2>1. ~mixed => CalmOf(reqs[r])
        BY Given
    <2>2. reqs[r].content = disk => rec.content = disk
        BY <1>1, <1>2 DEF Files
    <2>3. reqs[r].content # None
        BY <1>1, NoneApart
    <2>. QED  BY <1>1, <1>2, <2>1, <2>2, <2>3 DEF CalmOf, Settled, files, After
<1>6. ~reverted => OnwardOf(rec)'
    <2>. SUFFICES ASSUME ~reverted PROVE OnwardOf(rec)'
        OBVIOUS
    <2>1. /\ reqs[r].wrote # None => reqs[r].wrote <= disk[reqs[r].module]
          /\ AtMost(reqs[r].content, disk)
          /\ reqs[r].wrote # None => reqs[r].wrote <= reqs[r].content[reqs[r].module]
        BY <1>1, Given, NoneApart DEF OnwardOf, After
    <2>2. \A x \in Modules : rec.content[x] = IF x = m THEN disk[m] ELSE reqs[r].content[x]
        BY <1>1, <1>2 DEF Files
    <2>3. AtMost(rec.content, disk)
        <3>1. disk[m] <= disk[m]
            BY <1>1, AtMostSelf DEF AtMost
        <3>. QED  BY <2>1, <2>2, <3>1 DEF AtMost
    <2>4. rec.wrote # None => rec.wrote <= rec.content[rec.module]
        <3>1. rec.wrote # None => rec.module \in Modules
            BY <1>4 DEF ShapeOf
        <3>. QED  BY <1>2, <2>1, <2>2, <3>1
    <2>. QED  BY <1>1, <1>2, <2>1, <2>3, <2>4 DEF OnwardOf, Settled, files, AtMost
<1>. QED  BY <1>1, <1>2, <1>4, <1>5, <1>6, ThinkingKeeps

LEMMA DecideKeeps ==
    ASSUME DeployInv, NEW r \in Requests, Decide(r)
    PROVE  DeployInv'
<1>1. /\ reqs[r] \in Request /\ ShapeOf(reqs[r]) /\ reqs[r].pc = "hash" /\ reqs[r] # Idle
      /\ owed \in BOOLEAN /\ faults \in 0..MaxFaults /\ disk \in Files
      /\ UNCHANGED <<files, loaded, worker, mixed, faults>>
    BY Typed, IdleRecord DEF Decide
<1>2. PICK stale \in BOOLEAN, rec \in Request :
          /\ stale <=> reqs[r].owed \/ (reqs[r].content # None /\ reqs[r].content # loaded)
          /\ owed' = (owed \/ stale)
          /\ reqs' = [reqs EXCEPT ![r] = rec]
          /\ rec.pc = "list" /\ rec.wrote = reqs[r].wrote /\ rec.module = reqs[r].module /\ rec.was = reqs[r].was
          /\ rec.kept = reqs[r].kept /\ rec.stale = stale
          /\ rec.content = IF stale THEN reqs[r].content ELSE None
    <2>. PICK stale \in BOOLEAN : stale = (reqs[r].owed \/ (reqs[r].content # None /\ reqs[r].content # loaded))
        BY <1>1 DEF Request
    <2>. DEFINE rec == [reqs[r] EXCEPT !.owed = FALSE, !.stale = stale, !.pc = "list",
                            !.content = IF stale THEN @ ELSE None]
    <2>1. rec \in Request
        BY <1>1 DEF Request
    <2>2. reqs' = [reqs EXCEPT ![r] = rec] /\ owed' = (owed \/ stale)
        BY DEF Decide, Step
    <2>3. /\ rec.pc = "list" /\ rec.wrote = reqs[r].wrote /\ rec.module = reqs[r].module /\ rec.was = reqs[r].was
          /\ rec.kept = reqs[r].kept /\ rec.stale = stale
          /\ rec.content = IF stale THEN reqs[r].content ELSE None
        BY <1>1 DEF Request
    <2>. QED  BY <2>1, <2>2, <2>3
<1>3. owed' \in BOOLEAN /\ (owed => owed') /\ (stale => owed')
    BY <1>1, <1>2
<1>4. ShapeOf(rec)
    BY <1>1, <1>2 DEF ShapeOf
<1>5. reqs[r].wrote # None /\ ~stale => ~reqs[r].owed /\ reqs[r].content = loaded /\ reqs[r].content # None
    BY <1>1, <1>2 DEF ShapeOf
<1>6. ~mixed => CalmOf(rec)'
    <2>. SUFFICES ASSUME ~mixed PROVE CalmOf(rec)'
        OBVIOUS
    <2>1. Recorded /\ CalmOf(reqs[r])
        BY Given
    <2>2. /\ rec.wrote # None => disk[rec.module] = rec.wrote
          /\ rec.kept => disk[rec.module] = rec.was
        BY <1>1, <1>2, <2>1 DEF CalmOf, After
    <2>3. stale => rec.content = disk
        BY <1>1, <1>2, <2>1 DEF CalmOf, ShapeOf
    <2>4. ~stale /\ rec.wrote # None => worker.code = disk
        BY <1>1, <1>2, <1>5, <2>1 DEF CalmOf, Recorded
    <2>. QED  BY <1>1, <1>2, <1>3, <2>2, <2>3, <2>4 DEF CalmOf, Settled, files
<1>7. ~reverted => OnwardOf(rec)'
    <2>. SUFFICES ASSUME ~reverted PROVE OnwardOf(rec)'
        OBVIOUS
    <2>1. InOrder /\ OnwardOf(reqs[r])
        BY Given
    <2>2. rec.wrote # None => rec.wrote <= disk[rec.module]
        BY <1>1, <1>2, <2>1 DEF OnwardOf, After
    <2>3. rec.content # None => AtMost(rec.content, disk) /\ (rec.wrote # None => rec.wrote <= rec.content[rec.module])
        BY <1>1, <1>2, <2>1 DEF OnwardOf
    <2>4. ASSUME ~stale, rec.wrote # None PROVE rec.wrote <= worker.code[rec.module]
        <3>1. loaded \in Files /\ rec.wrote <= loaded[rec.module] /\ AtMost(loaded, worker.code)
            BY <1>1, <1>2, <1>5, <2>1, <2>4, Typed DEF OnwardOf, InOrder
        <3>2. rec.module \in Modules /\ rec.wrote \in Version
            BY <1>4, <2>4 DEF ShapeOf, Request
        <3>3. rec.wrote \in Nat /\ loaded[rec.module] \in Nat /\ worker.code[rec.module] \in Nat
            BY <3>1, <3>2, Typed, Versions DEF Files
        <3>4. loaded[rec.module] <= worker.code[rec.module]
            BY <3>1, <3>2 DEF AtMost
        <3>. QED  BY <3>1, <3>3, <3>4
    <2>. QED  BY <1>1, <1>2, <2>2, <2>3, <2>4 DEF OnwardOf, Settled, files, AtMost
<1>. QED  BY <1>1, <1>2, <1>3, <1>4, <1>6, <1>7, ThinkingKeeps

\* A request goes on to a later point with all it knows.
LEMMA GoRecord ==
    ASSUME NEW rec \in Request, NEW pc \in {"restart", "record", "start", "answered"},
           NEW gone, gone = [rec EXCEPT !.pc = pc]
    PROVE  /\ gone \in Request /\ gone.pc = pc
           /\ gone.wrote = rec.wrote /\ gone.module = rec.module /\ gone.was = rec.was /\ gone.kept = rec.kept
           /\ gone.stale = rec.stale /\ gone.content = rec.content
BY DEF Request

\* The request is answered, with success or an error; the worker may have loaded
\* what is there.
LEMMA FailKeeps ==
    ASSUME DeployInv, NEW r \in Requests, reqs[r] # Idle, Fail(r), UNCHANGED <<files, records, mixed>>,
           worker' \in [running : BOOLEAN, code : {worker.code, disk}],
           ~mixed => worker'.code = worker.code \/ owed, faults' \in 0..MaxFaults
    PROVE  DeployInv'
<1>1. Idle \in Request /\ reqs' = [reqs EXCEPT ![r] = Idle] /\ ShapeOf(Idle) /\ CalmOf(Idle)' /\ OnwardOf(Idle)'
    BY IdleRecord DEF Fail, Step, CalmOf, OnwardOf, Settled, After
<1>2. loaded' \in {None} \union Files /\ owed' \in BOOLEAN /\ mixed' \in BOOLEAN
    BY Typed DEF records
<1>3. ~mixed' => ~mixed /\ Recorded'
    BY Given DEF records, Recorded
<1>4. ~reverted => (loaded' # None => AtMost(loaded', worker'.code))
    <2>. SUFFICES ASSUME ~reverted, loaded # None PROVE AtMost(loaded, worker'.code)
        BY DEF records, AtMost
    <2>1. loaded \in Files /\ worker.code \in Files /\ disk \in Files
        BY Typed
    <2>2. AtMost(loaded, worker.code) /\ AtMost(worker.code, disk)
        BY Given DEF InOrder
    <2>3. worker'.code \in {worker.code, disk}
        OBVIOUS
    <2>. QED  BY <2>1, <2>2, <2>3, AtMostTrans
<1>. QED  BY <1>1, <1>2, <1>3, <1>4, CodeKeeps

LEMMA AnswerKeeps ==
    ASSUME DeployInv, NEW r \in Requests, Answer(r)
    PROVE  DeployInv'
<1>1. /\ reqs[r] # Idle /\ Fail(r) /\ UNCHANGED <<files, records, mixed>> /\ worker' = worker
      /\ worker \in [running : BOOLEAN, code : {worker.code, disk}] /\ faults' \in 0..MaxFaults
    BY Typed, IdleRecord DEF Answer
<1>. QED  BY <1>1, FailKeeps

LEMMA ListKeeps ==
    ASSUME DeployInv, NEW r \in Requests, ListWorker(r)
    PROVE  DeployInv'
<1>1. /\ reqs[r] \in Request /\ ShapeOf(reqs[r]) /\ reqs[r].pc = "list" /\ reqs[r] # Idle
      /\ UNCHANGED <<files, records, loaded, owed, worker, mixed>> /\ faults' \in 0..MaxFaults
      /\ worker \in [running : BOOLEAN, code : {worker.code, disk}] /\ owed \in BOOLEAN
    BY Typed, IdleRecord DEF ListWorker, records, NoFault
<1>2. CASE Fail(r)
    BY <1>1, <1>2, FailKeeps
<1>3. ASSUME NEW pc \in {"restart", "start", "answered"}, Go(r, pc), pc = "restart" <=> reqs[r].stale
      PROVE  DeployInv'
    <2>1. PICK rec : rec = [reqs[r] EXCEPT !.pc = pc]
        OBVIOUS
    <2>2. /\ rec \in Request /\ rec.pc = pc
          /\ rec.wrote = reqs[r].wrote /\ rec.module = reqs[r].module /\ rec.was = reqs[r].was /\ rec.kept = reqs[r].kept
          /\ rec.stale = reqs[r].stale /\ rec.content = reqs[r].content
        BY <1>1, <2>1, GoRecord
    <2>3. reqs' = [reqs EXCEPT ![r] = rec]
        BY <1>3, <2>1 DEF Go, Step
    <2>4. ShapeOf(rec)
        BY <1>1, <1>3, <2>2 DEF ShapeOf
    <2>5. Settled(rec) <=> Settled(reqs[r])
        BY <1>1, <1>3, <2>2 DEF Settled
    <2>6. ~mixed => CalmOf(rec)'
        <3>1. ~mixed => CalmOf(reqs[r])
            BY Given
        <3>. QED  BY <1>1, <1>3, <2>2, <2>5, <3>1 DEF CalmOf, Settled, files, After
    <2>7. ~reverted => OnwardOf(rec)'
        <3>1. ~reverted => OnwardOf(reqs[r])
            BY Given
        <3>. QED  BY <1>1, <1>3, <2>2, <2>5, <3>1 DEF OnwardOf, Settled, files, After, AtMost
    <2>. QED  BY <1>1, <2>2, <2>3, <2>4, <2>6, <2>7, ThinkingKeeps
<1>4. reqs[r].stale \in BOOLEAN
    BY <1>1 DEF Request
<1>. QED  BY <1>2, <1>3, <1>4 DEF ListWorker

LEMMA RestartKeeps ==
    ASSUME DeployInv, NEW r \in Requests, RestartWorker(r)
    PROVE  DeployInv'
<1>1. /\ reqs[r] \in Request /\ ShapeOf(reqs[r]) /\ reqs[r].pc = "restart" /\ reqs[r] # Idle
      /\ reqs[r].content \in Files
      /\ UNCHANGED <<files, records, loaded, owed, mixed>> /\ faults' \in 0..MaxFaults
      /\ disk \in Files /\ worker.code \in Files /\ owed \in BOOLEAN /\ mixed \in BOOLEAN
      /\ loaded \in {None} \union Files
    BY Typed, IdleRecord DEF RestartWorker, records, NoFault, ShapeOf, Request
<1>2. ~mixed => Recorded /\ CalmOf(reqs[r])
    BY Given
<1>3. CASE worker' = [running |-> TRUE, code |-> disk] /\ Go(r, "record")
    <2>1. PICK rec : rec = [reqs[r] EXCEPT !.pc = "record"]
        OBVIOUS
    <2>2. /\ rec \in Request /\ rec.pc = "record"
          /\ rec.wrote = reqs[r].wrote /\ rec.module = reqs[r].module /\ rec.was = reqs[r].was /\ rec.kept = reqs[r].kept
          /\ rec.stale = reqs[r].stale /\ rec.content = reqs[r].content
        BY <1>1, <2>1, GoRecord
    <2>3. reqs' = [reqs EXCEPT ![r] = rec]
        BY <1>3, <2>1 DEF Go, Step
    <2>4. ShapeOf(rec)
        BY <1>1, <2>2 DEF ShapeOf
    <2>5. ~mixed => CalmOf(rec)' /\ Recorded'
        BY <1>1, <1>2, <1>3, <2>2 DEF CalmOf, Settled, files, After, Recorded
    <2>6. ~reverted => OnwardOf(rec)' /\ (loaded' # None => AtMost(loaded', worker'.code))
        <3>. SUFFICES ASSUME ~reverted PROVE OnwardOf(rec)' /\ (loaded # None => AtMost(loaded, disk))
            BY <1>1, <1>3 DEF AtMost
        <3>1. OnwardOf(reqs[r]) /\ AtMost(worker.code, disk) /\ (loaded # None => AtMost(loaded, worker.code))
            BY Given DEF InOrder
        <3>2. reqs[r].content # None
            BY <1>1, NoneApart
        <3>3. OnwardOf(rec)'
            BY <1>1, <1>3, <2>2, <3>1, <3>2 DEF OnwardOf, Settled, files, After, AtMost
        <3>. QED  BY <1>1, <3>1, <3>3, AtMostTrans
    <2>7. worker' \in [running : BOOLEAN, code : {worker.code, disk}]
        BY <1>3
    <2>. QED  BY <1>1, <2>2, <2>3, <2>4, <2>5, <2>6, <2>7, CodeKeeps
<1>4. CASE /\ worker' \in {worker, [worker EXCEPT !.running = FALSE], [running |-> TRUE, code |-> disk]}
           /\ Fail(r)
    <2>1. worker' \in [running : BOOLEAN, code : {worker.code, disk}]
        <3>1. worker \in [running : BOOLEAN, code : {worker.code, disk}]
            BY Typed
        <3>2. [worker EXCEPT !.running = FALSE] \in [running : BOOLEAN, code : {worker.code, disk}]
            BY <3>1
        <3>3. [running |-> TRUE, code |-> disk] \in [running : BOOLEAN, code : {worker.code, disk}]
            OBVIOUS
        <3>. QED  BY <1>4, <3>1, <3>2, <3>3
    <2>2. ~mixed => owed
        BY <1>1, <1>2 DEF CalmOf
    <2>. QED  BY <1>1, <1>4, <2>1, <2>2, FailKeeps
<1>. QED  BY <1>3, <1>4 DEF RestartWorker

LEMMA RecordKeeps ==
    ASSUME DeployInv, NEW r \in Requests, RecordLoaded(r)
    PROVE  DeployInv'
<1>1. /\ reqs[r] \in Request /\ ShapeOf(reqs[r]) /\ reqs[r].pc = "record" /\ reqs[r] # Idle
      /\ reqs[r].content \in Files /\ loaded' = reqs[r].content /\ owed' = FALSE
      /\ UNCHANGED <<files, worker, mixed>> /\ faults' \in 0..MaxFaults
      /\ worker \in [running : BOOLEAN, code : {worker.code, disk}]
      /\ disk \in Files /\ worker.code \in Files /\ mixed \in BOOLEAN
    BY Typed, IdleRecord DEF RecordLoaded, ShapeOf, Request
<1>2. PICK rec : rec = [reqs[r] EXCEPT !.pc = "answered"]
    OBVIOUS
<1>3. /\ rec \in Request /\ rec.pc = "answered"
      /\ rec.wrote = reqs[r].wrote /\ rec.module = reqs[r].module /\ rec.was = reqs[r].was /\ rec.kept = reqs[r].kept
      /\ rec.stale = reqs[r].stale /\ rec.content = reqs[r].content
    BY <1>1, <1>2, GoRecord
<1>4. reqs' = [reqs EXCEPT ![r] = rec]
    BY <1>2 DEF RecordLoaded, Go, Step
<1>5. ShapeOf(rec)
    BY <1>1, <1>3 DEF ShapeOf
<1>6. ~mixed => CalmOf(rec)' /\ Recorded'
    <2>1. ~mixed => CalmOf(reqs[r])
        BY Given
    <2>. QED  BY <1>1, <1>3, <2>1 DEF CalmOf, Settled, files, After, Recorded
<1>7. ~reverted => OnwardOf(rec)' /\ AtMost(loaded', worker'.code)
    <2>. SUFFICES ASSUME ~reverted PROVE OnwardOf(rec)' /\ AtMost(loaded', worker'.code)
        OBVIOUS
    <2>1. /\ AtMost(reqs[r].content, worker.code)
          /\ reqs[r].wrote # None => reqs[r].wrote <= disk[reqs[r].module]
          /\ reqs[r].wrote # None => reqs[r].wrote <= reqs[r].content[reqs[r].module]
        BY <1>1, Given, NoneApart DEF OnwardOf, After
    <2>2. AtMost(loaded', worker'.code)
        BY <1>1, <2>1 DEF AtMost
    <2>3. ASSUME rec.wrote # None PROVE rec.wrote <= worker.code[rec.module]
        <3>1. rec.module \in Modules /\ rec.wrote \in Version
            BY <1>3, <1>5, <2>3 DEF ShapeOf, Request
        <3>2. /\ rec.wrote \in Nat /\ reqs[r].content[rec.module] \in Nat /\ worker.code[rec.module] \in Nat
            BY <1>1, <3>1, Versions DEF Files
        <3>3. /\ rec.wrote <= reqs[r].content[rec.module]
              /\ reqs[r].content[rec.module] <= worker.code[rec.module]
            BY <1>3, <2>1, <2>3, <3>1 DEF AtMost
        <3>. QED  BY <3>2, <3>3
    <2>4. OnwardOf(rec)'
        BY <1>1, <1>3, <2>1, <2>3 DEF OnwardOf, Settled, files, After
    <2>. QED  BY <2>2, <2>4
<1>. QED  BY <1>1, <1>3, <1>4, <1>5, <1>6, <1>7, CodeKeeps

\* The worker is there, started and loading what is there, when it was not.
LEMMA StartedEffect ==
    ASSUME DeployInv, Started
    PROVE  /\ worker' \in [running : BOOLEAN, code : {worker.code, disk}] /\ mixed' \in BOOLEAN
           /\ mixed => mixed'
           /\ ~mixed' => worker'.code = worker.code \/ (disk = loaded /\ worker'.code = disk)
<1>1. /\ worker \in [running : BOOLEAN, code : {worker.code, disk}]
      /\ worker' = IF worker.running THEN worker ELSE [running |-> TRUE, code |-> disk]
      /\ mixed' = (mixed \/ disk # loaded) /\ mixed \in BOOLEAN
    BY Typed DEF Started
<1>. QED  BY <1>1

LEMMA StartKeeps ==
    ASSUME DeployInv, NEW r \in Requests, StartWorker(r)
    PROVE  DeployInv'
<1>1. /\ reqs[r] \in Request /\ ShapeOf(reqs[r]) /\ reqs[r].pc = "start" /\ reqs[r] # Idle
      /\ UNCHANGED <<files, records, loaded, owed>> /\ faults' \in 0..MaxFaults
      /\ worker \in [running : BOOLEAN, code : {worker.code, disk}]
      /\ disk \in Files /\ worker.code \in Files /\ loaded \in {None} \union Files /\ owed \in BOOLEAN
    BY Typed, IdleRecord DEF StartWorker, NoFault, records
<1>2. CASE UNCHANGED <<worker, mixed>> /\ Fail(r)
    BY <1>1, <1>2, FailKeeps
<1>3. CASE Started /\ Go(r, "answered")
    <2>1. /\ worker' \in [running : BOOLEAN, code : {worker.code, disk}] /\ mixed' \in BOOLEAN
          /\ mixed => mixed'
          /\ ~mixed' => worker'.code = worker.code \/ (disk = loaded /\ worker'.code = disk)
        BY <1>3, StartedEffect
    <2>2. PICK rec : rec = [reqs[r] EXCEPT !.pc = "answered"]
        OBVIOUS
    <2>3. /\ rec \in Request /\ rec.pc = "answered"
          /\ rec.wrote = reqs[r].wrote /\ rec.module = reqs[r].module /\ rec.was = reqs[r].was /\ rec.kept = reqs[r].kept
          /\ rec.stale = reqs[r].stale /\ rec.content = reqs[r].content
        BY <1>1, <2>2, GoRecord
    <2>4. reqs' = [reqs EXCEPT ![r] = rec]
        BY <1>3, <2>2 DEF Go, Step
    <2>5. ShapeOf(rec)
        BY <1>1, <2>3 DEF ShapeOf
    <2>6. ~mixed' => CalmOf(rec)' /\ Recorded'
        <3>1. ~mixed => CalmOf(reqs[r]) /\ Recorded
            BY Given
        <3>. QED  BY <1>1, <2>1, <2>3, <3>1 DEF CalmOf, Settled, files, After, Recorded
    <2>7. ~reverted => OnwardOf(rec)' /\ (loaded' # None => AtMost(loaded', worker'.code))
        <3>. SUFFICES ASSUME ~reverted PROVE OnwardOf(rec)' /\ (loaded # None => AtMost(loaded, worker'.code))
            BY <1>1 DEF AtMost
        <3>1. OnwardOf(reqs[r]) /\ AtMost(worker.code, disk) /\ (loaded # None => AtMost(loaded, worker.code))
            BY Given DEF InOrder
        <3>2. worker'.code \in {worker.code, disk}
            BY <2>1
        <3>3. reqs[r].wrote # None => /\ reqs[r].wrote <= disk[reqs[r].module]
                                      /\ reqs[r].wrote <= worker.code[reqs[r].module]
            BY <1>1, <3>1 DEF OnwardOf, Settled, After
        <3>4. OnwardOf(rec)'
            BY <1>1, <2>3, <3>2, <3>3 DEF OnwardOf, Settled, files
        <3>. QED  BY <1>1, <3>1, <3>2, <3>4, AtMostTrans
    <2>. QED  BY <1>1, <2>1, <2>3, <2>4, <2>5, <2>6, <2>7, CodeKeeps
<1>. QED  BY <1>2, <1>3 DEF StartWorker

\* A step around the requests, which it leaves as they are or ends all of.
LEMMA AroundKeeps ==
    ASSUME DeployInv, reqs' = reqs \/ reqs' = [r \in Requests |-> Idle],
           disk' \in Files, latest' \in Files, \A m \in Modules : disk'[m] <= latest'[m],
           reverted' \in BOOLEAN, mixed' \in BOOLEAN, UNCHANGED records,
           worker' \in [running : BOOLEAN, code : Files], faults' \in 0..MaxFaults,
           ~mixed' => /\ ~mixed /\ Recorded'
                      /\ \/ \A r \in Requests : reqs'[r] = Idle
                         \/ disk' = disk /\ worker'.code \in {worker.code, disk},
           ~reverted' => /\ ~reverted
                         /\ AtMost(disk, disk') /\ AtMost(worker.code, worker'.code) /\ InOrder'
    PROVE  DeployInv'
<1>1. TypeOK /\ \A r \in Requests : ShapeOf(reqs[r]) /\ reqs[r] \in Request
    BY Typed
<1>2. \A r \in Requests : reqs'[r] = reqs[r] \/ reqs'[r] = Idle
    OBVIOUS
<1>3. TypeInv'
    <2>1. \A r \in Requests : ShapeOf(reqs'[r]) /\ reqs'[r] \in Request
        BY <1>1, <1>2, IdleRecord
    <2>2. \A r \in Requests : reqs'[r].pc \in {"restart", "record"} => reqs'[r].content # None
        BY <2>1 DEF ShapeOf
    <2>3. reqs' \in [Requests -> Request]
        BY <1>1, <2>1 DEF TypeOK
    <2>4. (\A r \in Requests : ShapeOf(reqs[r]))'
        BY <2>1 DEF ShapeOf
    <2>. QED  BY <1>1, <2>2, <2>3, <2>4 DEF TypeInv, TypeOK, records
<1>4. Calm'
    <2>. SUFFICES ASSUME ~mixed' PROVE Alone' /\ Recorded' /\ \A r \in Requests : CalmOf(reqs[r])'
        BY DEF Calm
    <2>1. Alone /\ \A r \in Requests : CalmOf(reqs[r])
        BY DEF DeployInv, Calm
    <2>2. Alone'
        BY <1>2, <2>1 DEF Alone, Idle
    <2>3. ASSUME NEW r \in Requests PROVE CalmOf(reqs[r])'
        <3>1. CASE reqs'[r] = Idle
            <4>1. reqs'[r].pc = "idle" /\ reqs'[r].wrote = None /\ ~reqs'[r].kept
                BY <3>1, IdleRecord
            <4>. QED  BY <4>1 DEF CalmOf, Settled, After
        <3>2. CASE reqs'[r] = reqs[r] /\ disk' = disk /\ worker'.code \in {worker.code, disk}
            BY <2>1, <3>2 DEF CalmOf, Settled, records
        <3>. QED  BY <1>2, <3>1, <3>2
    <2>. QED  BY <2>2, <2>3
<1>5. Onward'
    <2>. SUFFICES ASSUME ~reverted' PROVE InOrder' /\ \A r \in Requests : OnwardOf(reqs[r])'
        BY DEF Onward
    <2>1. \A r \in Requests : OnwardOf(reqs[r])
        BY DEF DeployInv, Onward
    <2>2. worker'.code \in Files
        OBVIOUS
    <2>3. ASSUME NEW r \in Requests PROVE OnwardOf(reqs[r])'
        <3>1. PICK x \in Request : x = reqs'[r]
            BY <1>3 DEF TypeInv, TypeOK
        <3>2. ShapeOf(x) /\ OnwardOf(x)
            BY <1>1, <1>2, <2>1, <3>1, IdleRecord
        <3>3. OnwardOf(x)'
            BY <1>1, <2>2, <3>2, OnwardKept
        <3>. QED  BY <3>1, <3>3 DEF OnwardOf, Settled
    <2>. QED  BY <2>3
<1>. QED  BY <1>3, <1>4, <1>5 DEF DeployInv

\* The same when no file is written.
LEMMA AroundFilesKeeps ==
    ASSUME DeployInv, reqs' = reqs \/ reqs' = [r \in Requests |-> Idle],
           UNCHANGED <<files, records>>, mixed' \in BOOLEAN,
           worker' \in [running : BOOLEAN, code : {worker.code, disk}], faults' \in 0..MaxFaults,
           ~mixed' => ~mixed /\ Recorded'
    PROVE  DeployInv'
<1>1. TypeOK /\ disk \in Files /\ latest \in Files /\ worker.code \in Files /\ loaded \in {None} \union Files
    BY Typed
<1>2. disk' = disk /\ latest' = latest /\ reverted' = reverted /\ loaded' = loaded
    BY DEF files, records
<1>3. /\ disk' \in Files /\ latest' \in Files /\ \A m \in Modules : disk'[m] <= latest'[m]
      /\ reverted' \in BOOLEAN /\ UNCHANGED records
      /\ worker' \in [running : BOOLEAN, code : Files] /\ worker'.code \in {worker.code, disk}
    BY <1>1, <1>2 DEF TypeOK
<1>4. ASSUME ~reverted
      PROVE  AtMost(disk, disk') /\ AtMost(worker.code, worker'.code) /\ InOrder'
    <2>1. InOrder
        BY <1>4, Given DEF DeployInv, Onward
    <2>2. AtMost(disk, disk') /\ AtMost(worker.code, worker'.code) /\ AtMost(worker'.code, disk')
        BY <1>1, <1>2, <1>3, <2>1, AtMostSelf DEF InOrder
    <2>3. loaded # None => AtMost(loaded, worker'.code)
        BY <1>1, <1>3, <2>1, AtMostTrans DEF InOrder
    <2>. QED  BY <1>2, <2>1, <2>2, <2>3 DEF InOrder, AtMost
<1>. QED  BY <1>2, <1>3, <1>4, AroundKeeps

LEMMA CrashKeeps ==
    ASSUME DeployInv, Crash
    PROVE  DeployInv'
<1>1. /\ reqs' = [r \in Requests |-> Idle] /\ UNCHANGED <<files, records, mixed>> /\ faults' \in 0..MaxFaults
      /\ \/ worker' = worker
         \/ /\ worker' = [running |-> TRUE, code |-> disk]
            /\ \E r \in Requests : reqs[r].pc = "restart"
    BY Typed DEF Crash
<1>2. mixed \in BOOLEAN /\ worker' \in [running : BOOLEAN, code : {worker.code, disk}]
    <2>1. mixed \in BOOLEAN /\ worker \in [running : BOOLEAN, code : {worker.code, disk}]
        BY Typed
    <2>2. [running |-> TRUE, code |-> disk] \in [running : BOOLEAN, code : {worker.code, disk}]
        OBVIOUS
    <2>. QED  BY <1>1, <2>1, <2>2
<1>3. ~mixed => Recorded'
    <2>. SUFFICES ASSUME ~mixed PROVE Recorded'
        OBVIOUS
    <2>1. Recorded /\ ((\E r \in Requests : reqs[r].pc = "restart") => owed)
        BY DEF DeployInv, Calm, CalmOf
    <2>. QED  BY <1>1, <2>1 DEF Recorded, records
<1>. QED  BY <1>1, <1>2, <1>3, AroundFilesKeeps

LEMMA ExitKeeps ==
    ASSUME DeployInv, WorkerExits
    PROVE  DeployInv'
<1>1. worker \in [running : BOOLEAN, code : {worker.code, disk}] /\ mixed \in BOOLEAN
    BY Typed
<1>2. /\ UNCHANGED <<files, records, reqs, mixed>> /\ faults' \in 0..MaxFaults
      /\ worker' \in [running : BOOLEAN, code : {worker.code, disk}] /\ worker'.code = worker.code
    BY <1>1, Typed DEF WorkerExits
<1>3. ~mixed => Recorded'
    BY <1>2 DEF DeployInv, Calm, Recorded, records
<1>. QED  BY <1>1, <1>2, <1>3, AroundFilesKeeps

LEMMA UpKeeps ==
    ASSUME DeployInv, StackUp
    PROVE  DeployInv'
<1>1. UNCHANGED <<files, records, reqs>> /\ faults' \in 0..MaxFaults /\ Started
    BY Typed DEF StackUp
<1>2. /\ worker' \in [running : BOOLEAN, code : {worker.code, disk}] /\ mixed' \in BOOLEAN
      /\ mixed => mixed'
      /\ ~mixed' => worker'.code = worker.code \/ (disk = loaded /\ worker'.code = disk)
    BY <1>1, StartedEffect
<1>3. ~mixed' => ~mixed /\ Recorded'
    BY <1>1, <1>2 DEF DeployInv, Calm, Recorded, records
<1>. QED  BY <1>1, <1>2, <1>3, AroundFilesKeeps

LEMMA EditKeeps ==
    ASSUME DeployInv, NEW m \in Modules, Edit(m)
    PROVE  DeployInv'
<1>1. PICK v \in Version : Write(m, v)
    BY DEF Edit, Contents
<1>2. /\ TypeOK /\ disk \in Files /\ worker.code \in Files
      /\ UNCHANGED <<records, loaded, owed, worker, reqs>> /\ faults' \in 0..MaxFaults
      /\ mixed' = (mixed \/ Busy # {}) /\ mixed \in BOOLEAN
      /\ worker \in [running : BOOLEAN, code : Files]
    BY Typed DEF Edit, records, TypeOK
<1>3. /\ disk' \in Files /\ latest' \in Files /\ \A x \in Modules : disk'[x] <= latest'[x]
      /\ reverted' \in BOOLEAN
      /\ ~reverted' => ~reverted /\ (disk = latest => disk' = latest' /\ AtMost(disk, disk'))
    BY <1>1, <1>2, WriteEffect
<1>4. ~mixed' => ~mixed /\ Recorded' /\ \A r \in Requests : reqs'[r] = Idle
    BY <1>2 DEF DeployInv, Calm, Recorded, Busy
<1>5. ~reverted' => /\ ~reverted
                    /\ AtMost(disk, disk') /\ AtMost(worker.code, worker'.code) /\ InOrder'
    <2>. SUFFICES ASSUME ~reverted'
                  PROVE  /\ ~reverted
                         /\ AtMost(disk, disk') /\ AtMost(worker.code, worker'.code) /\ InOrder'
        OBVIOUS
    <2>1. ~reverted /\ InOrder
        BY <1>3 DEF DeployInv, Onward
    <2>2. disk' = latest' /\ AtMost(disk, disk')
        BY <1>3, <2>1 DEF InOrder
    <2>3. AtMost(worker.code, worker'.code) /\ AtMost(worker'.code, disk')
        BY <1>2, <1>3, <2>1, <2>2, AtMostTrans, AtMostSelf DEF InOrder
    <2>4. InOrder'
        BY <1>2, <2>1, <2>2, <2>3 DEF InOrder, AtMost
    <2>. QED  BY <2>1, <2>2, <2>3, <2>4
<1>6. mixed' \in BOOLEAN /\ worker' \in [running : BOOLEAN, code : Files]
    BY <1>2
<1>. QED  BY <1>2, <1>3, <1>4, <1>5, <1>6, AroundKeeps

----------------------------------------------------------------------------
(* The theorems *)

LEMMA InitDeploys == Init => DeployInv
<1>. SUFFICES ASSUME Init PROVE DeployInv
    OBVIOUS
<1>1. disk = [m \in Modules |-> 0] /\ disk \in Files /\ 0 <= 0
    BY BoundsAssumption DEF Init, Files, Version
<1>2. \A r \in Requests : reqs[r] = Idle
    BY DEF Init
<1>3. TypeInv
    <2>1. reqs \in [Requests -> Request]
        BY IdleRecord DEF Init
    <2>2. \A r \in Requests : ShapeOf(reqs[r]) /\ reqs[r].pc = "idle"
        BY <1>2, IdleRecord
    <2>3. worker \in [running : BOOLEAN, code : Files] /\ loaded \in {None} \union Files
        BY <1>1 DEF Init
    <2>4. latest = disk /\ (\A m \in Modules : disk[m] <= latest[m]) /\ {owed, reverted, mixed} \subseteq BOOLEAN
        BY <1>1 DEF Init
    <2>5. faults \in 0..MaxFaults
        BY BoundsAssumption DEF Init
    <2>. QED  BY <1>1, <2>1, <2>2, <2>3, <2>4, <2>5 DEF TypeInv, TypeOK
<1>4. Calm
    BY <1>2, IdleRecord DEF Calm, Alone, Recorded, Init
<1>5. Onward
    <2>1. InOrder
        BY <1>1, AtMostSelf DEF InOrder, Init
    <2>. QED  BY <1>2, <2>1, IdleRecord DEF Onward
<1>. QED  BY <1>3, <1>4, <1>5 DEF DeployInv

LEMMA KeepsDeploys == DeployInv /\ [Next]_vars => DeployInv'
<1>. SUFFICES ASSUME DeployInv, [Next]_vars PROVE DeployInv'
    OBVIOUS
<1>1. CASE UNCHANGED vars
    <2>1. /\ UNCHANGED <<files, records, reqs>> /\ faults' \in 0..MaxFaults /\ mixed' = mixed /\ mixed \in BOOLEAN
          /\ worker' \in [running : BOOLEAN, code : {worker.code, disk}] /\ worker' = worker
        BY <1>1, Typed DEF vars, files, records
    <2>2. ~mixed => Recorded'
        BY <2>1 DEF DeployInv, Calm, Recorded, records
    <2>. QED  BY <2>1, <2>2, AroundFilesKeeps
<1>2. ASSUME NEW r \in Requests, Deploy(r) PROVE DeployInv'
    BY <1>2, BeginKeeps, WriteModuleKeeps, WriteFailsKeeps, RestoreHookKeeps DEF Deploy
<1>3. ASSUME NEW r \in Requests, Ensure(r) PROVE DeployInv'
    BY <1>3, EnsureKeeps, HashKeeps, DecideKeeps, ListKeeps, RestartKeeps, RecordKeeps, StartKeeps, AnswerKeeps
       DEF Ensure
<1>. QED  BY <1>1, <1>2, <1>3, CrashKeeps, ExitKeeps, UpKeeps, EditKeeps DEF Next

LEMMA DeployInvariant == Spec => []DeployInv
BY InitDeploys, KeepsDeploys, PTL DEF Spec

\* Every variable keeps its shape: no version on disk is newer than the newest
\* given, and no restart is made or recorded for a content that was not hashed.
THEOREM TypeCorrect == Spec => []TypeOK
<1>1. DeployInv => TypeOK
    BY DEF DeployInv, TypeInv
<1>. QED  BY <1>1, DeployInvariant, PTL

\* ensureWorkerCurrent misses no stale worker: whatever fails, crashes or is edited,
\* if no content comes back or requests keep apart, a worker with other code than
\* the files has a restart owed or a record that differs from the files.
THEOREM StaleWorkerIsNoticed == Spec => []StaleCodeIsNoticed
<1>1. DeployInv => StaleCodeIsNoticed
    <2>. SUFFICES ASSUME DeployInv, ~(mixed /\ reverted), ~owed, loaded = disk PROVE worker.code = disk
        BY DEF StaleCodeIsNoticed
    <2>1. disk \in Files /\ worker.code \in Files /\ disk # None
        BY Typed, NoneApart
    <2>2. CASE ~mixed
        BY <2>1, <2>2 DEF DeployInv, Calm, Recorded
    <2>3. CASE ~reverted
        BY <2>1, <2>3, AtMostBoth DEF DeployInv, Onward, InOrder
    <2>. QED  BY <2>2, <2>3
<1>. QED  BY <1>1, DeployInvariant, PTL

\* A deploy answered with success has been loaded: what it wrote when it ran alone,
\* that or something newer when contents are always new.
THEOREM AnsweredIsLoaded == Spec => []AnsweredCodeIsLoaded
<1>1. DeployInv => AnsweredCodeIsLoaded
    <2>. SUFFICES ASSUME DeployInv, NEW r \in Requests, reqs[r].pc = "answered", reqs[r].wrote # None
                  PROVE  /\ ~mixed => worker.code[reqs[r].module] = reqs[r].wrote
                         /\ ~reverted => worker.code[reqs[r].module] >= reqs[r].wrote
        BY DEF AnsweredCodeIsLoaded
    <2>1. ~mixed => worker.code[reqs[r].module] = reqs[r].wrote
        BY Given DEF CalmOf, After, Settled
    <2>2. ~reverted => reqs[r].wrote <= worker.code[reqs[r].module]
        BY Given DEF OnwardOf, Settled
    <2>3. worker.code[reqs[r].module] \in Nat /\ reqs[r].wrote \in Nat
        BY Typed, Versions DEF ShapeOf, Request, Files
    <2>. QED  BY <2>1, <2>2, <2>3
<1>. QED  BY <1>1, DeployInvariant, PTL

\* A hook answered as kept is the one there was, when its deploy ran alone.
THEOREM KeptHookIsKept == Spec => []KeptHookIsAsBefore
<1>1. DeployInv => KeptHookIsAsBefore
    BY Given DEF KeptHookIsAsBefore, CalmOf
<1>. QED  BY <1>1, DeployInvariant, PTL

====
