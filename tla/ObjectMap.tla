---- MODULE ObjectMap ----
(***************************************************************************)
(* What a bucket promises to those who read it, whatever database and      *)
(* object store are behind it: every name holds one upload or none, and a  *)
(* reader is answered with the upload it found under the name, or told it  *)
(* is missing when it was not there, when it has been replaced or removed  *)
(* since, or when the object is in doubt. An object comes to be in doubt   *)
(* in two ways only: its bucket is being emptied, or the upload that put   *)
(* it there was answered with an error.                                    *)
(***************************************************************************)
CONSTANTS Names, Uploads, Readers, None, Nothing

VARIABLES
    content,   \* the upload each name holds
    doubtful,  \* the names in doubt
    reading    \* of each reader: what it found under which name, and its answer

vars == <<content, doubtful, reading>>

Unheld == Uploads \ {content[n] : n \in Names}

Init ==
    /\ content = [n \in Names |-> None]
    /\ doubtful = {}
    /\ reading = [r \in Readers |-> Nothing]

\* An upload is there for everyone from one moment on.
Write(n, v) ==
    /\ v \in Unheld
    /\ content' = [content EXCEPT ![n] = v]
    /\ doubtful' = doubtful \ {n}
    /\ UNCHANGED reading

\* It may be there although its caller was told that it failed.
WriteUnsure(n, v) ==
    /\ v \in Unheld
    /\ content' = [content EXCEPT ![n] = v]
    /\ doubtful' = doubtful \union {n}
    /\ UNCHANGED reading

Remove(ns) ==
    /\ content' = [n \in Names |-> IF n \in ns THEN None ELSE content[n]]
    /\ doubtful' = doubtful \ ns
    /\ UNCHANGED reading

BeginEmpty(ns) ==
    /\ doubtful' = doubtful \union ns
    /\ UNCHANGED <<content, reading>>

\* An empty that failed before it had touched some of the objects.
EndDoubt(ns) ==
    /\ doubtful' = doubtful \ ns
    /\ UNCHANGED <<content, reading>>

Look(r, n) ==
    /\ reading[r] = Nothing
    /\ content[n] # None
    /\ reading' = [reading EXCEPT ![r] = [name |-> n, seen |-> content[n], told |-> "nothing"]]
    /\ UNCHANGED <<content, doubtful>>

TellBytes(r) ==
    /\ reading[r] # Nothing
    /\ reading[r].told = "nothing"
    /\ reading' = [reading EXCEPT ![r].told = "bytes"]
    /\ UNCHANGED <<content, doubtful>>

TellMissing(r) ==
    /\ reading[r] # Nothing
    /\ reading[r].told = "nothing"
    /\ content[reading[r].name] # reading[r].seen \/ reading[r].name \in doubtful
    /\ reading' = [reading EXCEPT ![r].told = "missing"]
    /\ UNCHANGED <<content, doubtful>>

\* Answered and gone, or gone without an answer.
Leave(r) ==
    /\ reading' = [reading EXCEPT ![r] = Nothing]
    /\ UNCHANGED <<content, doubtful>>

\* The service stops: every reader is gone, and an empty it was making fails.
LeaveAll(ns) ==
    /\ reading' = [r \in Readers |-> Nothing]
    /\ doubtful' = doubtful \ ns
    /\ UNCHANGED content

Next ==
    \/ \E n \in Names, v \in Uploads : Write(n, v) \/ WriteUnsure(n, v)
    \/ \E ns \in SUBSET Names : Remove(ns) \/ BeginEmpty(ns) \/ EndDoubt(ns) \/ LeaveAll(ns)
    \/ \E r \in Readers : TellBytes(r) \/ TellMissing(r) \/ Leave(r) \/ \E n \in Names : Look(r, n)

Spec == Init /\ [][Next]_vars

====
