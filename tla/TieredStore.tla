----------------------------- MODULE TieredStore -----------------------------
(***************************************************************************)
(* A fast hot tier in memory in front of the permanent AutoDriveStore      *)
(* (packages/npc-agent/src/store/tiered-store.ts).  set() writes the hot   *)
(* tier and mirrors durable keys to the archive: at once, in the caller    *)
(* (asyncArchive FALSE), or by a queue that one background worker drains   *)
(* with retries (TRUE).  The hot tier is the in-memory store: its set      *)
(* takes effect when it is called and callers continue in that order, so   *)
(* the hot write and the enqueue are one step.  A value is the version     *)
(* number of its write.  Which keys the predicate `archived` selects is a  *)
(* parameter.  A crash loses the memory of the process and keeps the head  *)
(* index and the nodes.                                                    *)
(***************************************************************************)
EXTENDS Naturals, Sequences

CONSTANTS
    Keys,            \* <<scope, key>> addresses
    Archived,        \* keys that the predicate archived mirrors
    Callers,         \* concurrent callers of set()
    Worker,          \* the write-behind queue
    Modes,           \* values of asyncArchive to explore
    ReadThrough,     \* readThrough
    ArchiveRetries,  \* archiveRetries
    Missing,         \* null
    Faults,          \* TRUE: the archive may fail
    MaxWrites,       \* bound: calls of set()
    MaxNodes,        \* bound: nodes uploaded
    MaxCrashes       \* bound: restarts

ASSUME TieredAssumption ==
    /\ Archived \subseteq Keys
    /\ Worker \notin Callers
    /\ Modes \subseteq BOOLEAN /\ ReadThrough \in BOOLEAN
    /\ ArchiveRetries \in Nat \ {0}
    /\ MaxWrites \in Nat /\ MaxNodes \in Nat /\ MaxCrashes \in Nat
    /\ Missing \notin Nat

VARIABLES
    nodes, head, writer,  \* the archive, see AutoDriveStore
    hot,        \* key -> value in the hot tier, or Missing
    queue,      \* write-behind entries [key, value]; the worker is at the first
    attempts,   \* attempts made for the first entry
    reported,   \* entries given to onArchiveError, or whose set() rejected
    written,    \* versions given out: the last value written
    issued,     \* history: durable entries written since the last restart
    forgotten,  \* history: keys the host dropped from the archive
    crashes,    \* restarts so far
    asyncArchive  \* the option, fixed when the store is made

queueVars == <<hot, queue, attempts>>
logVars == <<written, issued, forgotten, crashes, asyncArchive>>
vars == <<nodes, head, writer, queueVars, reported, logVars>>

Versions == 1..MaxWrites
Entry == [key: Keys, value: Versions]

Archive == INSTANCE AutoDriveStore
    WITH Values <- Versions, Writers <- Callers \cup {Worker}

TypeOK ==
    /\ Archive!DriveTypeOK
    /\ hot \in [Keys -> Versions \cup {Missing}]
    /\ queue \in Seq(Entry)
    /\ attempts \in 0..ArchiveRetries
    /\ reported \subseteq Entry
    /\ written \in 0..MaxWrites
    /\ issued \subseteq Entry
    /\ forgotten \subseteq Keys
    /\ asyncArchive \in Modes
    /\ crashes \in 0..MaxCrashes

Init ==
    /\ Archive!DriveInit
    /\ hot = [k \in Keys |-> Missing]
    /\ queue = <<>>
    /\ attempts = 0
    /\ reported = {}
    /\ written = 0
    /\ issued = {}
    /\ forgotten = {}
    /\ crashes = 0
    /\ asyncArchive \in Modes

Idle(w) == writer[w].stage \notin Archive!Running

\* set().  A caller of the synchronous mode goes on into the archive's set().
Set(c, k) ==
    LET v == written + 1
        durable == k \in Archived
    IN  /\ Idle(c)
        /\ written < MaxWrites
        /\ written' = v
        /\ hot' = [hot EXCEPT ![k] = v]
        /\ queue' = IF durable /\ asyncArchive
                    THEN Append(queue, [key |-> k, value |-> v]) ELSE queue
        /\ writer' = IF durable /\ ~ asyncArchive
                     THEN Archive!Calling(c, k, v) ELSE writer
        /\ issued' = IF durable THEN issued \cup {[key |-> k, value |-> v]}
                     ELSE issued
        /\ UNCHANGED <<nodes, head, attempts, reported, forgotten, crashes,
                       asyncArchive>>

\* delete() is for the hot tier only.
Delete(k) ==
    /\ hot[k] # Missing
    /\ hot' = [hot EXCEPT ![k] = Missing]
    /\ UNCHANGED <<nodes, head, writer, queue, attempts, reported, logVars>>

\* The host drops the head pointer of a key in the archive, to forget it.
Forget(k) ==
    /\ head[k] # Archive!NoCid
    /\ k \notin forgotten   \* bound: once per key
    /\ Archive!DropHead(k)
    /\ forgotten' = forgotten \cup {k}
    /\ UNCHANGED <<queueVars, reported, written, issued, crashes, asyncArchive>>

(***************************************************************************)
(* enqueueArchive(): the entries go to the archive one at a time           *)
(***************************************************************************)
\* The first attempt for an entry, or a retry after an error.
Attempt ==
    /\ queue # <<>>
    /\ Idle(Worker)
    /\ attempts < ArchiveRetries
    /\ attempts > 0 => writer[Worker].stage = "failed"
    /\ attempts' = attempts + 1
    /\ writer' = Archive!Calling(Worker, Head(queue).key, Head(queue).value)
    /\ UNCHANGED <<nodes, head, hot, queue, reported, logVars>>

\* The first entry leaves the queue.
NextEntry(w) ==
    /\ queue' = Tail(queue)
    /\ attempts' = 0
    /\ writer' = [writer EXCEPT ![w] = Archive!IdleWriter]

Mirrored ==
    /\ writer[Worker].stage = "ok"
    /\ NextEntry(Worker)
    /\ UNCHANGED <<nodes, head, hot, reported, logVars>>

\* Faulty variant: an entry that ran out of attempts is dropped in silence.
GiveUpSilently ==
    /\ writer[Worker].stage = "failed"
    /\ attempts = ArchiveRetries
    /\ NextEntry(Worker)
    /\ UNCHANGED <<nodes, head, hot, reported, logVars>>

\* Faulty variant: an entry that ran out of attempts goes to the back.
GiveUpRequeued ==
    /\ writer[Worker].stage = "failed"
    /\ attempts = ArchiveRetries
    /\ queue' = Append(Tail(queue), Head(queue))
    /\ attempts' = 0
    /\ writer' = [writer EXCEPT ![Worker] = Archive!IdleWriter]
    /\ UNCHANGED <<nodes, head, hot, reported, logVars>>

GiveUp ==
    /\ writer[Worker].stage = "failed"
    /\ attempts = ArchiveRetries
    /\ NextEntry(Worker)
    /\ reported' = reported \cup {Head(queue)}
    /\ UNCHANGED <<nodes, head, hot, logVars>>

\* A step of the archive's set() that the queue runs.
WorkerArchives ==
    /\ Archive!SetStep(Worker)
    /\ UNCHANGED <<queueVars, reported, logVars>>

WorkerStep == Attempt \/ Mirrored \/ GiveUp \/ WorkerArchives

\* A step of the archive's set() that a caller of the synchronous mode runs: a
\* rejection is the caller's answer.
CallerArchives(c) ==
    /\ Archive!SetStep(c)
    /\ reported' = IF writer'[c].stage = "failed"
                   THEN reported \cup {[key |-> writer[c].key, value |-> writer[c].value]}
                   ELSE reported
    /\ UNCHANGED <<queueVars, logVars>>

\* The process dies; the next one starts with a cold hot tier.
Crash ==
    /\ crashes < MaxCrashes
    /\ crashes' = crashes + 1
    /\ hot' = [k \in Keys |-> Missing]
    /\ queue' = <<>>
    /\ attempts' = 0
    /\ writer' = [w \in Callers \cup {Worker} |-> Archive!IdleWriter]
    /\ issued' = {}
    /\ UNCHANGED <<nodes, head, reported, written, forgotten, asyncArchive>>

Next ==
    \/ \E c \in Callers, k \in Keys : Set(c, k)
    \/ \E k \in Keys : Delete(k) \/ Forget(k)
    \/ \E c \in Callers : CallerArchives(c)
    \/ WorkerStep
    \/ Crash

Spec == Init /\ [][Next]_vars

\* The queue's promise chain runs on, and every call to the archive returns.
FairSpec == Spec /\ WF_vars(WorkerStep)

(***************************************************************************)
(* Properties                                                              *)
(***************************************************************************)
\* get()
Read(k) ==
    IF hot[k] # Missing \/ ~ ReadThrough THEN hot[k] ELSE Archive!ValueAt(k)

Quiet == queue = <<>> /\ \A w \in Callers \cup {Worker} : Idle(w)

LastEntry(k) == [key |-> k, value |-> hot[k]]
Kept == Archived \ forgotten

\* Durable state is mirrored: when no archive write is pending, the archive
\* holds for each durable key what the hot tier holds, unless that write was
\* reported as failed - whatever the interleaving of callers, retries, lost
\* answers and restarts (set, enqueueArchive).  The state is well typed.
MirrorAgrees ==
    /\ TypeOK
    /\ Quiet => \A k \in Kept :
           hot[k] # Missing /\ LastEntry(k) \notin reported =>
               Archive!ValueAt(k) = hot[k]

\* The queue preserves order: along the permanent history of a key the values
\* never go back to an older write, even when an attempt that looked failed
\* was written and is retried (enqueueArchive, AutoDriveStore.set).
HistoryInOrder ==
    \A k \in Keys :
        LET h == Archive!History(k)
        IN  \A i, j \in DOMAIN h : i < j => h[i] <= h[j]

\* No durable write disappears: it is in the key's history, in the queue or on
\* its way, or its failure was reported (set, enqueueArchive).
NothingSilentlyLost ==
    \A e \in issued :
        \/ e.key \in forgotten
        \/ \E i \in DOMAIN queue : queue[i] = e
        \/ \E c \in Callers : /\ ~ Idle(c)
                               /\ writer[c].key = e.key
                               /\ writer[c].value = e.value
        \/ \E i \in DOMAIN Archive!History(e.key) :
               Archive!History(e.key)[i] = e.value
        \/ e \in reported

\* Once the mirror is quiet, no step makes get() return something older for
\* a durable key: not a restart that empties the hot tier, and not a delete,
\* which uncovers the archived value (get with readThrough, delete).
ReadsNeverGoBack ==
    [][\A k \in Kept \ forgotten' :
        (/\ Quiet
         /\ Read(k) # Missing
         /\ hot[k] # Missing => LastEntry(k) \notin reported) =>
            /\ Read(k)' # Missing
            /\ Read(k)' >= Read(k)]_vars

\* Under the tiered store one set() of the archive runs at a time, and then
\* its history is append-only; each set() advances the head over the last
\* node and only the host's delete() drops it (AutoDriveStore).
ArchiveAppendOnly == Archive!AppendOnly

\* The write-behind queue drains: an entry does not stay, whatever the archive
\* answers and however many writes follow (flush, enqueueArchive).
QueueDrains ==
    \A k \in Keys, v \in Versions :
        (\E i \in DOMAIN queue : queue[i] = [key |-> k, value |-> v]) ~>
            ~ (\E i \in DOMAIN queue : queue[i] = [key |-> k, value |-> v])
=============================================================================
