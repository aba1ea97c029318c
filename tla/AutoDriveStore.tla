--------------------------- MODULE AutoDriveStore ---------------------------
(***************************************************************************)
(* The permanent tier of the Store seam: a chain of content-addressed      *)
(* nodes per key, with the newest node's CID in a head index               *)
(* (packages/npc-agent/src/store/auto-drive-store.ts).  set() awaits three *)
(* calls - read the head, upload the node, write the head - so the steps   *)
(* of concurrent calls interleave.  A node carries its upload time, so two *)
(* uploads have different CIDs; a CID is the position of its node in the   *)
(* order of upload.  get() and history() read the head once and then nodes *)
(* that never change: they see the chain at the moment of that one read.   *)
(***************************************************************************)
EXTENDS Naturals, Sequences

CONSTANTS
    Keys,       \* <<scope, key>> addresses
    Values,     \* stored values
    Writers,    \* those that may run a set() at the same time
    Missing,    \* what get() returns for a key without a head
    Faults,     \* TRUE: the DSN and the head index may fail, done or not
    MaxNodes    \* bound: nodes uploaded in one behaviour

VARIABLES
    nodes,    \* uploaded nodes, oldest first: value v and previous CID p
    head,     \* key -> CID of its newest node, NoCid without one
    writer    \* writer -> the call of set() it runs, or how its last one ended

driveVars == <<nodes, head, writer>>

NoCid == 0
Cids == 0..MaxNodes

\* The awaits of set(), in order; "ok" and "failed" are its outcomes.
Running == {"readHead", "upload", "writeHead"}
Stages == Running \cup {"idle", "ok", "failed"}
IdleWriter == [stage |-> "idle", key |-> Missing, value |-> Missing,
               prev |-> NoCid, cid |-> NoCid]

DriveTypeOK ==
    /\ nodes \in Seq([v: Values, p: Cids])
    /\ Len(nodes) <= MaxNodes
    /\ head \in [Keys -> 0..Len(nodes)]
    /\ writer \in [Writers -> [stage: Stages, key: Keys \cup {Missing},
                               value: Values \cup {Missing},
                               prev: Cids, cid: Cids]]

DriveInit ==
    /\ nodes = <<>>
    /\ head = [k \in Keys |-> NoCid]
    /\ writer = [w \in Writers |-> IdleWriter]

(***************************************************************************)
(* set()                                                                   *)
(***************************************************************************)
\* writer' when w enters set(key, value).
Calling(w, k, v) ==
    [writer EXCEPT ![w] = [stage |-> "readHead", key |-> k, value |-> v,
                           prev |-> NoCid, cid |-> NoCid]]

ReadHead(w) ==
    /\ writer[w].stage = "readHead"
    /\ writer' = [writer EXCEPT ![w].stage = "upload",
                                ![w].prev = head[writer[w].key]]
    /\ UNCHANGED <<nodes, head>>

\* Faulty variant: the uploaded node does not link the previous one.
UploadUnlinked(w) ==
    /\ writer[w].stage = "upload"
    /\ Len(nodes) < MaxNodes
    /\ nodes' = Append(nodes, [v |-> writer[w].value, p |-> NoCid])
    /\ writer' = [writer EXCEPT ![w].stage = "writeHead",
                                ![w].cid = Len(nodes) + 1]
    /\ UNCHANGED head

Upload(w) ==
    /\ writer[w].stage = "upload"
    /\ Len(nodes) < MaxNodes
    /\ nodes' = Append(nodes, [v |-> writer[w].value, p |-> writer[w].prev])
    /\ writer' = [writer EXCEPT ![w].stage = "writeHead",
                                ![w].cid = Len(nodes) + 1]
    /\ UNCHANGED head

WriteHead(w) ==
    /\ writer[w].stage = "writeHead"
    /\ head' = [head EXCEPT ![writer[w].key] = writer[w].cid]
    /\ \E outcome \in {"ok", "failed"} :
        /\ outcome = "failed" => Faults   \* written, and the answer is lost
        /\ writer' = [writer EXCEPT ![w].stage = outcome]
    /\ UNCHANGED nodes

\* An awaited call rejects without an effect that a reader could see: an
\* uploaded node whose head is never written is not part of any chain.
SetFails(w) ==
    /\ Faults
    /\ writer[w].stage \in Running
    /\ writer' = [writer EXCEPT ![w].stage = "failed"]
    /\ UNCHANGED <<nodes, head>>

SetStep(w) == ReadHead(w) \/ Upload(w) \/ WriteHead(w) \/ SetFails(w)

\* delete() drops the head; the nodes stay.
DropHead(k) ==
    /\ head' = [head EXCEPT ![k] = NoCid]
    /\ UNCHANGED <<nodes, writer>>

(***************************************************************************)
(* What readers see                                                        *)
(***************************************************************************)
ValueAt(k) == IF head[k] = NoCid THEN Missing ELSE nodes[head[k]].v

\* The CIDs of the chain that ends at each CID, oldest first.
Chains ==
    LET chain[c \in 0..Len(nodes)] ==
            IF c = NoCid THEN <<>> ELSE Append(chain[nodes[c].p], c)
    IN  chain

\* history(), reversed: the values of a key, oldest first.
History(k) ==
    LET chain == Chains[head[k]]
    IN  [i \in DOMAIN chain |-> nodes[chain[i]].v]

(***************************************************************************)
(* Properties                                                              *)
(***************************************************************************)
\* Each set() extends the key's history and nothing but delete() shortens
\* it: the chain a reader walks is append-only (set, delete, history).
AppendOnly ==
    [][\A k \in Keys :
        head'[k] # head[k] =>
            \/ head'[k] = NoCid
            \/ Chains[head[k]] = SubSeq(Chains'[head'[k]], 1,
                                        Len(Chains[head[k]]))]_driveVars
=============================================================================
