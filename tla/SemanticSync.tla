---------------------------- MODULE SemanticSync ----------------------------
(***************************************************************************)
(* The semantic sync feeder (internal/daemon/conversation_semantic_sync.go)*)
(* and the in-process engine it feeds (internal/conversation/vectorsearch: *)
(* ingest.go, checkpoint.go).                                              *)
(*                                                                         *)
(* Every pass states the fingerprint of each indexed conversation, learns  *)
(* which ones the engine's checkpoint does not hold, loads some of them    *)
(* and upserts their documents.  Transcripts are written by other programs *)
(* at any moment, so the bytes a pass loads may be newer than the stamp it *)
(* advertises; rows and checkpoint are written one after the other; and    *)
(* all that the worker remembers is lost in a restart.                     *)
(*                                                                         *)
(* A transcript's stamp is the number of times it was written, and stands  *)
(* for the fingerprint made of it.  Stamp 0 is the zero FileStamp of a     *)
(* record that the last scan kept without being able to read its file.     *)
(* The documents of a transcript are one value, which is its own hash.     *)
(***************************************************************************)
EXTENDS Naturals, FiniteSets

CONSTANTS
    Convs,          \* conversation ids, naturals: their order is the code's order
    Texts,          \* documents a transcript may project to
    First,          \* what the transcripts hold when the daemon starts
    Bytes,          \* bound: what each transcript may be written with
    Blank,          \* a transcript without a deliverable document
    Corrupt,        \* a transcript that no load can read
    Size,           \* artifact size of each conversation
    BatchSizes,     \* what deliverybatchBytesFor may return: one size per backend
    Threshold,      \* failedLoadSuppressThreshold
    MaxWrites,      \* bound: writes and removals of transcripts, all together
    MaxFaults,      \* bound: restarts and failed reads, writes and calls, all together
    None

Contents == Texts \cup {Blank, Corrupt}
Stamps == 0..MaxWrites + 1

ASSUME SemanticAssumption ==
    /\ Convs \subseteq Nat /\ IsFiniteSet(Convs)
    /\ Blank \notin Texts /\ Corrupt \notin Texts /\ Blank # Corrupt
    /\ None \notin Contents
    /\ None \notin Nat
    /\ Size \in [Convs -> Nat]
    /\ First \in [Convs -> Contents]
    /\ Bytes \in [Convs -> SUBSET Contents]
    /\ BatchSizes \subseteq Nat
    /\ Threshold \in Nat \ {0}
    /\ MaxWrites \in Nat /\ MaxFaults \in Nat

VARIABLES
    stamp, held,    \* each transcript's stamp, and what it held at each of them
    present,    \* transcripts on disk
    cold,       \* stamps up to this one are older than the growth window
    writes, faults, \* how much of each bound is used up
    index,      \* the index's records: conversation -> stamp, None if it has none
    pc,         \* where the worker is in its pass
    listed,     \* ListWithStamps of this pass
    manifest,   \* fingerprints this pass advertises, None for omitted ones
    suppressed, \* conversations this pass omitted because their loads failed
    needed,     \* what the engine asked for
    from, queue,    \* cursor the pass started at, and what it has left to look at
    docs, bytes,    \* documents collected for the upsert, and their artifact bytes
    todo,       \* conversations the running upsert has not finished
    sent,       \* stats.sentConversations
    batchBytes, \* limit of the backend in use
    cursor,     \* deliveryCursor
    empty,      \* emptyDelivered
    failed,     \* failedLoad
    memo,       \* deliveredContent
    pin,        \* pinnedFingerprints
    rows,       \* documents in the store
    recorded,   \* checkpointStore in memory
    disk,       \* its files
    forgot      \* history: conversations whose checkpoint write failed unnoticed

envVars == <<stamp, held, present, cold, writes>>
passVars == <<listed, manifest, suppressed, needed, from, queue, docs, bytes, todo, sent>>
memoVars == <<batchBytes, cursor, empty, failed, memo, pin>>
engineVars == <<rows, recorded, disk, forgot>>
vars == <<envVars, faults, index, pc, passVars, memoVars, engineVars>>

Nothing == [c \in Convs |-> None]
NoFailure == [fp |-> None, failures |-> 0]

TypeEnv ==
    /\ stamp \in [Convs -> 1..MaxWrites + 1]
    /\ held \in [Convs -> [1..MaxWrites + 1 -> Contents \cup {None}]]
    /\ present \subseteq Convs
    /\ cold \in [Convs -> Stamps]
    /\ writes \in 0..MaxWrites /\ faults \in 0..MaxFaults
    /\ index \in [Convs -> Stamps \cup {None}]

TypePass ==
    /\ pc \in {"idle", "collect", "write", "record", "logged", "failed"}
    /\ listed \in [Convs -> Stamps \cup {None}]
    /\ manifest \in [Convs -> Stamps \cup {None}]
    /\ suppressed \subseteq Convs /\ needed \subseteq Convs
    /\ queue \subseteq needed /\ todo \subseteq needed /\ sent \subseteq needed
    /\ from \in Nat /\ bytes \in Nat
    /\ docs \in [Convs -> Texts \cup {None}]

TypeMemo ==
    /\ batchBytes \in BatchSizes /\ cursor \in Nat
    /\ empty \in [Convs -> Stamps \cup {None}]
    /\ failed \in [Convs -> [fp : Stamps \cup {None}, failures : 0..Threshold]]
    /\ memo \in [Convs -> [fp : Stamps, hash : Texts] \cup {None}]
    /\ pin \in [Convs -> [observed : Stamps, advertise : Stamps] \cup {None}]

TypeEngine ==
    /\ rows \in [Convs -> SUBSET Texts]
    /\ recorded \in [Convs -> Stamps \cup {None}]
    /\ disk \in [Convs -> Stamps \cup {None}]
    /\ forgot \subseteq Convs

TypeOK == TypeEnv /\ TypePass /\ TypeMemo /\ TypeEngine

FreshWorker ==
    /\ pc' = "idle"
    /\ listed' = Nothing /\ manifest' = Nothing /\ suppressed' = {} /\ needed' = {}
    /\ from' = 0 /\ queue' = {} /\ docs' = Nothing /\ bytes' = 0 /\ todo' = {} /\ sent' = {}
    /\ cursor' = 0 /\ empty' = Nothing /\ memo' = Nothing /\ pin' = Nothing
    /\ failed' = [c \in Convs |-> NoFailure]

Init ==
    /\ stamp = [c \in Convs |-> 1]
    /\ held = [c \in Convs |-> [s \in 1..MaxWrites + 1 |-> IF s = 1 THEN First[c] ELSE None]]
    /\ present = Convs /\ cold = [c \in Convs |-> 1]
    /\ writes = 0 /\ faults = 0
    /\ index = Nothing
    /\ pc = "idle"
    /\ listed = Nothing /\ manifest = Nothing /\ suppressed = {} /\ needed = {}
    /\ from = 0 /\ queue = {} /\ docs = Nothing /\ bytes = 0 /\ todo = {} /\ sent = {}
    /\ batchBytes \in BatchSizes
    /\ cursor = 0 /\ empty = Nothing /\ memo = Nothing /\ pin = Nothing
    /\ failed = [c \in Convs |-> NoFailure]
    /\ rows = [c \in Convs |-> {}]
    /\ recorded = Nothing /\ disk = Nothing
    /\ forgot = {}

-----------------------------------------------------------------------------
(* Transcripts and the index *)

Now(c) == held[c][stamp[c]]

\* Some program writes the transcript: other bytes, or the same under a new mtime.
Write(c, text) ==
    /\ writes < MaxWrites /\ text \in Bytes[c]
    /\ stamp' = [stamp EXCEPT ![c] = @ + 1]
    /\ held' = [held EXCEPT ![c][stamp[c] + 1] = text]
    /\ present' = present \cup {c}
    /\ writes' = writes + 1
    /\ UNCHANGED <<cold, faults, index, pc, passVars, memoVars, engineVars>>

Remove(c) ==
    /\ writes < MaxWrites /\ c \in present
    /\ present' = present \ {c}
    /\ writes' = writes + 1
    /\ UNCHANGED <<stamp, held, cold, faults, index, pc, passVars, memoVars, engineVars>>

\* A minute passes without a write.
Cool(c) ==
    /\ cold[c] # stamp[c]
    /\ cold' = [cold EXCEPT ![c] = stamp[c]]
    /\ UNCHANGED <<stamp, held, present, writes, faults, index, pc, passVars, memoVars, engineVars>>

Fault == faults < MaxFaults /\ faults' = faults + 1

Scanned == [c \in Convs |-> IF c \in present THEN stamp[c] ELSE None]

\* The index installs a scan.  A changed transcript that could not be read keeps
\* its record and loses its stamp.
Refresh ==
    /\ index # Scanned
    /\ \/ index' = Scanned /\ UNCHANGED faults
       \/ \E c \in present :
            /\ index[c] \notin {None, stamp[c]}
            /\ index' = [Scanned EXCEPT ![c] = 0]
            /\ Fault
    /\ UNCHANGED <<envVars, pc, passVars, memoVars, engineVars>>

-----------------------------------------------------------------------------
(* A pass states the manifest *)

PinHolds(c) == index[c] # None /\ pin[c] # None /\ pin[c].observed = index[c]

\* The fingerprint buildManifest arrives at, None without a record.
Advertised(c) == IF PinHolds(c) THEN pin[c].advertise ELSE index[c]

\* Mutant: an empty delivery is not remembered.
EmptyHolds_Never(c) == FALSE

EmptyHolds(c) == index[c] # None /\ empty[c] = Advertised(c)

\* Mutant: a failure outlives the bytes that failed.
FailedHolds_Sticky(c) == index[c] # None /\ failed[c].fp # None

FailedHolds(c) == index[c] # None /\ failed[c].fp = Advertised(c)

\* Mutant: one attempt too many.
Suppressed_Late == {c \in Convs : ~EmptyHolds(c) /\ FailedHolds(c) /\ failed[c].failures > Threshold}

Suppressed == {c \in Convs : ~EmptyHolds(c) /\ FailedHolds(c) /\ failed[c].failures >= Threshold}

Manifest ==
    [c \in Convs |-> IF EmptyHolds(c) \/ c \in Suppressed THEN None ELSE Advertised(c)]

\* buildManifest drops what the fingerprints, or a missing record, refute.
Prune ==
    /\ pin' = [c \in Convs |-> IF PinHolds(c) THEN pin[c] ELSE None]
    /\ empty' = [c \in Convs |-> IF EmptyHolds(c) THEN empty[c] ELSE None]
    /\ failed' = [c \in Convs |-> IF EmptyHolds(c) \/ FailedHolds(c) THEN failed[c] ELSE NoFailure]
    /\ memo' = [c \in Convs |-> IF index[c] # None THEN memo[c] ELSE None]

\* checkpointStore.needed
Needed(m) == {c \in Convs : m[c] # None /\ recorded[c] # m[c]}

\* Mutant: what was suppressed is not counted back in.
Pending_Needed == Cardinality(needed \ sent)

\* publish: SearchFreshness.Pending, from the stats of a pass that is logged.
Pending == Cardinality(needed \ sent) + Cardinality(suppressed)

\* runPass up to the answer of SyncConversationManifest.  A pass that finds the
\* engine unreachable ends here and changes nothing.
BeginPass ==
    /\ pc = "idle"
    /\ Prune
    /\ listed' = index
    /\ manifest' = Manifest
    /\ suppressed' = Suppressed
    /\ from' = cursor /\ docs' = Nothing /\ bytes' = 0 /\ todo' = {} /\ sent' = {}
    /\ \/ /\ needed' = Needed(Manifest)
          /\ queue' = Needed(Manifest)
          /\ UNCHANGED faults
          /\ pc' = IF needed' = {} THEN "logged" ELSE "collect"
       \/ /\ Fault
          /\ needed' = {} /\ queue' = {}
          /\ pc' = "failed"
    /\ UNCHANGED <<envVars, index, cursor, batchBytes, engineVars>>

-----------------------------------------------------------------------------
(* It collects documents *)

\* rotateAfter: ids after the cursor first, then the others, ascending.
NextInLine(c) ==
    /\ c \in queue
    /\ \A d \in queue : IF c > from THEN d > from => c <= d ELSE d <= from /\ c <= d

Growing(c) == listed[c] > cold[c]
NoDocs == docs = Nothing
OverBudget(c) == ~NoDocs /\ bytes + Size[c] > batchBytes

\* A transcript still being written is put off.
Defer(c) ==
    /\ pc = "collect" /\ NextInLine(c) /\ Growing(c)
    /\ queue' = queue \ {c}
    /\ UNCHANGED <<envVars, faults, index, pc, listed, manifest, suppressed, needed,
                   from, docs, bytes, todo, sent, memoVars, engineVars>>

\* The batch is full before c is loaded.
Full(c) ==
    /\ pc = "collect" /\ NextInLine(c) /\ ~Growing(c) /\ OverBudget(c)
    /\ queue' = {}
    /\ UNCHANGED <<envVars, faults, index, pc, listed, manifest, suppressed, needed,
                   from, docs, bytes, todo, sent, memoVars, engineVars>>

Admitted(c) == pc = "collect" /\ NextInLine(c) /\ ~Growing(c) /\ ~OverBudget(c)

\* recordLoadFailure
FailureAt(c) ==
    [fp |-> listed[c], failures |-> IF failed[c].fp = listed[c] THEN failed[c].failures + 1 ELSE 1]

Readable(c) == c \in present /\ Now(c) # Corrupt

LoadFails(c) ==
    /\ Admitted(c)
    /\ \/ ~Readable(c) /\ UNCHANGED faults
       \/ Readable(c) /\ Fault
    /\ failed' = [failed EXCEPT ![c] = FailureAt(c)]
    /\ queue' = queue \ {c}
    /\ UNCHANGED <<envVars, index, pc, listed, manifest, suppressed, needed, from, docs,
                   bytes, todo, sent, batchBytes, cursor, empty, memo, pin, engineVars>>

\* Mutant: a stamp that moved is enough.
Unchanged_Stamp(c, text) == memo[c] # None /\ memo[c].fp # listed[c]

\* The documents are those the store was given under another stamp.
Unchanged(c, text) == memo[c] # None /\ memo[c].hash = text /\ memo[c].fp # listed[c]

\* The transcript as it is now, whatever stamp was listed, is projected.
Load(c) ==
    /\ Admitted(c)
    /\ Readable(c)
    /\ failed' = [failed EXCEPT ![c] = NoFailure]
    /\ \/ /\ Now(c) = Blank
          /\ empty' = [empty EXCEPT ![c] = listed[c]]
          /\ queue' = queue \ {c}
          /\ UNCHANGED <<pin, cursor, docs, bytes>>
       \/ /\ Now(c) # Blank /\ Unchanged(c, Now(c))
          /\ pin' = [pin EXCEPT ![c] = [observed |-> listed[c], advertise |-> memo[c].fp]]
          /\ cursor' = c
          /\ queue' = queue \ {c}
          /\ UNCHANGED <<empty, docs, bytes>>
       \/ /\ Now(c) # Blank /\ ~Unchanged(c, Now(c))
          /\ docs' = [docs EXCEPT ![c] = Now(c)]
          /\ bytes' = bytes + Size[c]
          /\ cursor' = c
          /\ queue' = IF bytes' >= batchBytes THEN {} ELSE queue \ {c}
          /\ UNCHANGED <<empty, pin>>
    /\ UNCHANGED <<envVars, faults, index, pc, listed, manifest, suppressed, needed, from,
                   todo, sent, batchBytes, memo, engineVars>>

EndCollect ==
    /\ pc = "collect" /\ queue = {}
    /\ pc' = IF NoDocs THEN "logged" ELSE "write"
    /\ todo' = {c \in Convs : docs[c] # None}
    /\ UNCHANGED <<envVars, faults, index, listed, manifest, suppressed, needed, from, queue,
                   docs, bytes, sent, memoVars, engineVars>>

-----------------------------------------------------------------------------
(* The engine takes the documents, one conversation after the other *)

Foremost(c) == c \in todo /\ \A d \in todo : c <= d

\* embedAndWrite
WriteRows(c) ==
    /\ pc = "write" /\ Foremost(c)
    /\ rows' = [rows EXCEPT ![c] = @ \cup {docs[c]}]
    /\ pc' = "record"
    /\ UNCHANGED <<envVars, faults, index, passVars, memoVars, recorded, disk, forgot>>

\* The call returns an error, before or after rows of the conversation were written.
UpsertFails ==
    /\ pc \in {"write", "record"}
    /\ Fault
    /\ todo' = {}
    /\ pc' = "logged"
    /\ UNCHANGED <<envVars, index, listed, manifest, suppressed, needed, from, queue, docs,
                   bytes, sent, memoVars, engineVars>>

\* The call returns: sendDocuments remembers every delivery.
Accept ==
    /\ memo' = [d \in Convs |-> IF docs[d] # None THEN [fp |-> listed[d], hash |-> docs[d]] ELSE memo[d]]
    /\ sent' = {d \in Convs : docs[d] # None}
    /\ pc' = "logged"

\* checkpointStore.record, which tells nobody when it could not write its file.
Record(c) ==
    /\ pc = "record" /\ Foremost(c)
    /\ \/ /\ disk' = [disk EXCEPT ![c] = manifest[c]]
          /\ recorded' = [recorded EXCEPT ![c] = manifest[c]]
          /\ UNCHANGED <<faults, forgot>>
       \/ /\ Fault
          /\ forgot' = forgot \cup {c}
          /\ UNCHANGED <<disk, recorded>>
    /\ todo' = todo \ {c}
    /\ IF todo' = {} THEN Accept ELSE pc' = "write" /\ UNCHANGED <<memo, sent>>
    /\ UNCHANGED <<envVars, index, listed, manifest, suppressed, needed, from, queue, docs,
                   bytes, batchBytes, cursor, empty, failed, pin, rows>>

\* The locals of runPass go.
FinishPass ==
    /\ pc \in {"logged", "failed"}
    /\ pc' = "idle"
    /\ listed' = Nothing /\ manifest' = Nothing /\ suppressed' = {} /\ needed' = {}
    /\ from' = 0 /\ queue' = {} /\ docs' = Nothing /\ bytes' = 0 /\ todo' = {} /\ sent' = {}
    /\ UNCHANGED <<envVars, faults, index, memoVars, engineVars>>

\* A new generation: the worker starts afresh and loads the checkpoint files it
\* can read.
Restart ==
    /\ Fault
    /\ FreshWorker
    /\ \/ recorded' = disk
       \/ \E c \in Convs : disk[c] # None /\ recorded' = [disk EXCEPT ![c] = None]
    /\ UNCHANGED <<envVars, index, batchBytes, rows, disk, forgot>>

Pass ==
    \/ BeginPass
    \/ \E c \in Convs : Defer(c) \/ Full(c) \/ LoadFails(c) \/ Load(c) \/ WriteRows(c) \/ Record(c)
    \/ EndCollect
    \/ UpsertFails
    \/ FinishPass

Next ==
    \/ Pass
    \/ Refresh
    \/ Restart
    \/ \E c \in Convs : Cool(c) \/ Remove(c)
    \/ \E c \in Convs, text \in Contents : Write(c, text)

Spec == Init /\ [][Next]_vars

\* The ticker starts passes for as long as the daemon lives, the index refreshes
\* periodically, and time passes.
Fairness ==
    /\ WF_vars(Pass)
    /\ WF_vars(Refresh)
    /\ \A c \in Convs : WF_vars(Cool(c))

FairSpec == Spec /\ Fairness

-----------------------------------------------------------------------------
(* Properties *)

\* Conversation c has in the store what its transcript held at stamp s or later.
Stored(c, s) == \E t \in 1..stamp[c] : t >= s /\ held[c][t] \in rows[c]
WasBlank(c, s) == \E t \in 1..stamp[c] : t >= s /\ held[c][t] = Blank

\* What the feeder keeps from the engine, or the engine counts as satisfied, is
\* really in the store or really blank: neither a pin, a remembered empty delivery
\* nor a checkpoint ever hides bytes that were not delivered, although transcripts
\* are written between the listing and the load, passes fail half-way and workers
\* restart (buildManifest, collectNeededDocuments, checkpointStore.needed).
NothingHidden ==
    \A c \in Convs : index[c] # None =>
        /\ recorded[c] = Advertised(c) => Stored(c, index[c])
        /\ EmptyHolds(c) => WasBlank(c, index[c])

\* Freshness never calls a cold index warm: when a pass publishes that nothing is
\* pending, every conversation it listed is stored as it was when listed, or later,
\* or had nothing to store (publish).
PendingIsHonest ==
    pc = "logged" /\ Pending = 0 =>
        \A c \in Convs : listed[c] # None => Stored(c, listed[c]) \/ WasBlank(c, listed[c])

\* Once transcripts are left alone each one is stored, unless it is blank, cannot be
\* read, or was given up as failing, whatever failed on the way and however small the
\* batches are (runPass, rotateAfter).
Given(c) == failed[c].fp = Advertised(c) /\ failed[c].failures >= Threshold
EventuallyStored ==
    \A c \in Convs : <>[](c \in present => \/ Now(c) \in rows[c] \cup {Blank}
                                           \/ Given(c))

\* The feeder comes to rest: passes end up finding nothing needed, and so reading no
\* transcript, except where a failed checkpoint write went unnoticed
\* (emptyDelivered, failedLoad, pinnedFingerprints).
ComesToRest == <>[](needed \subseteq forgot)
=============================================================================
