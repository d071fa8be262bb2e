------------------------- MODULE ConversationIndex --------------------------
(***************************************************************************)
(* The conversation index (internal/conversation: index.go, scan.go,       *)
(* retained.go, index_records.go).  A process keeps the records of the     *)
(* transcripts it last scanned, and retains those of transcripts that were *)
(* deleted since.  Both are saved, in two files, one after the other; the  *)
(* processes that use them (daemon generations, commands) share the files  *)
(* and lock nothing.                                                       *)
(*                                                                         *)
(* A transcript's stamp is its version, and so is the record made of it.   *)
(* A scan looks at each transcript once, at its own moment; conversations  *)
(* are independent of one another, so Scan looks at all of them at once,   *)
(* some time after the refresh began.                                      *)
(***************************************************************************)
EXTENDS Naturals, FiniteSets

CONSTANTS
    Procs,          \* processes, in the order they may start
    Daemons,        \* those that run Index.Start; the others are commands
    Convs,
    First,          \* conversations with a transcript in the beginning
    Asked,          \* conversations that lookups name
    MaxUp,          \* bound: processes that are up at the same time
    MaxWrites,      \* bound: writes and removals of transcripts, all together
    MaxFaults,      \* bound: crashes and failed reads and writes, all together
    None

ASSUME IndexAssumption ==
    /\ Daemons \subseteq Procs /\ First \subseteq Convs /\ Asked \subseteq Convs
    /\ MaxUp \in Nat /\ MaxWrites \in Nat /\ MaxFaults \in Nat
    /\ IsFiniteSet(Procs) /\ None \notin Convs

Versions == 0..MaxWrites + 1        \* 0: none
Nothing == [c \in Convs |-> 0]
\* The cache file when it is missing, and when a write was begun and not finished.
Missing == [whole |-> TRUE, present |-> FALSE, records |-> Nothing, stamps |-> Nothing]
Torn == [whole |-> FALSE, present |-> TRUE, records |-> Nothing, stamps |-> Nothing]

VARIABLES
    version, present, bad,  \* transcripts: their stamps, which exist, which no parser can read
    writes, faults,         \* how much of each bound is used up
    cache, retainedFile,    \* the two files
    up,                     \* each process: "off", "up", "down"
    loaded, cachePresent, records, stamps, retained,    \* its Index
    pc,                     \* where its refresh is, "idle" when the slot is free
    bare,                   \* that refresh was claimed before anything was loaded
    found, marks, changed,  \* what its scan returned: records, stamps, whether they differ
    keep,                   \* what retainDropped returned
    failed,                 \* the refresh ends in an error
    asking, apc, outcome,   \* the lookup in progress, and whether the refresh it waited for failed
    steady, rebuilt, joined, missed,        \* history of the lookup, see below
    known, blind, undone            \* history of the files, see below

transcripts == <<version, present, bad, writes>>
files == <<cache, retainedFile>>
memory == <<loaded, cachePresent, records, stamps, retained>>
refresh == <<pc, bare, found, marks, changed, keep, failed>>
lookup == <<asking, apc, outcome>>
lookupHistory == <<steady, rebuilt, joined, missed>>
fileHistory == <<known, blind, undone>>
vars == <<transcripts, faults, files, up, memory, refresh, lookup, lookupHistory, fileHistory>>

Stamped == [Convs -> Versions]
TypeFiles ==
    /\ version \in Stamped /\ present \subseteq Convs /\ bad \subseteq Convs
    /\ writes \in 0..MaxWrites /\ faults \in 0..MaxFaults
    /\ cache \in [whole : BOOLEAN, present : BOOLEAN, records : Stamped, stamps : Stamped]
    /\ retainedFile \subseteq Convs
    /\ missed \subseteq Convs /\ known \subseteq Convs /\ undone \subseteq Convs /\ blind \in BOOLEAN
TypeMemory ==
    /\ up \in [Procs -> {"off", "up", "down"}]
    /\ loaded \in [Procs -> BOOLEAN] /\ cachePresent \in [Procs -> BOOLEAN]
    /\ records \in [Procs -> Stamped] /\ stamps \in [Procs -> Stamped]
    /\ retained \in [Procs -> SUBSET Convs]
TypeRefresh ==
    /\ pc \in [Procs -> {"idle", "scan", "retain", "save", "cache", "fill", "install", "end"}]
    /\ bare \in [Procs -> BOOLEAN] /\ changed \in [Procs -> BOOLEAN] /\ failed \in [Procs -> BOOLEAN]
    /\ found \in [Procs -> Stamped] /\ marks \in [Procs -> Stamped]
    /\ keep \in [Procs -> SUBSET Convs]
TypeLookup ==
    /\ asking \in [Procs -> Convs \cup {None}]
    /\ apc \in [Procs -> {"idle", "refresh", "own", "join", "ended"}]
    /\ outcome \in [Procs -> BOOLEAN] /\ steady \in [Procs -> BOOLEAN]
    /\ rebuilt \in [Procs -> BOOLEAN] /\ joined \in [Procs -> BOOLEAN]
TypeOK == TypeFiles /\ TypeMemory /\ TypeRefresh /\ TypeLookup

Init ==
    /\ version = [c \in Convs |-> IF c \in First THEN 1 ELSE 0]
    /\ present = First /\ bad = {} /\ writes = 0 /\ faults = 0
    /\ cache = Missing /\ retainedFile = {}
    /\ up = [p \in Procs |-> "off"]
    /\ loaded = [p \in Procs |-> FALSE] /\ cachePresent = [p \in Procs |-> FALSE]
    /\ records = [p \in Procs |-> Nothing] /\ stamps = [p \in Procs |-> Nothing]
    /\ retained = [p \in Procs |-> {}]
    /\ pc = [p \in Procs |-> "idle"] /\ bare = [p \in Procs |-> FALSE]
    /\ found = [p \in Procs |-> Nothing] /\ marks = [p \in Procs |-> Nothing]
    /\ changed = [p \in Procs |-> FALSE] /\ keep = [p \in Procs |-> {}]
    /\ failed = [p \in Procs |-> FALSE]
    /\ asking = [p \in Procs |-> None] /\ apc = [p \in Procs |-> "idle"]
    /\ outcome = [p \in Procs |-> FALSE]
    /\ steady = [p \in Procs |-> FALSE] /\ rebuilt = [p \in Procs |-> FALSE]
    /\ joined = [p \in Procs |-> FALSE] /\ missed = {}
    /\ known = {} /\ blind = FALSE /\ undone = {}

-----------------------------------------------------------------------------
\* A provider writes a transcript, readable or not yet, or deletes it.
Write(c, readable) ==
    /\ writes < MaxWrites /\ writes' = writes + 1
    /\ version' = [version EXCEPT ![c] = @ + 1]
    /\ present' = present \cup {c}
    /\ bad' = IF readable THEN bad \ {c} ELSE bad \cup {c}
    /\ missed' = missed \ {c}
    /\ steady' = [p \in Procs |-> steady[p] /\ asking[p] # c]
    /\ UNCHANGED <<faults, files, up, memory, refresh, lookup, rebuilt, joined, fileHistory>>

Remove(c) ==
    /\ c \in present /\ writes < MaxWrites /\ writes' = writes + 1
    /\ present' = present \ {c}
    /\ steady' = [p \in Procs |-> steady[p] /\ asking[p] # c]
    /\ UNCHANGED <<version, bad, faults, files, up, memory, refresh, lookup, rebuilt, joined,
                   missed, fileHistory>>

Fault == faults < MaxFaults /\ faults' = faults + 1

-----------------------------------------------------------------------------
\* What a process lists: visibleRecords, and what it would list after loading the files.
Ids(r) == {c \in Convs : r[c] # 0}
Served(p) == Ids(records[p]) \cup retained[p]
OnDisk == Ids(cache.records) \cup retainedFile

\* loadOnce: an error leaves the index as it is, to be loaded by a later call.
Load(p) ==
    IF loaded[p] \/ ~cache.whole
    THEN UNCHANGED <<memory, known>>
    ELSE /\ loaded' = [loaded EXCEPT ![p] = TRUE]
         /\ cachePresent' = [cachePresent EXCEPT ![p] = cache.present]
         /\ records' = [records EXCEPT ![p] = cache.records]
         /\ stamps' = [stamps EXCEPT ![p] = cache.stamps]
         /\ retained' = [retained EXCEPT ![p] = retainedFile]
         /\ known' = known \cup OnDisk

\* A process starts; a daemon loads the files and goes on without them if it cannot.
Start(p) ==
    /\ up[p] = "off" /\ Cardinality({q \in Procs : up[q] = "up"}) < MaxUp
    /\ up' = [up EXCEPT ![p] = "up"]
    /\ IF p \in Daemons THEN Load(p) ELSE UNCHANGED <<memory, known>>
    /\ UNCHANGED <<transcripts, faults, files, refresh, lookup, lookupHistory, blind, undone>>

\* One of the files cannot be read, or is of another version: Start logs it and goes on.
\* A lookup whose loadOnce fails in this way ends in an error and changes nothing.
StartUnloaded(p) ==
    /\ up[p] = "off" /\ Cardinality({q \in Procs : up[q] = "up"}) < MaxUp
    /\ up' = [up EXCEPT ![p] = "up"]
    /\ p \in Daemons /\ Fault
    /\ UNCHANGED <<transcripts, files, memory, refresh, lookup, lookupHistory, fileHistory>>

\* What a refresh leaves behind is garbage, and so is all that a dead process knew.
NoRefresh(p) ==
    /\ bare' = [bare EXCEPT ![p] = FALSE] /\ failed' = [failed EXCEPT ![p] = FALSE]
    /\ found' = [found EXCEPT ![p] = Nothing] /\ marks' = [marks EXCEPT ![p] = Nothing]
    /\ changed' = [changed EXCEPT ![p] = FALSE] /\ keep' = [keep EXCEPT ![p] = {}]
NoLookup(p) ==
    /\ asking' = [asking EXCEPT ![p] = None] /\ apc' = [apc EXCEPT ![p] = "idle"]
    /\ outcome' = [outcome EXCEPT ![p] = FALSE] /\ steady' = [steady EXCEPT ![p] = FALSE]
    /\ rebuilt' = [rebuilt EXCEPT ![p] = FALSE] /\ joined' = [joined EXCEPT ![p] = FALSE]

\* A process exits between refreshes, or dies anywhere.
Exit(p) ==
    /\ up[p] = "up"
    /\ IF pc[p] = "idle" THEN UNCHANGED faults ELSE Fault
    /\ up' = [up EXCEPT ![p] = "down"]
    /\ loaded' = [loaded EXCEPT ![p] = FALSE] /\ cachePresent' = [cachePresent EXCEPT ![p] = FALSE]
    /\ records' = [records EXCEPT ![p] = Nothing] /\ stamps' = [stamps EXCEPT ![p] = Nothing]
    /\ retained' = [retained EXCEPT ![p] = {}]
    /\ pc' = [pc EXCEPT ![p] = "idle"] /\ NoRefresh(p)
    /\ NoLookup(p)
    /\ UNCHANGED <<transcripts, files, missed, fileHistory>>

-----------------------------------------------------------------------------
\* beginRefresh: one refresh at a time.
Claim(p) ==
    /\ pc[p] = "idle"
    /\ pc' = [pc EXCEPT ![p] = "scan"]
    /\ bare' = [bare EXCEPT ![p] = ~loaded[p]]
    /\ failed' = [failed EXCEPT ![p] = FALSE]

\* refreshAsync, from the timer of Start: it claims the slot whether or not loadOnce worked.
Periodic(p) ==
    /\ p \in Daemons /\ up[p] = "up"
    /\ Claim(p)
    /\ blind' = (blind \/ ~loaded[p])
    /\ UNCHANGED <<transcripts, faults, files, up, memory, found, marks, changed, keep, lookup,
                   lookupHistory, known, undone>>

Advance(p, from, to) == pc[p] = from /\ pc' = [pc EXCEPT ![p] = to]
Fails(p, from) ==
    /\ Advance(p, from, "end")
    /\ failed' = [failed EXCEPT ![p] = TRUE]

PriorRecord(p, c) == IF bare[p] THEN 0 ELSE records[p][c]
PriorStamp(p, c) == IF bare[p] THEN 0 ELSE stamps[p][c]
Reuse_Any(p, c) == PriorStamp(p, c) # 0

Reuse(p, c) == PriorStamp(p, c) = version[c]

\* scanCandidate for every transcript, those in unread excepted, which fail to open.
ScanRecord_Restamp(p, c, unread) ==
    CASE c \notin present -> [record |-> 0, stamp |-> 0]
      [] c \in present /\ Reuse(p, c) -> [record |-> PriorRecord(p, c), stamp |-> version[c]]
      [] c \in present /\ ~Reuse(p, c) /\ c \notin bad \cup unread ->
            [record |-> version[c], stamp |-> version[c]]
      [] OTHER -> [record |-> PriorRecord(p, c), stamp |-> version[c]]

ScanRecord_Ahead(p, c, unread) ==
    IF c \in present /\ c \notin bad \cup unread
    THEN [record |-> version[c], stamp |-> version[c] + 1]
    ELSE [record |-> PriorRecord(p, c), stamp |-> 0]

ScanRecord(p, c, unread) ==
    CASE c \notin present -> [record |-> 0, stamp |-> 0]
      [] c \in present /\ Reuse(p, c) -> [record |-> PriorRecord(p, c), stamp |-> version[c]]
      [] c \in present /\ ~Reuse(p, c) /\ c \notin bad \cup unread ->
            [record |-> version[c], stamp |-> version[c]]
      [] OTHER -> [record |-> PriorRecord(p, c),
                   stamp |-> IF PriorRecord(p, c) = 0 THEN version[c] ELSE 0]

Scan(p, unread) ==
    /\ Advance(p, "scan", "retain")
    /\ found' = [found EXCEPT ![p] = [c \in Convs |-> ScanRecord(p, c, unread).record]]
    /\ marks' = [marks EXCEPT ![p] = [c \in Convs |-> ScanRecord(p, c, unread).stamp]]
    /\ changed' = [changed EXCEPT ![p] =
          \/ bare[p] \/ ~cachePresent[p]
          \/ \E c \in Convs : found'[p][c] # records[p][c] \/ marks'[p][c] # stamps[p][c]]
    /\ IF unread = {} THEN UNCHANGED faults ELSE Fault
    /\ missed' = missed \cup {c \in unread \cap present : ~Reuse(p, c) /\ PriorRecord(p, c) = 0}
    /\ UNCHANGED <<transcripts, files, up, memory, bare, keep, failed, lookup, steady, rebuilt,
                   joined, fileHistory>>

\* A provider's directory cannot be listed, or the context is cancelled.
ScanFails(p) ==
    /\ Fails(p, "scan") /\ Fault
    /\ UNCHANGED <<transcripts, files, up, memory, bare, found, marks, changed, keep, lookup,
                   lookupHistory, fileHistory>>

\* retainDropped, on the records and the retained ones of this moment.
Dropped_Forget(p) == retained[p] \ Ids(found[p])

Dropped(p) == (retained[p] \cup Ids(records[p])) \ Ids(found[p])
AfterSave(p) == IF changed[p] THEN "cache" ELSE "install"

Retain(p) ==
    /\ Advance(p, "retain", IF Dropped(p) # retained[p] THEN "save" ELSE AfterSave(p))
    /\ keep' = [keep EXCEPT ![p] = Dropped(p)]
    /\ UNCHANGED <<transcripts, faults, files, up, memory, bare, found, marks, changed, failed, lookup,
                   lookupHistory, fileHistory>>

\* writeRetained: a temporary file, renamed.
Save(p) ==
    /\ Advance(p, "save", AfterSave(p))
    /\ retainedFile' = keep[p]
    /\ undone' = (undone \cup (retainedFile \ keep[p])) \ keep[p]
    /\ UNCHANGED <<transcripts, faults, cache, up, memory, bare, found, marks, changed, keep, failed,
                   lookup, lookupHistory, known, blind>>

SaveFails(p) ==
    /\ Fails(p, "save") /\ Fault
    /\ UNCHANGED <<transcripts, files, up, memory, bare, found, marks, changed, keep, lookup,
                   lookupHistory, fileHistory>>

\* writeCache: the file is truncated and then filled.
Truncate(p) ==
    /\ Advance(p, "cache", "fill")
    /\ cache' = Torn
    /\ UNCHANGED <<transcripts, faults, retainedFile, up, memory, bare, found, marks, changed, keep,
                   failed, lookup, lookupHistory, fileHistory>>

Fill(p) ==
    /\ Advance(p, "fill", "install")
    /\ cache' = [whole |-> TRUE, present |-> TRUE, records |-> found[p], stamps |-> marks[p]]
    /\ undone' = undone \ Ids(found[p])
    /\ UNCHANGED <<transcripts, faults, retainedFile, up, memory, bare, found, marks, changed, keep,
                   failed, lookup, lookupHistory, known, blind>>

\* The file cannot be opened, or not be filled.
CacheFails(p) ==
    /\ Fails(p, "cache") \/ Fails(p, "fill")
    /\ Fault
    /\ UNCHANGED <<transcripts, files, up, memory, bare, found, marks, changed, keep, lookup,
                   lookupHistory, fileHistory>>

\* installRefreshResult
Install(p) ==
    /\ Advance(p, "install", "end")
    /\ loaded' = [loaded EXCEPT ![p] = TRUE]
    /\ cachePresent' = [cachePresent EXCEPT ![p] = TRUE]
    /\ records' = [records EXCEPT ![p] = found[p]]
    /\ stamps' = [stamps EXCEPT ![p] = marks[p]]
    /\ retained' = [retained EXCEPT ![p] = keep[p]]
    /\ rebuilt' = [rebuilt EXCEPT ![p] = @ \/ apc[p] \in {"own", "join"}]
    /\ known' = known \cup Ids(found[p]) \cup keep[p]
    /\ UNCHANGED <<transcripts, faults, files, up, bare, found, marks, changed, keep, failed, lookup,
                   steady, joined, missed, blind, undone>>

\* endRefresh frees the slot and tells those who wait what came of it.
End_Quiet(p) ==
    /\ Advance(p, "end", "idle") /\ NoRefresh(p)
    /\ apc' = [apc EXCEPT ![p] = IF @ \in {"own", "join"} THEN "ended" ELSE @]
    /\ UNCHANGED <<transcripts, faults, files, up, memory, asking, outcome, lookupHistory, fileHistory>>

End_Deaf(p) ==
    /\ Advance(p, "end", "idle") /\ NoRefresh(p)
    /\ IF apc[p] = "own"
       THEN apc' = [apc EXCEPT ![p] = "ended"] /\ outcome' = [outcome EXCEPT ![p] = failed[p]]
       ELSE UNCHANGED <<apc, outcome>>
    /\ UNCHANGED <<transcripts, faults, files, up, memory, asking, lookupHistory, fileHistory>>

End(p) ==
    /\ Advance(p, "end", "idle") /\ NoRefresh(p)
    /\ IF apc[p] \in {"own", "join"}
       THEN apc' = [apc EXCEPT ![p] = "ended"] /\ outcome' = [outcome EXCEPT ![p] = failed[p]]
       ELSE UNCHANGED <<apc, outcome>>
    /\ UNCHANGED <<transcripts, faults, files, up, memory, asking, lookupHistory, fileHistory>>

-----------------------------------------------------------------------------
\* Resolve and ResolveRequest: the listed records first.  An error of loadOnce and a record
\* that is listed end the lookup at once.
Ask(p, c) ==
    /\ up[p] = "up" /\ apc[p] = "idle"
    /\ Load(p)
    /\ IF loaded'[p] /\ c \notin Ids(records'[p]) \cup retained'[p]
       THEN /\ asking' = [asking EXCEPT ![p] = c]
            /\ apc' = [apc EXCEPT ![p] = "refresh"]
            /\ steady' = [steady EXCEPT ![p] = c \in present \ bad]
       ELSE UNCHANGED <<asking, apc, steady>>
    /\ UNCHANGED <<transcripts, faults, files, up, refresh, outcome, rebuilt, joined, missed,
                   blind, undone>>

\* On a miss a refresh, the caller's own or the one in flight.
Call(p) ==
    /\ apc[p] = "refresh"
    /\ \/ /\ Claim(p)
          /\ apc' = [apc EXCEPT ![p] = "own"] /\ UNCHANGED joined
          /\ rebuilt' = [rebuilt EXCEPT ![p] = FALSE]
       \/ /\ pc[p] # "idle"
          /\ apc' = [apc EXCEPT ![p] = "join"] /\ joined' = [joined EXCEPT ![p] = TRUE]
          /\ rebuilt' = [rebuilt EXCEPT ![p] = pc[p] = "end" /\ ~failed[p]]
          /\ UNCHANGED <<pc, bare, failed>>
    /\ UNCHANGED <<transcripts, faults, files, up, memory, found, marks, changed, keep, asking,
                   outcome, steady, missed, fileHistory>>

\* And then the records once more: a miss is confirmed unless the refresh had failed.
Verdict(p) ==
    IF asking[p] \in Served(p) THEN "found" ELSE IF outcome[p] THEN "stale" ELSE "absent"

Answer(p) ==
    /\ apc[p] = "ended"
    /\ NoLookup(p)
    /\ UNCHANGED <<transcripts, faults, files, up, memory, refresh, missed, fileHistory>>

\* A caller that waits for somebody else's refresh gives up, and calls a miss stale.
WaitCancelled(p) ==
    /\ apc[p] = "join" /\ Fault
    /\ apc' = [apc EXCEPT ![p] = "ended"] /\ outcome' = [outcome EXCEPT ![p] = TRUE]
    /\ UNCHANGED <<transcripts, files, up, memory, refresh, asking, lookupHistory, fileHistory>>

RefreshStep(p) ==
    \/ \E unread \in SUBSET Convs : Scan(p, unread)
    \/ Retain(p) \/ Save(p) \/ Truncate(p) \/ Fill(p) \/ Install(p) \/ End(p)
    \/ ScanFails(p) \/ SaveFails(p) \/ CacheFails(p)
LookupStep(p) == Call(p) \/ Answer(p) \/ WaitCancelled(p)

Next ==
    \/ \E c \in Convs : Remove(c) \/ \E readable \in BOOLEAN : Write(c, readable)
    \/ \E p \in Procs :
        \/ Start(p) \/ StartUnloaded(p) \/ Exit(p) \/ Periodic(p) \/ RefreshStep(p) \/ LookupStep(p)
        \/ \E c \in Asked : Ask(p, c)

Spec == Init /\ [][Next]_vars

\* A refresh that is under way and a lookup go on, and the timer of Start fires again.
Fairness ==
    \A p \in Procs : WF_vars(RefreshStep(p)) /\ WF_vars(LookupStep(p)) /\ WF_vars(Periodic(p))
FairSpec == Spec /\ Fairness

-----------------------------------------------------------------------------
\* No deleted conversation is forgotten: as long as processes follow one another and no
\* refresh began before the files could be loaded (blind), a process that loads the files
\* lists every conversation any process has listed before, although refreshes died or
\* failed anywhere.  A half-written cache, a file that cannot be read and one of another
\* version all keep Start from loading, and the refresh of the timer then rebuilds without
\* the retained records.  Excepted is also a conversation that was deleted, came back, and
\* whose removal from the retained file was saved by a refresh that did not save the cache
\* (undone).
NothingForgotten ==
    MaxUp = 1 /\ ~blind /\ cache.whole => known \ undone \subseteq OnDisk

\* What a process lists never shrinks while it is up: retainDropped keeps what a scan no
\* longer finds.  Excepted is a refresh that began before the files could be loaded.
ServedNeverShrinks ==
    [][\A p \in Procs : up'[p] = "up" /\ ~(bare[p] /\ pc[p] = "install") =>
          Served(p) \subseteq Served(p)']_vars

\* The comment on Refresh: a nil error means that the records were rebuilt, whoever
\* rebuilt them.  So a lookup confirms a miss only if the refresh it ran or waited for has
\* installed its records; a refresh that it joined may have done so just before.
FreshMeansRebuilt ==
    \A p \in Procs : apc[p] = "ended" /\ Verdict(p) = "absent" => rebuilt[p]

\* A transcript that can be read, and is not written during a lookup, is not reported absent, unless
\* the lookup took the outcome of a refresh that had begun before, or the first read of
\* the transcript failed: its stamp is recorded all the same and it is not read again.
AbsentIsAbsent ==
    \A p \in Procs :
        apc[p] = "ended" /\ Verdict(p) = "absent" /\ steady[p] => joined[p] \/ asking[p] \in missed

\* Every lookup is answered.
LookupAnswered == \A p \in Procs : (apc[p] # "idle") ~> (apc[p] = "idle")

\* A daemon that stays up comes to hold the record of every transcript as it was last
\* written, except unreadable ones and those whose first read failed.
Converges ==
    \A p \in Daemons :
        <>[](up[p] = "up") =>
            <>[](\A c \in present \ (bad \cup missed) : records[p][c] = version[c])

\* The comment in refresh: retained records are saved first, so that after a failed write
\* of the cache the retained file lists every deleted conversation for the next load.  If
\* it does, a refresh takes a conversation out of that file only when it was found again.
RetainedForNextLoad ==
    [][\A c \in retainedFile \ retainedFile' :
          \E p \in Procs : pc[p] = "save" /\ c \in Ids(found[p])]_vars
=============================================================================
