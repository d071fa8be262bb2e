---------------------- MODULE ConversationIndexProofs -----------------------
(***************************************************************************)
(* Theorems about ConversationIndex: it is well typed, a lookup confirms a *)
(* miss only if its refresh rebuilt, and what a process lists does not     *)
(* shrink.                                                                 *)
(***************************************************************************)
EXTENDS ConversationIndex, TLAPS

\* Versions are counted by the writes.
Counted == \A c \in Convs : version[c] <= writes + 1

\* A process that has loaded nothing lists nothing, and only a refresh that was claimed
\* before anything was loaded runs in such a process.
Empty ==
    \A p \in Procs :
        /\ ~loaded[p] => records[p] = Nothing /\ retained[p] = {}
        /\ pc[p] # "idle" /\ ~bare[p] => loaded[p]

\* A refresh past Retain has kept all that the process lists and that it did not find.
Kept ==
    \A p \in Procs :
        ~bare[p] /\ pc[p] \in {"save", "cache", "fill", "install"} =>
            keep[p] = Dropped(p)

\* A refresh that a lookup waits for and that has not failed at its end has installed
\* records, and so has one whose waiter was told no error.
Rebuilt ==
    \A p \in Procs :
        /\ apc[p] = "ended" /\ ~outcome[p] => rebuilt[p]
        /\ apc[p] \in {"own", "join"} /\ pc[p] = "end" /\ ~failed[p] => rebuilt[p]

\* A scan finds versions.
LEMMA ScanType ==
    ASSUME TypeOK, NEW p \in Procs, NEW c \in Convs, NEW unread \in SUBSET Convs
    PROVE  /\ ScanRecord(p, c, unread).record \in Versions
           /\ ScanRecord(p, c, unread).stamp \in Versions
<1>1. PriorRecord(p, c) \in Versions /\ PriorStamp(p, c) \in Versions
  BY IndexAssumption DEF TypeOK, TypeMemory, Stamped, Versions, PriorRecord, PriorStamp
<1>2. version[c] \in Versions /\ 0 \in Versions
  BY IndexAssumption DEF TypeOK, TypeFiles, Stamped, Versions
<1> QED
  BY <1>1, <1>2, Zenon DEF ScanRecord

\* What process q lists does not shrink in this step.
Grows(q) == up'[q] = "up" /\ ~(bare[q] /\ pc[q] = "install") => Served(q) \subseteq Served(q)'

\* The files keep their types.
LEMMA FilesStep == TypeOK /\ Counted /\ [Next]_vars => TypeFiles'
<1> SUFFICES ASSUME TypeOK /\ Counted, [Next]_vars PROVE TypeFiles'  BY Zenon
<1> DEFINE seen == <<version, present, bad, writes, faults, cache, retainedFile, missed, known, undone, blind>>
<1> USE DEF transcripts, files, memory, refresh, lookup, lookupHistory, fileHistory
<1>0. UNCHANGED seen => TypeFiles'
  BY Zenon DEF TypeOK, TypeFiles, TypeMemory, TypeRefresh, Stamped, Versions, Counted, Torn, Nothing,
     OnDisk, Ids
<1>1. ASSUME NEW c \in Convs, NEW readable \in BOOLEAN, Write(c, readable) PROVE TypeFiles'
  <2>1. /\ writes < MaxWrites
        /\ writes' = writes + 1
        /\ version' = [version EXCEPT ![c] = @ + 1]
        /\ present' = present \cup {c}
        /\ bad' = IF readable THEN bad \ {c} ELSE bad \cup {c}
        /\ missed' = missed \ {c}
        /\ UNCHANGED <<faults, cache, retainedFile, known, undone, blind>>
    BY <1>1, Zenon DEF Write
  <2> QED  BY <2>1, IndexAssumption DEF TypeOK, TypeFiles, TypeMemory, TypeRefresh, Stamped,
              Versions, Counted, Torn, Nothing, OnDisk, Ids
<1>2. ASSUME NEW c \in Convs, Remove(c) PROVE TypeFiles'
  <2>1. /\ c \in present
        /\ writes < MaxWrites
        /\ writes' = writes + 1
        /\ present' = present \ {c}
        /\ UNCHANGED <<version, bad, faults, cache, retainedFile, missed, known, undone, blind>>
    BY <1>2, Zenon DEF Remove
  <2> QED  BY <2>1, IndexAssumption DEF TypeOK, TypeFiles, TypeMemory, TypeRefresh, Stamped,
              Versions, Counted, Torn, Nothing, OnDisk, Ids
<1>3. ASSUME NEW p \in Procs, Start(p) PROVE TypeFiles'
  <2>1. CASE p \in Daemons /\ ~loaded[p] /\ cache.whole
    <3>1. /\ up[p] = "off"
          /\ Cardinality({q \in Procs : up[q] = "up"}) < MaxUp
          /\ p \in Daemons
          /\ ~loaded[p]
          /\ cache.whole
          /\ known' = known \cup OnDisk
          /\ UNCHANGED <<version, present, bad, writes, faults, cache, retainedFile, missed, undone, blind>>
      BY <1>3, <2>1, Zenon DEF Start, Load
    <3> QED  BY <3>1, IndexAssumption, Zenon DEF TypeOK, TypeFiles, TypeMemory, TypeRefresh, Stamped,
                Versions, Counted, Torn, Nothing, OnDisk, Ids
  <2>2. CASE ~(p \in Daemons /\ ~loaded[p] /\ cache.whole)
    <3>1. UNCHANGED seen
      BY <1>3, <2>2, Zenon DEF Start, Load
    <3> QED  BY <1>0, <3>1, Zenon
  <2> QED  BY <2>1, <2>2, Zenon
<1>3a. ASSUME NEW p \in Procs, StartUnloaded(p) PROVE TypeFiles'
  <2>1. /\ faults < MaxFaults
        /\ faults' = faults + 1
        /\ UNCHANGED <<version, present, bad, writes, cache, retainedFile, missed, known, undone, blind>>
    BY <1>3a, Zenon DEF StartUnloaded, Fault
  <2> QED  BY <2>1, IndexAssumption DEF TypeOK, TypeFiles, TypeMemory, TypeRefresh, Stamped,
              Versions, Counted, Torn, Nothing, OnDisk, Ids
<1>4. ASSUME NEW p \in Procs, Exit(p) PROVE TypeFiles'
  <2>1. CASE pc[p] = "idle"
    <3>1. /\ up[p] = "up"
          /\ pc[p] = "idle"
          /\ UNCHANGED <<version, present, bad, writes, faults, cache, retainedFile, missed, known, undone, blind>>
      BY <1>4, <2>1, Zenon DEF Exit, NoRefresh, NoLookup, Fault
    <3> QED  BY <3>1, IndexAssumption, Zenon DEF TypeOK, TypeFiles, TypeMemory, TypeRefresh, Stamped,
                Versions, Counted, Torn, Nothing, OnDisk, Ids
  <2>2. CASE pc[p] # "idle"
    <3>1. /\ up[p] = "up"
          /\ faults < MaxFaults
          /\ faults' = faults + 1
          /\ UNCHANGED <<version, present, bad, writes, cache, retainedFile, missed, known, undone, blind>>
      BY <1>4, <2>2, Zenon DEF Exit, NoRefresh, NoLookup, Fault
    <3> QED  BY <3>1, IndexAssumption DEF TypeOK, TypeFiles, TypeMemory, TypeRefresh, Stamped,
                Versions, Counted, Torn, Nothing, OnDisk, Ids
  <2> QED  BY <2>1, <2>2, Zenon
<1>5. ASSUME NEW p \in Procs, Periodic(p) PROVE TypeFiles'
  <2>1. /\ blind' = (blind \/ ~loaded[p])
        /\ UNCHANGED <<version, present, bad, writes, faults, cache, retainedFile, missed, known, undone>>
    BY <1>5, Zenon DEF Periodic
  <2> QED  BY <2>1, IndexAssumption, Zenon DEF TypeOK, TypeFiles, TypeMemory, TypeRefresh, Stamped,
              Versions, Counted, Torn, Nothing, OnDisk, Ids
<1>6. ASSUME NEW p \in Procs, NEW unread \in SUBSET Convs, Scan(p, unread) PROVE TypeFiles'
  <2>1. CASE unread = {}
    <3>1. /\ pc[p] = "scan"
          /\ missed' = missed \cup {c \in unread \cap present : ~Reuse(p, c) /\ PriorRecord(p, c) = 0}
          /\ UNCHANGED <<version, present, bad, writes, faults, cache, retainedFile, known, undone, blind>>
      BY <1>6, <2>1, Zenon DEF Scan, Advance, Fault
    <3> QED  BY <3>1, IndexAssumption, Zenon DEF TypeOK, TypeFiles, TypeMemory, TypeRefresh, Stamped,
                Versions, Counted, Torn, Nothing, OnDisk, Ids
  <2>2. CASE unread # {}
    <3>1. /\ pc[p] = "scan"
          /\ missed' = missed \cup {c \in unread \cap present : ~Reuse(p, c) /\ PriorRecord(p, c) = 0}
          /\ faults < MaxFaults
          /\ faults' = faults + 1
          /\ UNCHANGED <<version, present, bad, writes, cache, retainedFile, known, undone, blind>>
      BY <1>6, <2>2, Zenon DEF Scan, Advance, Fault
    <3> QED  BY <3>1, IndexAssumption DEF TypeOK, TypeFiles, TypeMemory, TypeRefresh, Stamped,
                Versions, Counted, Torn, Nothing, OnDisk, Ids
  <2> QED  BY <2>1, <2>2, Zenon
<1>7. ASSUME NEW p \in Procs, Retain(p) PROVE UNCHANGED seen
  BY <1>7, Zenon DEF Retain
<1>8. ASSUME NEW p \in Procs, Save(p) PROVE TypeFiles'
  <2>1. /\ pc[p] = "save"
        /\ retainedFile' = keep[p]
        /\ undone' = (undone \cup (retainedFile \ keep[p])) \ keep[p]
        /\ UNCHANGED <<version, present, bad, writes, faults, cache, missed, known, blind>>
    BY <1>8, Zenon DEF Save, Advance
  <2> QED  BY <2>1, IndexAssumption, Zenon DEF TypeOK, TypeFiles, TypeMemory, TypeRefresh, Stamped,
              Versions, Counted, Torn, Nothing, OnDisk, Ids
<1>9. ASSUME NEW p \in Procs, Truncate(p) PROVE TypeFiles'
  <2>1. /\ pc[p] = "cache"
        /\ cache' = Torn
        /\ UNCHANGED <<version, present, bad, writes, faults, retainedFile, missed, known, undone, blind>>
    BY <1>9, Zenon DEF Truncate, Advance
  <2> QED  BY <2>1, IndexAssumption DEF TypeOK, TypeFiles, TypeMemory, TypeRefresh, Stamped,
              Versions, Counted, Torn, Nothing, OnDisk, Ids
<1>10. ASSUME NEW p \in Procs, Fill(p) PROVE TypeFiles'
  <2>1. /\ pc[p] = "fill"
        /\ cache' = [whole |-> TRUE, present |-> TRUE, records |-> found[p], stamps |-> marks[p]]
        /\ undone' = undone \ Ids(found[p])
        /\ UNCHANGED <<version, present, bad, writes, faults, retainedFile, missed, known, blind>>
    BY <1>10, Zenon DEF Fill, Advance
  <2> QED  BY <2>1, IndexAssumption, Zenon DEF TypeOK, TypeFiles, TypeMemory, TypeRefresh, Stamped,
              Versions, Counted, Torn, Nothing, OnDisk, Ids
<1>11. ASSUME NEW p \in Procs, Install(p) PROVE TypeFiles'
  <2>1. /\ pc[p] = "install"
        /\ known' = known \cup Ids(found[p]) \cup keep[p]
        /\ UNCHANGED <<version, present, bad, writes, faults, cache, retainedFile, missed, undone, blind>>
    BY <1>11, Zenon DEF Install, Advance
  <2> QED  BY <2>1, IndexAssumption, Zenon DEF TypeOK, TypeFiles, TypeMemory, TypeRefresh, Stamped,
              Versions, Counted, Torn, Nothing, OnDisk, Ids
<1>12. ASSUME NEW p \in Procs, End(p) PROVE UNCHANGED seen
  BY <1>12, Zenon DEF End
<1>13. ASSUME NEW p \in Procs, ScanFails(p) PROVE TypeFiles'
  <2>1. /\ pc[p] = "scan"
        /\ faults < MaxFaults
        /\ faults' = faults + 1
        /\ UNCHANGED <<version, present, bad, writes, cache, retainedFile, missed, known, undone, blind>>
    BY <1>13, Zenon DEF ScanFails, Advance, Fails, Fault
  <2> QED  BY <2>1, IndexAssumption DEF TypeOK, TypeFiles, TypeMemory, TypeRefresh, Stamped,
              Versions, Counted, Torn, Nothing, OnDisk, Ids
<1>14. ASSUME NEW p \in Procs, SaveFails(p) PROVE TypeFiles'
  <2>1. /\ pc[p] = "save"
        /\ faults < MaxFaults
        /\ faults' = faults + 1
        /\ UNCHANGED <<version, present, bad, writes, cache, retainedFile, missed, known, undone, blind>>
    BY <1>14, Zenon DEF SaveFails, Advance, Fails, Fault
  <2> QED  BY <2>1, IndexAssumption DEF TypeOK, TypeFiles, TypeMemory, TypeRefresh, Stamped,
              Versions, Counted, Torn, Nothing, OnDisk, Ids
<1>15. ASSUME NEW p \in Procs, CacheFails(p) PROVE TypeFiles'
  <2>1. CASE pc[p] = "cache"
    <3>1. /\ pc[p] = "cache"
          /\ faults < MaxFaults
          /\ faults' = faults + 1
          /\ UNCHANGED <<version, present, bad, writes, cache, retainedFile, missed, known, undone, blind>>
      BY <1>15, <2>1, Zenon DEF CacheFails, Advance, Fails, Fault
    <3> QED  BY <3>1, IndexAssumption DEF TypeOK, TypeFiles, TypeMemory, TypeRefresh, Stamped,
                Versions, Counted, Torn, Nothing, OnDisk, Ids
  <2>2. CASE pc[p] # "cache"
    <3>1. /\ pc[p] = "fill"
          /\ faults < MaxFaults
          /\ faults' = faults + 1
          /\ UNCHANGED <<version, present, bad, writes, cache, retainedFile, missed, known, undone, blind>>
      BY <1>15, <2>2, Zenon DEF CacheFails, Advance, Fails, Fault
    <3> QED  BY <3>1, IndexAssumption DEF TypeOK, TypeFiles, TypeMemory, TypeRefresh, Stamped,
                Versions, Counted, Torn, Nothing, OnDisk, Ids
  <2> QED  BY <2>1, <2>2, Zenon
<1>16. ASSUME NEW p \in Procs, Call(p) PROVE UNCHANGED seen
  BY <1>16, Zenon DEF Call
<1>17. ASSUME NEW p \in Procs, Answer(p) PROVE UNCHANGED seen
  BY <1>17, Zenon DEF Answer
<1>18. ASSUME NEW p \in Procs, WaitCancelled(p) PROVE TypeFiles'
  <2>1. /\ apc[p] = "join"
        /\ faults < MaxFaults
        /\ faults' = faults + 1
        /\ UNCHANGED <<version, present, bad, writes, cache, retainedFile, missed, known, undone, blind>>
    BY <1>18, Zenon DEF WaitCancelled, Fault
  <2> QED  BY <2>1, IndexAssumption DEF TypeOK, TypeFiles, TypeMemory, TypeRefresh, Stamped,
              Versions, Counted, Torn, Nothing, OnDisk, Ids
<1>19. ASSUME NEW p \in Procs, NEW c \in Asked, Ask(p, c) PROVE TypeFiles'
  <2>1. CASE ~loaded[p] /\ cache.whole
    <3>1. /\ up[p] = "up"
          /\ apc[p] = "idle"
          /\ ~loaded[p]
          /\ cache.whole
          /\ known' = known \cup OnDisk
          /\ UNCHANGED <<version, present, bad, writes, faults, cache, retainedFile, missed, undone, blind>>
      BY <1>19, <2>1, Zenon DEF Ask, Load
    <3> QED  BY <3>1, IndexAssumption, Zenon DEF TypeOK, TypeFiles, TypeMemory, TypeRefresh, Stamped,
                Versions, Counted, Torn, Nothing, OnDisk, Ids
  <2>2. CASE ~(~loaded[p] /\ cache.whole)
    <3>1. UNCHANGED seen
      BY <1>19, <2>2, Zenon DEF Ask, Load
    <3> QED  BY <1>0, <3>1, Zenon
  <2> QED  BY <2>1, <2>2, Zenon
<1>20. CASE UNCHANGED vars
  BY <1>0, <1>20, Zenon DEF vars
<1> HIDE DEF seen, transcripts, files, memory, refresh, lookup, lookupHistory, fileHistory
<1> QED
  BY <1>0, <1>1, <1>2, <1>3, <1>3a, <1>4, <1>5, <1>6, <1>7, <1>8, <1>9, <1>10, <1>11, <1>12,
     <1>13, <1>14, <1>15, <1>16, <1>17, <1>18, <1>19, <1>20, Zenon DEF Next, RefreshStep, LookupStep

\* Counted is preserved.
LEMMA CountedStep == TypeOK /\ Counted /\ [Next]_vars => Counted'
<1> SUFFICES ASSUME TypeOK /\ Counted, [Next]_vars PROVE Counted'  BY Zenon
<1> DEFINE seen == <<version, writes>>
<1> USE DEF transcripts, files, memory, refresh, lookup, lookupHistory, fileHistory
<1>0. UNCHANGED seen => Counted'
  BY Zenon DEF TypeOK, TypeFiles, Stamped, Versions, Counted
<1>1. ASSUME NEW c \in Convs, NEW readable \in BOOLEAN, Write(c, readable) PROVE Counted'
  <2>1. /\ writes < MaxWrites
        /\ writes' = writes + 1
        /\ version' = [version EXCEPT ![c] = @ + 1]
    BY <1>1, Zenon DEF Write
  <2> QED  BY <2>1, IndexAssumption DEF TypeOK, TypeFiles, Stamped, Versions, Counted
<1>2. ASSUME NEW c \in Convs, Remove(c) PROVE Counted'
  <2>1. /\ c \in present
        /\ writes < MaxWrites
        /\ writes' = writes + 1
        /\ UNCHANGED <<version>>
    BY <1>2, Zenon DEF Remove
  <2> QED  BY <2>1, IndexAssumption DEF TypeOK, TypeFiles, Stamped, Versions, Counted
<1>3. ASSUME NEW p \in Procs, Start(p) PROVE UNCHANGED seen
  BY <1>3, Zenon DEF Start
<1>3a. ASSUME NEW p \in Procs, StartUnloaded(p) PROVE UNCHANGED seen
  BY <1>3a, Zenon DEF StartUnloaded
<1>4. ASSUME NEW p \in Procs, Exit(p) PROVE UNCHANGED seen
  BY <1>4, Zenon DEF Exit
<1>5. ASSUME NEW p \in Procs, Periodic(p) PROVE UNCHANGED seen
  BY <1>5, Zenon DEF Periodic
<1>6. ASSUME NEW p \in Procs, NEW unread \in SUBSET Convs, Scan(p, unread) PROVE UNCHANGED seen
  BY <1>6, Zenon DEF Scan
<1>7. ASSUME NEW p \in Procs, Retain(p) PROVE UNCHANGED seen
  BY <1>7, Zenon DEF Retain
<1>8. ASSUME NEW p \in Procs, Save(p) PROVE UNCHANGED seen
  BY <1>8, Zenon DEF Save
<1>9. ASSUME NEW p \in Procs, Truncate(p) PROVE UNCHANGED seen
  BY <1>9, Zenon DEF Truncate
<1>10. ASSUME NEW p \in Procs, Fill(p) PROVE UNCHANGED seen
  BY <1>10, Zenon DEF Fill
<1>11. ASSUME NEW p \in Procs, Install(p) PROVE UNCHANGED seen
  BY <1>11, Zenon DEF Install
<1>12. ASSUME NEW p \in Procs, End(p) PROVE UNCHANGED seen
  BY <1>12, Zenon DEF End
<1>13. ASSUME NEW p \in Procs, ScanFails(p) PROVE UNCHANGED seen
  BY <1>13, Zenon DEF ScanFails
<1>14. ASSUME NEW p \in Procs, SaveFails(p) PROVE UNCHANGED seen
  BY <1>14, Zenon DEF SaveFails
<1>15. ASSUME NEW p \in Procs, CacheFails(p) PROVE UNCHANGED seen
  BY <1>15, Zenon DEF CacheFails
<1>16. ASSUME NEW p \in Procs, Call(p) PROVE UNCHANGED seen
  BY <1>16, Zenon DEF Call
<1>17. ASSUME NEW p \in Procs, Answer(p) PROVE UNCHANGED seen
  BY <1>17, Zenon DEF Answer
<1>18. ASSUME NEW p \in Procs, WaitCancelled(p) PROVE UNCHANGED seen
  BY <1>18, Zenon DEF WaitCancelled
<1>19. ASSUME NEW p \in Procs, NEW c \in Asked, Ask(p, c) PROVE UNCHANGED seen
  BY <1>19, Zenon DEF Ask
<1>20. CASE UNCHANGED vars
  BY <1>0, <1>20, Zenon DEF vars
<1> HIDE DEF seen, transcripts, files, memory, refresh, lookup, lookupHistory, fileHistory
<1> QED
  BY <1>0, <1>1, <1>2, <1>3, <1>3a, <1>4, <1>5, <1>6, <1>7, <1>8, <1>9, <1>10, <1>11, <1>12,
     <1>13, <1>14, <1>15, <1>16, <1>17, <1>18, <1>19, <1>20, Zenon DEF Next, RefreshStep, LookupStep

\* A process keeps its types.
LEMMA MemoryStep == TypeOK /\ [Next]_vars => TypeMemory'
<1> SUFFICES ASSUME TypeOK, [Next]_vars PROVE TypeMemory'  BY Zenon
<1> DEFINE seen == <<up, loaded, cachePresent, records, stamps, retained>>
<1> USE DEF transcripts, files, memory, refresh, lookup, lookupHistory, fileHistory
<1>0. UNCHANGED seen => TypeMemory'
  BY DEF TypeOK, TypeFiles, TypeMemory, TypeRefresh, Stamped, Versions, Nothing
<1>1. ASSUME NEW c \in Convs, NEW readable \in BOOLEAN, Write(c, readable) PROVE UNCHANGED seen
  BY <1>1, Zenon DEF Write
<1>2. ASSUME NEW c \in Convs, Remove(c) PROVE UNCHANGED seen
  BY <1>2, Zenon DEF Remove
<1>3. ASSUME NEW p \in Procs, Start(p) PROVE TypeMemory'
  <2>1. CASE p \in Daemons /\ ~loaded[p] /\ cache.whole
    <3>1. /\ up[p] = "off"
          /\ Cardinality({q \in Procs : up[q] = "up"}) < MaxUp
          /\ up' = [up EXCEPT ![p] = "up"]
          /\ p \in Daemons
          /\ ~loaded[p]
          /\ cache.whole
          /\ loaded' = [loaded EXCEPT ![p] = TRUE]
          /\ cachePresent' = [cachePresent EXCEPT ![p] = cache.present]
          /\ records' = [records EXCEPT ![p] = cache.records]
          /\ stamps' = [stamps EXCEPT ![p] = cache.stamps]
          /\ retained' = [retained EXCEPT ![p] = retainedFile]
      BY <1>3, <2>1, Zenon DEF Start, Load
    <3> QED  BY <3>1, IndexAssumption, Zenon DEF TypeOK, TypeFiles, TypeMemory, TypeRefresh, Stamped,
                Versions, Nothing
  <2>2. CASE ~(p \in Daemons /\ ~loaded[p] /\ cache.whole)
    <3>1. /\ up[p] = "off"
          /\ Cardinality({q \in Procs : up[q] = "up"}) < MaxUp
          /\ up' = [up EXCEPT ![p] = "up"]
          /\ ~(p \in Daemons /\ ~loaded[p] /\ cache.whole)
          /\ UNCHANGED <<loaded, cachePresent, records, stamps, retained>>
      BY <1>3, <2>2, Zenon DEF Start, Load
    <3> QED  BY <3>1, IndexAssumption, Zenon DEF TypeOK, TypeFiles, TypeMemory, TypeRefresh, Stamped,
                Versions, Nothing
  <2> QED  BY <2>1, <2>2, Zenon
<1>3a. ASSUME NEW p \in Procs, StartUnloaded(p) PROVE TypeMemory'
  <2>1. /\ up' = [up EXCEPT ![p] = "up"]
        /\ UNCHANGED <<loaded, cachePresent, records, stamps, retained>>
    BY <1>3a, Zenon DEF StartUnloaded
  <2> QED  BY <2>1, IndexAssumption, Zenon DEF TypeOK, TypeFiles, TypeMemory, TypeRefresh, Stamped,
              Versions, Nothing
<1>4. ASSUME NEW p \in Procs, Exit(p) PROVE TypeMemory'
  <2>1. /\ up[p] = "up"
        /\ up' = [up EXCEPT ![p] = "down"]
        /\ loaded' = [loaded EXCEPT ![p] = FALSE]
        /\ cachePresent' = [cachePresent EXCEPT ![p] = FALSE]
        /\ records' = [records EXCEPT ![p] = Nothing]
        /\ stamps' = [stamps EXCEPT ![p] = Nothing]
        /\ retained' = [retained EXCEPT ![p] = {}]
    BY <1>4, Zenon DEF Exit, NoRefresh, NoLookup, Fault
  <2> QED  BY <2>1, IndexAssumption DEF TypeOK, TypeFiles, TypeMemory, TypeRefresh, Stamped,
              Versions, Nothing
<1>5. ASSUME NEW p \in Procs, Periodic(p) PROVE UNCHANGED seen
  BY <1>5, Zenon DEF Periodic
<1>6. ASSUME NEW p \in Procs, NEW unread \in SUBSET Convs, Scan(p, unread) PROVE UNCHANGED seen
  BY <1>6, Zenon DEF Scan
<1>7. ASSUME NEW p \in Procs, Retain(p) PROVE UNCHANGED seen
  BY <1>7, Zenon DEF Retain
<1>8. ASSUME NEW p \in Procs, Save(p) PROVE UNCHANGED seen
  BY <1>8, Zenon DEF Save
<1>9. ASSUME NEW p \in Procs, Truncate(p) PROVE UNCHANGED seen
  BY <1>9, Zenon DEF Truncate
<1>10. ASSUME NEW p \in Procs, Fill(p) PROVE UNCHANGED seen
  BY <1>10, Zenon DEF Fill
<1>11. ASSUME NEW p \in Procs, Install(p) PROVE TypeMemory'
  <2>1. /\ pc[p] = "install"
        /\ loaded' = [loaded EXCEPT ![p] = TRUE]
        /\ cachePresent' = [cachePresent EXCEPT ![p] = TRUE]
        /\ records' = [records EXCEPT ![p] = found[p]]
        /\ stamps' = [stamps EXCEPT ![p] = marks[p]]
        /\ retained' = [retained EXCEPT ![p] = keep[p]]
        /\ UNCHANGED <<up>>
    BY <1>11, Zenon DEF Install, Advance
  <2> QED  BY <2>1, IndexAssumption, Zenon DEF TypeOK, TypeFiles, TypeMemory, TypeRefresh, Stamped,
              Versions, Nothing
<1>12. ASSUME NEW p \in Procs, End(p) PROVE UNCHANGED seen
  BY <1>12, Zenon DEF End
<1>13. ASSUME NEW p \in Procs, ScanFails(p) PROVE UNCHANGED seen
  BY <1>13, Zenon DEF ScanFails
<1>14. ASSUME NEW p \in Procs, SaveFails(p) PROVE UNCHANGED seen
  BY <1>14, Zenon DEF SaveFails
<1>15. ASSUME NEW p \in Procs, CacheFails(p) PROVE UNCHANGED seen
  BY <1>15, Zenon DEF CacheFails
<1>16. ASSUME NEW p \in Procs, Call(p) PROVE UNCHANGED seen
  BY <1>16, Zenon DEF Call
<1>17. ASSUME NEW p \in Procs, Answer(p) PROVE UNCHANGED seen
  BY <1>17, Zenon DEF Answer
<1>18. ASSUME NEW p \in Procs, WaitCancelled(p) PROVE UNCHANGED seen
  BY <1>18, Zenon DEF WaitCancelled
<1>19. ASSUME NEW p \in Procs, NEW c \in Asked, Ask(p, c) PROVE TypeMemory'
  <2>1. CASE ~loaded[p] /\ cache.whole
    <3>1. /\ up[p] = "up"
          /\ apc[p] = "idle"
          /\ ~loaded[p]
          /\ cache.whole
          /\ loaded' = [loaded EXCEPT ![p] = TRUE]
          /\ cachePresent' = [cachePresent EXCEPT ![p] = cache.present]
          /\ records' = [records EXCEPT ![p] = cache.records]
          /\ stamps' = [stamps EXCEPT ![p] = cache.stamps]
          /\ retained' = [retained EXCEPT ![p] = retainedFile]
          /\ UNCHANGED <<up>>
      BY <1>19, <2>1, Zenon DEF Ask, Load
    <3> QED  BY <3>1, IndexAssumption, Zenon DEF TypeOK, TypeFiles, TypeMemory, TypeRefresh, Stamped,
                Versions, Nothing
  <2>2. CASE ~(~loaded[p] /\ cache.whole)
    <3>1. UNCHANGED seen
      BY <1>19, <2>2, Zenon DEF Ask, Load
    <3> QED  BY <1>0, <3>1, Zenon
  <2> QED  BY <2>1, <2>2, Zenon
<1>20. CASE UNCHANGED vars
  BY <1>0, <1>20, Zenon DEF vars
<1> HIDE DEF seen, transcripts, files, memory, refresh, lookup, lookupHistory, fileHistory
<1> QED
  BY <1>0, <1>1, <1>2, <1>3, <1>3a, <1>4, <1>5, <1>6, <1>7, <1>8, <1>9, <1>10, <1>11, <1>12,
     <1>13, <1>14, <1>15, <1>16, <1>17, <1>18, <1>19, <1>20, Zenon DEF Next, RefreshStep, LookupStep

\* A refresh keeps its types.
LEMMA RefreshTypeStep == TypeOK /\ [Next]_vars => TypeRefresh'
<1> SUFFICES ASSUME TypeOK, [Next]_vars PROVE TypeRefresh'  BY Zenon
<1> DEFINE seen == <<pc, bare, changed, failed, found, marks, keep>>
<1> USE DEF transcripts, files, memory, refresh, lookup, lookupHistory, fileHistory
<1>0. UNCHANGED seen => TypeRefresh'
  BY DEF TypeOK, TypeFiles, TypeMemory, TypeRefresh, Stamped, Versions, Nothing, AfterSave,
     Dropped, Ids
<1>1. ASSUME NEW c \in Convs, NEW readable \in BOOLEAN, Write(c, readable) PROVE UNCHANGED seen
  BY <1>1, Zenon DEF Write
<1>2. ASSUME NEW c \in Convs, Remove(c) PROVE UNCHANGED seen
  BY <1>2, Zenon DEF Remove
<1>3. ASSUME NEW p \in Procs, Start(p) PROVE UNCHANGED seen
  BY <1>3, Zenon DEF Start
<1>3a. ASSUME NEW p \in Procs, StartUnloaded(p) PROVE UNCHANGED seen
  BY <1>3a, Zenon DEF StartUnloaded
<1>4. ASSUME NEW p \in Procs, Exit(p) PROVE TypeRefresh'
  <2>1. /\ up[p] = "up"
        /\ pc' = [pc EXCEPT ![p] = "idle"]
        /\ bare' = [bare EXCEPT ![p] = FALSE]
        /\ failed' = [failed EXCEPT ![p] = FALSE]
        /\ found' = [found EXCEPT ![p] = Nothing]
        /\ marks' = [marks EXCEPT ![p] = Nothing]
        /\ changed' = [changed EXCEPT ![p] = FALSE]
        /\ keep' = [keep EXCEPT ![p] = {}]
    BY <1>4, Zenon DEF Exit, NoRefresh, NoLookup, Fault
  <2> QED  BY <2>1, IndexAssumption DEF TypeOK, TypeFiles, TypeMemory, TypeRefresh, Stamped,
              Versions, Nothing, AfterSave, Dropped, Ids
<1>5. ASSUME NEW p \in Procs, Periodic(p) PROVE TypeRefresh'
  <2>1. /\ p \in Daemons
        /\ up[p] = "up"
        /\ pc[p] = "idle"
        /\ pc' = [pc EXCEPT ![p] = "scan"]
        /\ bare' = [bare EXCEPT ![p] = ~loaded[p]]
        /\ failed' = [failed EXCEPT ![p] = FALSE]
        /\ UNCHANGED <<changed, found, marks, keep>>
    BY <1>5, Zenon DEF Periodic, Claim
  <2> QED  BY <2>1, IndexAssumption, Zenon DEF TypeOK, TypeFiles, TypeMemory, TypeRefresh, Stamped,
              Versions, Nothing, AfterSave, Dropped, Ids
<1>6. ASSUME NEW p \in Procs, NEW unread \in SUBSET Convs, Scan(p, unread) PROVE TypeRefresh'
  <2>1. /\ pc[p] = "scan"
        /\ pc' = [pc EXCEPT ![p] = "retain"]
        /\ found' = [found EXCEPT ![p] = [c \in Convs |-> ScanRecord(p, c, unread).record]]
        /\ marks' = [marks EXCEPT ![p] = [c \in Convs |-> ScanRecord(p, c, unread).stamp]]
        /\ changed' = [changed EXCEPT ![p] =
              \/ bare[p] \/ ~cachePresent[p]
              \/ \E c \in Convs : found'[p][c] # records[p][c] \/ marks'[p][c] # stamps[p][c]]
        /\ UNCHANGED <<bare, failed, keep>>
    BY <1>6, Zenon DEF Scan, Advance, Fault
  <2> QED  BY <2>1, IndexAssumption, ScanType, Zenon DEF TypeOK, TypeFiles, TypeMemory, TypeRefresh,
              Stamped, Versions, Nothing, AfterSave, Dropped, Ids
<1>7. ASSUME NEW p \in Procs, Retain(p) PROVE TypeRefresh'
  <2>1. /\ pc[p] = "retain"
        /\ pc' = [pc EXCEPT ![p] = IF Dropped(p) # retained[p] THEN "save" ELSE AfterSave(p)]
        /\ keep' = [keep EXCEPT ![p] = Dropped(p)]
        /\ UNCHANGED <<bare, changed, failed, found, marks>>
    BY <1>7, Zenon DEF Retain, Advance
  <2> QED  BY <2>1, IndexAssumption, Zenon DEF TypeOK, TypeFiles, TypeMemory, TypeRefresh, Stamped,
              Versions, Nothing, AfterSave, Dropped, Ids
<1>8. ASSUME NEW p \in Procs, Save(p) PROVE TypeRefresh'
  <2>1. /\ pc[p] = "save"
        /\ pc' = [pc EXCEPT ![p] = AfterSave(p)]
        /\ UNCHANGED <<bare, changed, failed, found, marks, keep>>
    BY <1>8, Zenon DEF Save, Advance
  <2> QED  BY <2>1, IndexAssumption, Zenon DEF TypeOK, TypeFiles, TypeMemory, TypeRefresh, Stamped,
              Versions, Nothing, AfterSave, Dropped, Ids
<1>9. ASSUME NEW p \in Procs, Truncate(p) PROVE TypeRefresh'
  <2>1. /\ pc[p] = "cache"
        /\ pc' = [pc EXCEPT ![p] = "fill"]
        /\ UNCHANGED <<bare, changed, failed, found, marks, keep>>
    BY <1>9, Zenon DEF Truncate, Advance
  <2> QED  BY <2>1, IndexAssumption, Zenon DEF TypeOK, TypeFiles, TypeMemory, TypeRefresh, Stamped,
              Versions, Nothing, AfterSave, Dropped, Ids
<1>10. ASSUME NEW p \in Procs, Fill(p) PROVE TypeRefresh'
  <2>1. /\ pc[p] = "fill"
        /\ pc' = [pc EXCEPT ![p] = "install"]
        /\ UNCHANGED <<bare, changed, failed, found, marks, keep>>
    BY <1>10, Zenon DEF Fill, Advance
  <2> QED  BY <2>1, IndexAssumption, Zenon DEF TypeOK, TypeFiles, TypeMemory, TypeRefresh, Stamped,
              Versions, Nothing, AfterSave, Dropped, Ids
<1>11. ASSUME NEW p \in Procs, Install(p) PROVE TypeRefresh'
  <2>1. /\ pc[p] = "install"
        /\ pc' = [pc EXCEPT ![p] = "end"]
        /\ UNCHANGED <<bare, changed, failed, found, marks, keep>>
    BY <1>11, Zenon DEF Install, Advance
  <2> QED  BY <2>1, IndexAssumption, Zenon DEF TypeOK, TypeFiles, TypeMemory, TypeRefresh, Stamped,
              Versions, Nothing, AfterSave, Dropped, Ids
<1>12. ASSUME NEW p \in Procs, End(p) PROVE TypeRefresh'
  <2>1. CASE apc[p] \in {"own", "join"}
    <3>1. /\ apc[p] \in {"own", "join"}
          /\ pc[p] = "end"
          /\ pc' = [pc EXCEPT ![p] = "idle"]
          /\ bare' = [bare EXCEPT ![p] = FALSE]
          /\ failed' = [failed EXCEPT ![p] = FALSE]
          /\ found' = [found EXCEPT ![p] = Nothing]
          /\ marks' = [marks EXCEPT ![p] = Nothing]
          /\ changed' = [changed EXCEPT ![p] = FALSE]
          /\ keep' = [keep EXCEPT ![p] = {}]
      BY <1>12, <2>1, Zenon DEF End, Advance, NoRefresh
    <3> QED  BY <3>1, IndexAssumption DEF TypeOK, TypeFiles, TypeMemory, TypeRefresh, Stamped,
                Versions, Nothing, AfterSave, Dropped, Ids
  <2>2. CASE ~(apc[p] \in {"own", "join"})
    <3>1. /\ ~(apc[p] \in {"own", "join"})
          /\ pc[p] = "end"
          /\ pc' = [pc EXCEPT ![p] = "idle"]
          /\ bare' = [bare EXCEPT ![p] = FALSE]
          /\ failed' = [failed EXCEPT ![p] = FALSE]
          /\ found' = [found EXCEPT ![p] = Nothing]
          /\ marks' = [marks EXCEPT ![p] = Nothing]
          /\ changed' = [changed EXCEPT ![p] = FALSE]
          /\ keep' = [keep EXCEPT ![p] = {}]
      BY <1>12, <2>2, Zenon DEF End, Advance, NoRefresh
    <3> QED  BY <3>1, IndexAssumption DEF TypeOK, TypeFiles, TypeMemory, TypeRefresh, Stamped,
                Versions, Nothing, AfterSave, Dropped, Ids
  <2> QED  BY <2>1, <2>2, Zenon
<1>13. ASSUME NEW p \in Procs, ScanFails(p) PROVE TypeRefresh'
  <2>1. /\ pc[p] = "scan"
        /\ pc' = [pc EXCEPT ![p] = "end"]
        /\ failed' = [failed EXCEPT ![p] = TRUE]
        /\ faults < MaxFaults
        /\ UNCHANGED <<bare, changed, found, marks, keep>>
    BY <1>13, Zenon DEF ScanFails, Advance, Fails, Fault
  <2> QED  BY <2>1, IndexAssumption, Zenon DEF TypeOK, TypeFiles, TypeMemory, TypeRefresh, Stamped,
              Versions, Nothing, AfterSave, Dropped, Ids
<1>14. ASSUME NEW p \in Procs, SaveFails(p) PROVE TypeRefresh'
  <2>1. /\ pc[p] = "save"
        /\ pc' = [pc EXCEPT ![p] = "end"]
        /\ failed' = [failed EXCEPT ![p] = TRUE]
        /\ faults < MaxFaults
        /\ UNCHANGED <<bare, changed, found, marks, keep>>
    BY <1>14, Zenon DEF SaveFails, Advance, Fails, Fault
  <2> QED  BY <2>1, IndexAssumption, Zenon DEF TypeOK, TypeFiles, TypeMemory, TypeRefresh, Stamped,
              Versions, Nothing, AfterSave, Dropped, Ids
<1>15. ASSUME NEW p \in Procs, CacheFails(p) PROVE TypeRefresh'
  <2>1. CASE pc[p] = "cache"
    <3>1. /\ pc[p] = "cache"
          /\ pc' = [pc EXCEPT ![p] = "end"]
          /\ failed' = [failed EXCEPT ![p] = TRUE]
          /\ faults < MaxFaults
          /\ UNCHANGED <<bare, changed, found, marks, keep>>
      BY <1>15, <2>1, Zenon DEF CacheFails, Advance, Fails, Fault
    <3> QED  BY <3>1, IndexAssumption, Zenon DEF TypeOK, TypeFiles, TypeMemory, TypeRefresh, Stamped,
                Versions, Nothing, AfterSave, Dropped, Ids
  <2>2. CASE pc[p] # "cache"
    <3>1. /\ pc[p] = "fill"
          /\ pc' = [pc EXCEPT ![p] = "end"]
          /\ failed' = [failed EXCEPT ![p] = TRUE]
          /\ faults < MaxFaults
          /\ UNCHANGED <<bare, changed, found, marks, keep>>
      BY <1>15, <2>2, Zenon DEF CacheFails, Advance, Fails, Fault
    <3> QED  BY <3>1, IndexAssumption, Zenon DEF TypeOK, TypeFiles, TypeMemory, TypeRefresh, Stamped,
                Versions, Nothing, AfterSave, Dropped, Ids
  <2> QED  BY <2>1, <2>2, Zenon
<1>16. ASSUME NEW p \in Procs, Call(p) PROVE TypeRefresh'
  <2>1. CASE pc[p] = "idle"
    <3>1. /\ apc[p] = "refresh"
          /\ pc[p] = "idle"
          /\ pc' = [pc EXCEPT ![p] = "scan"]
          /\ bare' = [bare EXCEPT ![p] = ~loaded[p]]
          /\ failed' = [failed EXCEPT ![p] = FALSE]
          /\ UNCHANGED <<changed, found, marks, keep>>
      BY <1>16, <2>1, Zenon DEF Call, Claim
    <3> QED  BY <3>1, IndexAssumption, Zenon DEF TypeOK, TypeFiles, TypeMemory, TypeRefresh, Stamped,
                Versions, Nothing, AfterSave, Dropped, Ids
  <2>2. CASE pc[p] # "idle"
    <3>1. UNCHANGED seen
      BY <1>16, <2>2, Zenon DEF Call, Claim
    <3> QED  BY <1>0, <3>1, Zenon
  <2> QED  BY <2>1, <2>2, Zenon
<1>17. ASSUME NEW p \in Procs, Answer(p) PROVE UNCHANGED seen
  BY <1>17, Zenon DEF Answer
<1>18. ASSUME NEW p \in Procs, WaitCancelled(p) PROVE UNCHANGED seen
  BY <1>18, Zenon DEF WaitCancelled
<1>19. ASSUME NEW p \in Procs, NEW c \in Asked, Ask(p, c) PROVE UNCHANGED seen
  BY <1>19, Zenon DEF Ask
<1>20. CASE UNCHANGED vars
  BY <1>0, <1>20, Zenon DEF vars
<1> HIDE DEF seen, transcripts, files, memory, refresh, lookup, lookupHistory, fileHistory
<1> QED
  BY <1>0, <1>1, <1>2, <1>3, <1>3a, <1>4, <1>5, <1>6, <1>7, <1>8, <1>9, <1>10, <1>11, <1>12,
     <1>13, <1>14, <1>15, <1>16, <1>17, <1>18, <1>19, <1>20, Zenon DEF Next, RefreshStep, LookupStep

\* A lookup keeps its types.
LEMMA LookupTypeStep == TypeOK /\ [Next]_vars => TypeLookup'
<1> SUFFICES ASSUME TypeOK, [Next]_vars PROVE TypeLookup'  BY Zenon
<1> DEFINE seen == <<asking, apc, outcome, steady, rebuilt, joined>>
<1> USE DEF transcripts, files, memory, refresh, lookup, lookupHistory, fileHistory
<1>0. UNCHANGED seen => TypeLookup'
  BY DEF TypeOK, TypeMemory, TypeRefresh, TypeLookup
<1>1. ASSUME NEW c \in Convs, NEW readable \in BOOLEAN, Write(c, readable) PROVE TypeLookup'
  <2>1. /\ writes < MaxWrites
        /\ steady' = [q \in Procs |-> steady[q] /\ asking[q] # c]
        /\ UNCHANGED <<asking, apc, outcome, rebuilt, joined>>
    BY <1>1, Zenon DEF Write
  <2> QED  BY <2>1, IndexAssumption, Zenon DEF TypeOK, TypeMemory, TypeRefresh, TypeLookup
<1>2. ASSUME NEW c \in Convs, Remove(c) PROVE TypeLookup'
  <2>1. /\ c \in present
        /\ writes < MaxWrites
        /\ steady' = [q \in Procs |-> steady[q] /\ asking[q] # c]
        /\ UNCHANGED <<asking, apc, outcome, rebuilt, joined>>
    BY <1>2, Zenon DEF Remove
  <2> QED  BY <2>1, IndexAssumption, Zenon DEF TypeOK, TypeMemory, TypeRefresh, TypeLookup
<1>3. ASSUME NEW p \in Procs, Start(p) PROVE UNCHANGED seen
  BY <1>3, Zenon DEF Start
<1>3a. ASSUME NEW p \in Procs, StartUnloaded(p) PROVE UNCHANGED seen
  BY <1>3a, Zenon DEF StartUnloaded
<1>4. ASSUME NEW p \in Procs, Exit(p) PROVE TypeLookup'
  <2>1. /\ up[p] = "up"
        /\ asking' = [asking EXCEPT ![p] = None]
        /\ apc' = [apc EXCEPT ![p] = "idle"]
        /\ outcome' = [outcome EXCEPT ![p] = FALSE]
        /\ steady' = [steady EXCEPT ![p] = FALSE]
        /\ rebuilt' = [rebuilt EXCEPT ![p] = FALSE]
        /\ joined' = [joined EXCEPT ![p] = FALSE]
    BY <1>4, Zenon DEF Exit, NoRefresh, NoLookup, Fault
  <2> QED  BY <2>1, IndexAssumption, Zenon DEF TypeOK, TypeMemory, TypeRefresh, TypeLookup
<1>5. ASSUME NEW p \in Procs, Periodic(p) PROVE UNCHANGED seen
  BY <1>5, Zenon DEF Periodic
<1>6. ASSUME NEW p \in Procs, NEW unread \in SUBSET Convs, Scan(p, unread) PROVE UNCHANGED seen
  BY <1>6, Zenon DEF Scan
<1>7. ASSUME NEW p \in Procs, Retain(p) PROVE UNCHANGED seen
  BY <1>7, Zenon DEF Retain
<1>8. ASSUME NEW p \in Procs, Save(p) PROVE UNCHANGED seen
  BY <1>8, Zenon DEF Save
<1>9. ASSUME NEW p \in Procs, Truncate(p) PROVE UNCHANGED seen
  BY <1>9, Zenon DEF Truncate
<1>10. ASSUME NEW p \in Procs, Fill(p) PROVE UNCHANGED seen
  BY <1>10, Zenon DEF Fill
<1>11. ASSUME NEW p \in Procs, Install(p) PROVE TypeLookup'
  <2>1. /\ pc[p] = "install"
        /\ rebuilt' = [rebuilt EXCEPT ![p] = @ \/ apc[p] \in {"own", "join"}]
        /\ UNCHANGED <<asking, apc, outcome, steady, joined>>
    BY <1>11, Zenon DEF Install, Advance
  <2> QED  BY <2>1, IndexAssumption, Zenon DEF TypeOK, TypeMemory, TypeRefresh, TypeLookup
<1>12. ASSUME NEW p \in Procs, End(p) PROVE TypeLookup'
  <2>1. CASE apc[p] \in {"own", "join"}
    <3>1. /\ apc[p] \in {"own", "join"}
          /\ pc[p] = "end"
          /\ apc' = [apc EXCEPT ![p] = "ended"]
          /\ outcome' = [outcome EXCEPT ![p] = failed[p]]
          /\ UNCHANGED <<asking, steady, rebuilt, joined>>
      BY <1>12, <2>1, Zenon DEF End, Advance, NoRefresh
    <3> QED  BY <3>1, IndexAssumption, Zenon DEF TypeOK, TypeMemory, TypeRefresh, TypeLookup
  <2>2. CASE ~(apc[p] \in {"own", "join"})
    <3>1. UNCHANGED seen
      BY <1>12, <2>2, Zenon DEF End, Advance, NoRefresh
    <3> QED  BY <1>0, <3>1, Zenon
  <2> QED  BY <2>1, <2>2, Zenon
<1>13. ASSUME NEW p \in Procs, ScanFails(p) PROVE UNCHANGED seen
  BY <1>13, Zenon DEF ScanFails
<1>14. ASSUME NEW p \in Procs, SaveFails(p) PROVE UNCHANGED seen
  BY <1>14, Zenon DEF SaveFails
<1>15. ASSUME NEW p \in Procs, CacheFails(p) PROVE UNCHANGED seen
  BY <1>15, Zenon DEF CacheFails
<1>16. ASSUME NEW p \in Procs, Call(p) PROVE TypeLookup'
  <2>1. CASE pc[p] = "idle"
    <3>1. /\ apc[p] = "refresh"
          /\ pc[p] = "idle"
          /\ apc' = [apc EXCEPT ![p] = "own"]
          /\ rebuilt' = [rebuilt EXCEPT ![p] = FALSE]
          /\ UNCHANGED <<asking, outcome, steady, joined>>
      BY <1>16, <2>1, Zenon DEF Call, Claim
    <3> QED  BY <3>1, IndexAssumption, Zenon DEF TypeOK, TypeMemory, TypeRefresh, TypeLookup
  <2>2. CASE pc[p] # "idle"
    <3>1. /\ apc[p] = "refresh"
          /\ pc[p] # "idle"
          /\ apc' = [apc EXCEPT ![p] = "join"]
          /\ joined' = [joined EXCEPT ![p] = TRUE]
          /\ rebuilt' = [rebuilt EXCEPT ![p] = pc[p] = "end" /\ ~failed[p]]
          /\ UNCHANGED <<asking, outcome, steady>>
      BY <1>16, <2>2, Zenon DEF Call, Claim
    <3> QED  BY <3>1, IndexAssumption, Zenon DEF TypeOK, TypeMemory, TypeRefresh, TypeLookup
  <2> QED  BY <2>1, <2>2, Zenon
<1>17. ASSUME NEW p \in Procs, Answer(p) PROVE TypeLookup'
  <2>1. /\ apc[p] = "ended"
        /\ asking' = [asking EXCEPT ![p] = None]
        /\ apc' = [apc EXCEPT ![p] = "idle"]
        /\ outcome' = [outcome EXCEPT ![p] = FALSE]
        /\ steady' = [steady EXCEPT ![p] = FALSE]
        /\ rebuilt' = [rebuilt EXCEPT ![p] = FALSE]
        /\ joined' = [joined EXCEPT ![p] = FALSE]
    BY <1>17, Zenon DEF Answer, NoLookup
  <2> QED  BY <2>1, IndexAssumption, Zenon DEF TypeOK, TypeMemory, TypeRefresh, TypeLookup
<1>18. ASSUME NEW p \in Procs, WaitCancelled(p) PROVE TypeLookup'
  <2>1. /\ apc[p] = "join"
        /\ apc' = [apc EXCEPT ![p] = "ended"]
        /\ outcome' = [outcome EXCEPT ![p] = TRUE]
        /\ faults < MaxFaults
        /\ UNCHANGED <<asking, steady, rebuilt, joined>>
    BY <1>18, Zenon DEF WaitCancelled, Fault
  <2> QED  BY <2>1, IndexAssumption, Zenon DEF TypeOK, TypeMemory, TypeRefresh, TypeLookup
<1>19. ASSUME NEW p \in Procs, NEW c \in Asked, Ask(p, c) PROVE TypeLookup'
  <2>1. CASE loaded'[p] /\ c \notin Ids(records'[p]) \cup retained'[p]
    <3>1. /\ up[p] = "up"
          /\ apc[p] = "idle"
          /\ loaded'[p]
          /\ asking' = [asking EXCEPT ![p] = c]
          /\ apc' = [apc EXCEPT ![p] = "refresh"]
          /\ steady' = [steady EXCEPT ![p] = c \in present \ bad]
          /\ UNCHANGED <<outcome, rebuilt, joined>>
      BY <1>19, <2>1, Zenon DEF Ask, Load
    <3> QED  BY <3>1, IndexAssumption DEF TypeOK, TypeMemory, TypeRefresh, TypeLookup
  <2>2. CASE ~(loaded'[p] /\ c \notin Ids(records'[p]) \cup retained'[p])
    <3>1. UNCHANGED seen
      BY <1>19, <2>2, Zenon DEF Ask, Load
    <3> QED  BY <1>0, <3>1, Zenon
  <2> QED  BY <2>1, <2>2, Zenon
<1>20. CASE UNCHANGED vars
  BY <1>0, <1>20, Zenon DEF vars
<1> HIDE DEF seen, transcripts, files, memory, refresh, lookup, lookupHistory, fileHistory
<1> QED
  BY <1>0, <1>1, <1>2, <1>3, <1>3a, <1>4, <1>5, <1>6, <1>7, <1>8, <1>9, <1>10, <1>11, <1>12,
     <1>13, <1>14, <1>15, <1>16, <1>17, <1>18, <1>19, <1>20, Zenon DEF Next, RefreshStep, LookupStep

\* Empty is preserved.
LEMMA EmptyStep == TypeOK /\ Empty /\ [Next]_vars => Empty'
<1> SUFFICES ASSUME TypeOK /\ Empty, [Next]_vars PROVE Empty'  BY Zenon
<1> DEFINE seen == <<loaded, records, retained, pc, bare>>
<1> USE DEF transcripts, files, memory, refresh, lookup, lookupHistory, fileHistory
<1>0. UNCHANGED seen => Empty'
  BY DEF TypeOK, TypeMemory, TypeRefresh, Empty, Nothing, AfterSave
<1>1. ASSUME NEW c \in Convs, NEW readable \in BOOLEAN, Write(c, readable) PROVE UNCHANGED seen
  BY <1>1, Zenon DEF Write
<1>2. ASSUME NEW c \in Convs, Remove(c) PROVE UNCHANGED seen
  BY <1>2, Zenon DEF Remove
<1>3. ASSUME NEW p \in Procs, Start(p) PROVE Empty'
  <2>1. CASE p \in Daemons /\ ~loaded[p] /\ cache.whole
    <3>1. /\ up[p] = "off"
          /\ Cardinality({q \in Procs : up[q] = "up"}) < MaxUp
          /\ p \in Daemons
          /\ ~loaded[p]
          /\ cache.whole
          /\ loaded' = [loaded EXCEPT ![p] = TRUE]
          /\ records' = [records EXCEPT ![p] = cache.records]
          /\ retained' = [retained EXCEPT ![p] = retainedFile]
          /\ UNCHANGED <<pc, bare>>
      BY <1>3, <2>1, Zenon DEF Start, Load
    <3> QED  BY <3>1, IndexAssumption, Zenon DEF TypeOK, TypeMemory, TypeRefresh, Empty, Nothing, AfterSave
  <2>2. CASE ~(p \in Daemons /\ ~loaded[p] /\ cache.whole)
    <3>1. UNCHANGED seen
      BY <1>3, <2>2, Zenon DEF Start, Load
    <3> QED  BY <1>0, <3>1, Zenon
  <2> QED  BY <2>1, <2>2, Zenon
<1>3a. ASSUME NEW p \in Procs, StartUnloaded(p) PROVE UNCHANGED seen
  BY <1>3a, Zenon DEF StartUnloaded
<1>4. ASSUME NEW p \in Procs, Exit(p) PROVE Empty'
  <2>1. /\ up[p] = "up"
        /\ loaded' = [loaded EXCEPT ![p] = FALSE]
        /\ records' = [records EXCEPT ![p] = Nothing]
        /\ retained' = [retained EXCEPT ![p] = {}]
        /\ pc' = [pc EXCEPT ![p] = "idle"]
        /\ bare' = [bare EXCEPT ![p] = FALSE]
    BY <1>4, Zenon DEF Exit, NoRefresh, NoLookup, Fault
  <2> QED  BY <2>1, IndexAssumption, Zenon DEF TypeOK, TypeMemory, TypeRefresh, Empty, Nothing, AfterSave
<1>5. ASSUME NEW p \in Procs, Periodic(p) PROVE Empty'
  <2>1. /\ p \in Daemons
        /\ up[p] = "up"
        /\ pc[p] = "idle"
        /\ pc' = [pc EXCEPT ![p] = "scan"]
        /\ bare' = [bare EXCEPT ![p] = ~loaded[p]]
        /\ UNCHANGED <<loaded, records, retained>>
    BY <1>5, Zenon DEF Periodic, Claim
  <2> QED  BY <2>1, IndexAssumption, ZenonT(20) DEF TypeOK, TypeMemory, TypeRefresh, Empty,
              Nothing, AfterSave
<1>6. ASSUME NEW p \in Procs, NEW unread \in SUBSET Convs, Scan(p, unread) PROVE Empty'
  <2>1. /\ pc[p] = "scan"
        /\ pc' = [pc EXCEPT ![p] = "retain"]
        /\ UNCHANGED <<loaded, records, retained, bare>>
    BY <1>6, Zenon DEF Scan, Advance, Fault
  <2> QED  BY <2>1, IndexAssumption DEF TypeOK, TypeMemory, TypeRefresh, Empty, Nothing, AfterSave
<1>7. ASSUME NEW p \in Procs, Retain(p) PROVE Empty'
  <2>1. /\ pc[p] = "retain"
        /\ pc' = [pc EXCEPT ![p] = IF Dropped(p) # retained[p] THEN "save" ELSE AfterSave(p)]
        /\ UNCHANGED <<loaded, records, retained, bare>>
    BY <1>7, Zenon DEF Retain, Advance
  <2> QED  BY <2>1, IndexAssumption DEF TypeOK, TypeMemory, TypeRefresh, Empty, Nothing, AfterSave
<1>8. ASSUME NEW p \in Procs, Save(p) PROVE Empty'
  <2>1. /\ pc[p] = "save"
        /\ pc' = [pc EXCEPT ![p] = AfterSave(p)]
        /\ UNCHANGED <<loaded, records, retained, bare>>
    BY <1>8, Zenon DEF Save, Advance
  <2> QED  BY <2>1, IndexAssumption DEF TypeOK, TypeMemory, TypeRefresh, Empty, Nothing, AfterSave
<1>9. ASSUME NEW p \in Procs, Truncate(p) PROVE Empty'
  <2>1. /\ pc[p] = "cache"
        /\ pc' = [pc EXCEPT ![p] = "fill"]
        /\ UNCHANGED <<loaded, records, retained, bare>>
    BY <1>9, Zenon DEF Truncate, Advance
  <2> QED  BY <2>1, IndexAssumption DEF TypeOK, TypeMemory, TypeRefresh, Empty, Nothing, AfterSave
<1>10. ASSUME NEW p \in Procs, Fill(p) PROVE Empty'
  <2>1. /\ pc[p] = "fill"
        /\ pc' = [pc EXCEPT ![p] = "install"]
        /\ UNCHANGED <<loaded, records, retained, bare>>
    BY <1>10, Zenon DEF Fill, Advance
  <2> QED  BY <2>1, IndexAssumption DEF TypeOK, TypeMemory, TypeRefresh, Empty, Nothing, AfterSave
<1>11. ASSUME NEW p \in Procs, Install(p) PROVE Empty'
  <2>1. /\ pc[p] = "install"
        /\ pc' = [pc EXCEPT ![p] = "end"]
        /\ loaded' = [loaded EXCEPT ![p] = TRUE]
        /\ records' = [records EXCEPT ![p] = found[p]]
        /\ retained' = [retained EXCEPT ![p] = keep[p]]
        /\ UNCHANGED <<bare>>
    BY <1>11, Zenon DEF Install, Advance
  <2> QED  BY <2>1, IndexAssumption, Zenon DEF TypeOK, TypeMemory, TypeRefresh, Empty, Nothing, AfterSave
<1>12. ASSUME NEW p \in Procs, End(p) PROVE Empty'
  <2>1. CASE apc[p] \in {"own", "join"}
    <3>1. /\ apc[p] \in {"own", "join"}
          /\ pc[p] = "end"
          /\ pc' = [pc EXCEPT ![p] = "idle"]
          /\ bare' = [bare EXCEPT ![p] = FALSE]
          /\ UNCHANGED <<loaded, records, retained>>
      BY <1>12, <2>1, Zenon DEF End, Advance, NoRefresh
    <3> QED  BY <3>1, IndexAssumption DEF TypeOK, TypeMemory, TypeRefresh, Empty, Nothing, AfterSave
  <2>2. CASE ~(apc[p] \in {"own", "join"})
    <3>1. /\ ~(apc[p] \in {"own", "join"})
          /\ pc[p] = "end"
          /\ pc' = [pc EXCEPT ![p] = "idle"]
          /\ bare' = [bare EXCEPT ![p] = FALSE]
          /\ UNCHANGED <<loaded, records, retained>>
      BY <1>12, <2>2, Zenon DEF End, Advance, NoRefresh
    <3> QED  BY <3>1, IndexAssumption DEF TypeOK, TypeMemory, TypeRefresh, Empty, Nothing, AfterSave
  <2> QED  BY <2>1, <2>2, Zenon
<1>13. ASSUME NEW p \in Procs, ScanFails(p) PROVE Empty'
  <2>1. /\ pc[p] = "scan"
        /\ pc' = [pc EXCEPT ![p] = "end"]
        /\ faults < MaxFaults
        /\ UNCHANGED <<loaded, records, retained, bare>>
    BY <1>13, Zenon DEF ScanFails, Advance, Fails, Fault
  <2> QED  BY <2>1, IndexAssumption DEF TypeOK, TypeMemory, TypeRefresh, Empty, Nothing, AfterSave
<1>14. ASSUME NEW p \in Procs, SaveFails(p) PROVE Empty'
  <2>1. /\ pc[p] = "save"
        /\ pc' = [pc EXCEPT ![p] = "end"]
        /\ faults < MaxFaults
        /\ UNCHANGED <<loaded, records, retained, bare>>
    BY <1>14, Zenon DEF SaveFails, Advance, Fails, Fault
  <2> QED  BY <2>1, IndexAssumption DEF TypeOK, TypeMemory, TypeRefresh, Empty, Nothing, AfterSave
<1>15. ASSUME NEW p \in Procs, CacheFails(p) PROVE Empty'
  <2>1. CASE pc[p] = "cache"
    <3>1. /\ pc[p] = "cache"
          /\ pc' = [pc EXCEPT ![p] = "end"]
          /\ faults < MaxFaults
          /\ UNCHANGED <<loaded, records, retained, bare>>
      BY <1>15, <2>1, Zenon DEF CacheFails, Advance, Fails, Fault
    <3> QED  BY <3>1, IndexAssumption DEF TypeOK, TypeMemory, TypeRefresh, Empty, Nothing, AfterSave
  <2>2. CASE pc[p] # "cache"
    <3>1. /\ pc[p] = "fill"
          /\ pc' = [pc EXCEPT ![p] = "end"]
          /\ faults < MaxFaults
          /\ UNCHANGED <<loaded, records, retained, bare>>
      BY <1>15, <2>2, Zenon DEF CacheFails, Advance, Fails, Fault
    <3> QED  BY <3>1, IndexAssumption DEF TypeOK, TypeMemory, TypeRefresh, Empty, Nothing, AfterSave
  <2> QED  BY <2>1, <2>2, Zenon
<1>16. ASSUME NEW p \in Procs, Call(p) PROVE Empty'
  <2>1. CASE pc[p] = "idle"
    <3>1. /\ apc[p] = "refresh"
          /\ pc[p] = "idle"
          /\ pc' = [pc EXCEPT ![p] = "scan"]
          /\ bare' = [bare EXCEPT ![p] = ~loaded[p]]
          /\ UNCHANGED <<loaded, records, retained>>
      BY <1>16, <2>1, Zenon DEF Call, Claim
    <3> QED  BY <3>1, IndexAssumption, ZenonT(20) DEF TypeOK, TypeMemory, TypeRefresh, Empty,
                Nothing, AfterSave
  <2>2. CASE pc[p] # "idle"
    <3>1. UNCHANGED seen
      BY <1>16, <2>2, Zenon DEF Call, Claim
    <3> QED  BY <1>0, <3>1, Zenon
  <2> QED  BY <2>1, <2>2, Zenon
<1>17. ASSUME NEW p \in Procs, Answer(p) PROVE UNCHANGED seen
  BY <1>17, Zenon DEF Answer
<1>18. ASSUME NEW p \in Procs, WaitCancelled(p) PROVE UNCHANGED seen
  BY <1>18, Zenon DEF WaitCancelled
<1>19. ASSUME NEW p \in Procs, NEW c \in Asked, Ask(p, c) PROVE Empty'
  <2>1. CASE ~loaded[p] /\ cache.whole
    <3>1. /\ up[p] = "up"
          /\ apc[p] = "idle"
          /\ ~loaded[p]
          /\ cache.whole
          /\ loaded' = [loaded EXCEPT ![p] = TRUE]
          /\ records' = [records EXCEPT ![p] = cache.records]
          /\ retained' = [retained EXCEPT ![p] = retainedFile]
          /\ UNCHANGED <<pc, bare>>
      BY <1>19, <2>1, Zenon DEF Ask, Load
    <3> QED  BY <3>1, IndexAssumption, Zenon DEF TypeOK, TypeMemory, TypeRefresh, Empty, Nothing, AfterSave
  <2>2. CASE ~(~loaded[p] /\ cache.whole)
    <3>1. UNCHANGED seen
      BY <1>19, <2>2, Zenon DEF Ask, Load
    <3> QED  BY <1>0, <3>1, Zenon
  <2> QED  BY <2>1, <2>2, Zenon
<1>20. CASE UNCHANGED vars
  BY <1>0, <1>20, Zenon DEF vars
<1> HIDE DEF seen, transcripts, files, memory, refresh, lookup, lookupHistory, fileHistory
<1> QED
  BY <1>0, <1>1, <1>2, <1>3, <1>3a, <1>4, <1>5, <1>6, <1>7, <1>8, <1>9, <1>10, <1>11, <1>12,
     <1>13, <1>14, <1>15, <1>16, <1>17, <1>18, <1>19, <1>20, Zenon DEF Next, RefreshStep, LookupStep

\* Kept is preserved.
LEMMA KeptStep == TypeOK /\ Kept /\ Empty /\ [Next]_vars => Kept'
<1> SUFFICES ASSUME TypeOK /\ Kept /\ Empty, [Next]_vars PROVE Kept'  BY Zenon
<1> DEFINE seen == <<bare, pc, keep, records, retained, found>>
<1> USE DEF transcripts, files, memory, refresh, lookup, lookupHistory, fileHistory
<1>0. UNCHANGED seen => Kept'
  BY Zenon DEF TypeOK, TypeMemory, TypeRefresh, Empty, Kept, Dropped, AfterSave
<1>1. ASSUME NEW c \in Convs, NEW readable \in BOOLEAN, Write(c, readable) PROVE UNCHANGED seen
  BY <1>1, Zenon DEF Write
<1>2. ASSUME NEW c \in Convs, Remove(c) PROVE UNCHANGED seen
  BY <1>2, Zenon DEF Remove
<1>3. ASSUME NEW p \in Procs, Start(p) PROVE Kept'
  <2>1. CASE p \in Daemons /\ ~loaded[p] /\ cache.whole
    <3>1. /\ up[p] = "off"
          /\ Cardinality({q \in Procs : up[q] = "up"}) < MaxUp
          /\ p \in Daemons
          /\ ~loaded[p]
          /\ cache.whole
          /\ records' = [records EXCEPT ![p] = cache.records]
          /\ retained' = [retained EXCEPT ![p] = retainedFile]
          /\ UNCHANGED <<bare, pc, keep, found>>
      BY <1>3, <2>1, Zenon DEF Start, Load
    <3> QED  BY <3>1, IndexAssumption DEF TypeOK, TypeMemory, TypeRefresh, Empty, Kept, Dropped,
                AfterSave
  <2>2. CASE ~(p \in Daemons /\ ~loaded[p] /\ cache.whole)
    <3>1. UNCHANGED seen
      BY <1>3, <2>2, Zenon DEF Start, Load
    <3> QED  BY <1>0, <3>1, Zenon
  <2> QED  BY <2>1, <2>2, Zenon
<1>3a. ASSUME NEW p \in Procs, StartUnloaded(p) PROVE UNCHANGED seen
  BY <1>3a, Zenon DEF StartUnloaded
<1>4. ASSUME NEW p \in Procs, Exit(p) PROVE Kept'
  <2>1. /\ up[p] = "up"
        /\ records' = [records EXCEPT ![p] = Nothing]
        /\ retained' = [retained EXCEPT ![p] = {}]
        /\ pc' = [pc EXCEPT ![p] = "idle"]
        /\ bare' = [bare EXCEPT ![p] = FALSE]
        /\ found' = [found EXCEPT ![p] = Nothing]
        /\ keep' = [keep EXCEPT ![p] = {}]
    BY <1>4, Zenon DEF Exit, NoRefresh, NoLookup, Fault
  <2> QED  BY <2>1, IndexAssumption DEF TypeOK, TypeMemory, TypeRefresh, Empty, Kept, Dropped,
              AfterSave
<1>5. ASSUME NEW p \in Procs, Periodic(p) PROVE Kept'
  <2>1. /\ p \in Daemons
        /\ up[p] = "up"
        /\ pc[p] = "idle"
        /\ pc' = [pc EXCEPT ![p] = "scan"]
        /\ bare' = [bare EXCEPT ![p] = ~loaded[p]]
        /\ UNCHANGED <<keep, records, retained, found>>
    BY <1>5, Zenon DEF Periodic, Claim
  <2> QED  BY <2>1, IndexAssumption DEF TypeOK, TypeMemory, TypeRefresh, Empty, Kept, Dropped,
              AfterSave
<1>6. ASSUME NEW p \in Procs, NEW unread \in SUBSET Convs, Scan(p, unread) PROVE Kept'
  <2>1. /\ pc[p] = "scan"
        /\ pc' = [pc EXCEPT ![p] = "retain"]
        /\ found' = [found EXCEPT ![p] = [c \in Convs |-> ScanRecord(p, c, unread).record]]
        /\ UNCHANGED <<bare, keep, records, retained>>
    BY <1>6, Zenon DEF Scan, Advance, Fault
  <2> QED  BY <2>1, IndexAssumption DEF TypeOK, TypeMemory, TypeRefresh, Empty, Kept, Dropped,
              AfterSave
<1>7. ASSUME NEW p \in Procs, Retain(p) PROVE Kept'
  <2>1. /\ pc[p] = "retain"
        /\ pc' = [pc EXCEPT ![p] = IF Dropped(p) # retained[p] THEN "save" ELSE AfterSave(p)]
        /\ keep' = [keep EXCEPT ![p] = Dropped(p)]
        /\ UNCHANGED <<bare, records, retained, found>>
    BY <1>7, Zenon DEF Retain, Advance
  <2> QED  BY <2>1, IndexAssumption DEF TypeOK, TypeMemory, TypeRefresh, Empty, Kept, Dropped,
              AfterSave
<1>8. ASSUME NEW p \in Procs, Save(p) PROVE Kept'
  <2>1. /\ pc[p] = "save"
        /\ pc' = [pc EXCEPT ![p] = AfterSave(p)]
        /\ UNCHANGED <<bare, keep, records, retained, found>>
    BY <1>8, Zenon DEF Save, Advance
  <2>2. \A q \in Procs : q # p => pc'[q] = pc[q]
    BY <2>1, Zenon DEF TypeOK, TypeRefresh
  <2>3. \A q \in Procs : Dropped(q)' = Dropped(q)
    BY <2>1, Zenon DEF Dropped
  <2> QED  BY <2>1, <2>2, <2>3, Zenon DEF Kept
<1>9. ASSUME NEW p \in Procs, Truncate(p) PROVE Kept'
  <2>1. /\ pc[p] = "cache"
        /\ pc' = [pc EXCEPT ![p] = "fill"]
        /\ UNCHANGED <<bare, keep, records, retained, found>>
    BY <1>9, Zenon DEF Truncate, Advance
  <2> QED  BY <2>1, IndexAssumption DEF TypeOK, TypeMemory, TypeRefresh, Empty, Kept, Dropped,
              AfterSave
<1>10. ASSUME NEW p \in Procs, Fill(p) PROVE Kept'
  <2>1. /\ pc[p] = "fill"
        /\ pc' = [pc EXCEPT ![p] = "install"]
        /\ UNCHANGED <<bare, keep, records, retained, found>>
    BY <1>10, Zenon DEF Fill, Advance
  <2> QED  BY <2>1, IndexAssumption DEF TypeOK, TypeMemory, TypeRefresh, Empty, Kept, Dropped,
              AfterSave
<1>11. ASSUME NEW p \in Procs, Install(p) PROVE Kept'
  <2>1. /\ pc[p] = "install"
        /\ pc' = [pc EXCEPT ![p] = "end"]
        /\ records' = [records EXCEPT ![p] = found[p]]
        /\ retained' = [retained EXCEPT ![p] = keep[p]]
        /\ UNCHANGED <<bare, keep, found>>
    BY <1>11, Zenon DEF Install, Advance
  <2> QED  BY <2>1, IndexAssumption DEF TypeOK, TypeMemory, TypeRefresh, Empty, Kept, Dropped,
              AfterSave
<1>12. ASSUME NEW p \in Procs, End(p) PROVE Kept'
  <2>1. CASE apc[p] \in {"own", "join"}
    <3>1. /\ apc[p] \in {"own", "join"}
          /\ pc[p] = "end"
          /\ pc' = [pc EXCEPT ![p] = "idle"]
          /\ bare' = [bare EXCEPT ![p] = FALSE]
          /\ found' = [found EXCEPT ![p] = Nothing]
          /\ keep' = [keep EXCEPT ![p] = {}]
          /\ UNCHANGED <<records, retained>>
      BY <1>12, <2>1, Zenon DEF End, Advance, NoRefresh
    <3> QED  BY <3>1, IndexAssumption DEF TypeOK, TypeMemory, TypeRefresh, Empty, Kept, Dropped,
                AfterSave
  <2>2. CASE ~(apc[p] \in {"own", "join"})
    <3>1. /\ ~(apc[p] \in {"own", "join"})
          /\ pc[p] = "end"
          /\ pc' = [pc EXCEPT ![p] = "idle"]
          /\ bare' = [bare EXCEPT ![p] = FALSE]
          /\ found' = [found EXCEPT ![p] = Nothing]
          /\ keep' = [keep EXCEPT ![p] = {}]
          /\ UNCHANGED <<records, retained>>
      BY <1>12, <2>2, Zenon DEF End, Advance, NoRefresh
    <3> QED  BY <3>1, IndexAssumption DEF TypeOK, TypeMemory, TypeRefresh, Empty, Kept, Dropped,
                AfterSave
  <2> QED  BY <2>1, <2>2, Zenon
<1>13. ASSUME NEW p \in Procs, ScanFails(p) PROVE Kept'
  <2>1. /\ pc[p] = "scan"
        /\ pc' = [pc EXCEPT ![p] = "end"]
        /\ faults < MaxFaults
        /\ UNCHANGED <<bare, keep, records, retained, found>>
    BY <1>13, Zenon DEF ScanFails, Advance, Fails, Fault
  <2> QED  BY <2>1, IndexAssumption DEF TypeOK, TypeMemory, TypeRefresh, Empty, Kept, Dropped,
              AfterSave
<1>14. ASSUME NEW p \in Procs, SaveFails(p) PROVE Kept'
  <2>1. /\ pc[p] = "save"
        /\ pc' = [pc EXCEPT ![p] = "end"]
        /\ faults < MaxFaults
        /\ UNCHANGED <<bare, keep, records, retained, found>>
    BY <1>14, Zenon DEF SaveFails, Advance, Fails, Fault
  <2> QED  BY <2>1, IndexAssumption DEF TypeOK, TypeMemory, TypeRefresh, Empty, Kept, Dropped,
              AfterSave
<1>15. ASSUME NEW p \in Procs, CacheFails(p) PROVE Kept'
  <2>1. CASE pc[p] = "cache"
    <3>1. /\ pc[p] = "cache"
          /\ pc' = [pc EXCEPT ![p] = "end"]
          /\ faults < MaxFaults
          /\ UNCHANGED <<bare, keep, records, retained, found>>
      BY <1>15, <2>1, Zenon DEF CacheFails, Advance, Fails, Fault
    <3> QED  BY <3>1, IndexAssumption DEF TypeOK, TypeMemory, TypeRefresh, Empty, Kept, Dropped,
                AfterSave
  <2>2. CASE pc[p] # "cache"
    <3>1. /\ pc[p] = "fill"
          /\ pc' = [pc EXCEPT ![p] = "end"]
          /\ faults < MaxFaults
          /\ UNCHANGED <<bare, keep, records, retained, found>>
      BY <1>15, <2>2, Zenon DEF CacheFails, Advance, Fails, Fault
    <3> QED  BY <3>1, IndexAssumption DEF TypeOK, TypeMemory, TypeRefresh, Empty, Kept, Dropped,
                AfterSave
  <2> QED  BY <2>1, <2>2, Zenon
<1>16. ASSUME NEW p \in Procs, Call(p) PROVE Kept'
  <2>1. CASE pc[p] = "idle"
    <3>1. /\ apc[p] = "refresh"
          /\ pc[p] = "idle"
          /\ pc' = [pc EXCEPT ![p] = "scan"]
          /\ bare' = [bare EXCEPT ![p] = ~loaded[p]]
          /\ UNCHANGED <<keep, records, retained, found>>
      BY <1>16, <2>1, Zenon DEF Call, Claim
    <3> QED  BY <3>1, IndexAssumption DEF TypeOK, TypeMemory, TypeRefresh, Empty, Kept, Dropped,
                AfterSave
  <2>2. CASE pc[p] # "idle"
    <3>1. UNCHANGED seen
      BY <1>16, <2>2, Zenon DEF Call, Claim
    <3> QED  BY <1>0, <3>1, Zenon
  <2> QED  BY <2>1, <2>2, Zenon
<1>17. ASSUME NEW p \in Procs, Answer(p) PROVE UNCHANGED seen
  BY <1>17, Zenon DEF Answer
<1>18. ASSUME NEW p \in Procs, WaitCancelled(p) PROVE UNCHANGED seen
  BY <1>18, Zenon DEF WaitCancelled
<1>19. ASSUME NEW p \in Procs, NEW c \in Asked, Ask(p, c) PROVE Kept'
  <2>1. CASE ~loaded[p] /\ cache.whole
    <3>1. /\ records' = [records EXCEPT ![p] = cache.records]
          /\ retained' = [retained EXCEPT ![p] = retainedFile]
          /\ UNCHANGED <<bare, pc, keep, found>>
      BY <1>19, <2>1, Zenon DEF Ask, Load
    <3>2. bare[p] \/ pc[p] = "idle"
      BY <2>1, Zenon DEF Empty
    <3>3. \A q \in Procs : q # p => Dropped(q)' = Dropped(q)
      BY <3>1, Zenon DEF Dropped, TypeOK, TypeMemory
    <3> QED  BY <3>1, <3>2, <3>3, Zenon DEF Kept
  <2>2. CASE ~(~loaded[p] /\ cache.whole)
    <3>1. UNCHANGED seen
      BY <1>19, <2>2, Zenon DEF Ask, Load
    <3> QED  BY <1>0, <3>1, Zenon
  <2> QED  BY <2>1, <2>2, Zenon
<1>20. CASE UNCHANGED vars
  BY <1>0, <1>20, Zenon DEF vars
<1> HIDE DEF seen, transcripts, files, memory, refresh, lookup, lookupHistory, fileHistory
<1> QED
  BY <1>0, <1>1, <1>2, <1>3, <1>3a, <1>4, <1>5, <1>6, <1>7, <1>8, <1>9, <1>10, <1>11, <1>12,
     <1>13, <1>14, <1>15, <1>16, <1>17, <1>18, <1>19, <1>20, Zenon DEF Next, RefreshStep, LookupStep

\* Rebuilt is preserved.
LEMMA RebuiltStep == TypeOK /\ Rebuilt /\ [Next]_vars => Rebuilt'
<1> SUFFICES ASSUME TypeOK /\ Rebuilt, [Next]_vars PROVE Rebuilt'  BY Zenon
<1> DEFINE seen == <<apc, outcome, rebuilt, pc, failed>>
<1> USE DEF transcripts, files, memory, refresh, lookup, lookupHistory, fileHistory
<1>0. UNCHANGED seen => Rebuilt'
  BY Zenon DEF TypeOK, TypeRefresh, TypeLookup, Rebuilt, AfterSave
<1>1. ASSUME NEW c \in Convs, NEW readable \in BOOLEAN, Write(c, readable) PROVE UNCHANGED seen
  BY <1>1, Zenon DEF Write
<1>2. ASSUME NEW c \in Convs, Remove(c) PROVE UNCHANGED seen
  BY <1>2, Zenon DEF Remove
<1>3. ASSUME NEW p \in Procs, Start(p) PROVE UNCHANGED seen
  BY <1>3, Zenon DEF Start
<1>3a. ASSUME NEW p \in Procs, StartUnloaded(p) PROVE UNCHANGED seen
  BY <1>3a, Zenon DEF StartUnloaded
<1>4. ASSUME NEW p \in Procs, Exit(p) PROVE Rebuilt'
  <2>1. /\ up[p] = "up"
        /\ pc' = [pc EXCEPT ![p] = "idle"]
        /\ failed' = [failed EXCEPT ![p] = FALSE]
        /\ apc' = [apc EXCEPT ![p] = "idle"]
        /\ outcome' = [outcome EXCEPT ![p] = FALSE]
        /\ rebuilt' = [rebuilt EXCEPT ![p] = FALSE]
    BY <1>4, Zenon DEF Exit, NoRefresh, NoLookup, Fault
  <2> QED  BY <2>1, IndexAssumption, Zenon DEF TypeOK, TypeRefresh, TypeLookup, Rebuilt, AfterSave
<1>5. ASSUME NEW p \in Procs, Periodic(p) PROVE Rebuilt'
  <2>1. /\ p \in Daemons
        /\ up[p] = "up"
        /\ pc[p] = "idle"
        /\ pc' = [pc EXCEPT ![p] = "scan"]
        /\ failed' = [failed EXCEPT ![p] = FALSE]
        /\ UNCHANGED <<apc, outcome, rebuilt>>
    BY <1>5, Zenon DEF Periodic, Claim
  <2> QED  BY <2>1, IndexAssumption, Zenon DEF TypeOK, TypeRefresh, TypeLookup, Rebuilt, AfterSave
<1>6. ASSUME NEW p \in Procs, NEW unread \in SUBSET Convs, Scan(p, unread) PROVE Rebuilt'
  <2>1. /\ pc[p] = "scan"
        /\ pc' = [pc EXCEPT ![p] = "retain"]
        /\ UNCHANGED <<apc, outcome, rebuilt, failed>>
    BY <1>6, Zenon DEF Scan, Advance, Fault
  <2> QED  BY <2>1, IndexAssumption, Zenon DEF TypeOK, TypeRefresh, TypeLookup, Rebuilt, AfterSave
<1>7. ASSUME NEW p \in Procs, Retain(p) PROVE Rebuilt'
  <2>1. /\ pc[p] = "retain"
        /\ pc' = [pc EXCEPT ![p] = IF Dropped(p) # retained[p] THEN "save" ELSE AfterSave(p)]
        /\ UNCHANGED <<apc, outcome, rebuilt, failed>>
    BY <1>7, Zenon DEF Retain, Advance
  <2> QED  BY <2>1, IndexAssumption, Zenon DEF TypeOK, TypeRefresh, TypeLookup, Rebuilt, AfterSave
<1>8. ASSUME NEW p \in Procs, Save(p) PROVE Rebuilt'
  <2>1. /\ pc[p] = "save"
        /\ pc' = [pc EXCEPT ![p] = AfterSave(p)]
        /\ UNCHANGED <<apc, outcome, rebuilt, failed>>
    BY <1>8, Zenon DEF Save, Advance
  <2> QED  BY <2>1, IndexAssumption, Zenon DEF TypeOK, TypeRefresh, TypeLookup, Rebuilt, AfterSave
<1>9. ASSUME NEW p \in Procs, Truncate(p) PROVE Rebuilt'
  <2>1. /\ pc[p] = "cache"
        /\ pc' = [pc EXCEPT ![p] = "fill"]
        /\ UNCHANGED <<apc, outcome, rebuilt, failed>>
    BY <1>9, Zenon DEF Truncate, Advance
  <2> QED  BY <2>1, IndexAssumption, Zenon DEF TypeOK, TypeRefresh, TypeLookup, Rebuilt, AfterSave
<1>10. ASSUME NEW p \in Procs, Fill(p) PROVE Rebuilt'
  <2>1. /\ pc[p] = "fill"
        /\ pc' = [pc EXCEPT ![p] = "install"]
        /\ UNCHANGED <<apc, outcome, rebuilt, failed>>
    BY <1>10, Zenon DEF Fill, Advance
  <2> QED  BY <2>1, IndexAssumption, Zenon DEF TypeOK, TypeRefresh, TypeLookup, Rebuilt, AfterSave
<1>11. ASSUME NEW p \in Procs, Install(p) PROVE Rebuilt'
  <2>1. /\ pc[p] = "install"
        /\ pc' = [pc EXCEPT ![p] = "end"]
        /\ rebuilt' = [rebuilt EXCEPT ![p] = @ \/ apc[p] \in {"own", "join"}]
        /\ UNCHANGED <<apc, outcome, failed>>
    BY <1>11, Zenon DEF Install, Advance
  <2> QED  BY <2>1, IndexAssumption, Zenon DEF TypeOK, TypeRefresh, TypeLookup, Rebuilt, AfterSave
<1>12. ASSUME NEW p \in Procs, End(p) PROVE Rebuilt'
  <2>1. CASE apc[p] \in {"own", "join"}
    <3>1. /\ apc[p] \in {"own", "join"}
          /\ pc[p] = "end"
          /\ pc' = [pc EXCEPT ![p] = "idle"]
          /\ failed' = [failed EXCEPT ![p] = FALSE]
          /\ apc' = [apc EXCEPT ![p] = "ended"]
          /\ outcome' = [outcome EXCEPT ![p] = failed[p]]
          /\ UNCHANGED <<rebuilt>>
      BY <1>12, <2>1, Zenon DEF End, Advance, NoRefresh
    <3> QED  BY <3>1, IndexAssumption, Zenon DEF TypeOK, TypeRefresh, TypeLookup, Rebuilt, AfterSave
  <2>2. CASE ~(apc[p] \in {"own", "join"})
    <3>1. /\ ~(apc[p] \in {"own", "join"})
          /\ pc[p] = "end"
          /\ pc' = [pc EXCEPT ![p] = "idle"]
          /\ failed' = [failed EXCEPT ![p] = FALSE]
          /\ UNCHANGED <<apc, outcome, rebuilt>>
      BY <1>12, <2>2, Zenon DEF End, Advance, NoRefresh
    <3> QED  BY <3>1, IndexAssumption, Zenon DEF TypeOK, TypeRefresh, TypeLookup, Rebuilt, AfterSave
  <2> QED  BY <2>1, <2>2, Zenon
<1>13. ASSUME NEW p \in Procs, ScanFails(p) PROVE Rebuilt'
  <2>1. /\ pc[p] = "scan"
        /\ pc' = [pc EXCEPT ![p] = "end"]
        /\ failed' = [failed EXCEPT ![p] = TRUE]
        /\ faults < MaxFaults
        /\ UNCHANGED <<apc, outcome, rebuilt>>
    BY <1>13, Zenon DEF ScanFails, Advance, Fails, Fault
  <2> QED  BY <2>1, IndexAssumption, Zenon DEF TypeOK, TypeRefresh, TypeLookup, Rebuilt, AfterSave
<1>14. ASSUME NEW p \in Procs, SaveFails(p) PROVE Rebuilt'
  <2>1. /\ pc[p] = "save"
        /\ pc' = [pc EXCEPT ![p] = "end"]
        /\ failed' = [failed EXCEPT ![p] = TRUE]
        /\ faults < MaxFaults
        /\ UNCHANGED <<apc, outcome, rebuilt>>
    BY <1>14, Zenon DEF SaveFails, Advance, Fails, Fault
  <2> QED  BY <2>1, IndexAssumption, Zenon DEF TypeOK, TypeRefresh, TypeLookup, Rebuilt, AfterSave
<1>15. ASSUME NEW p \in Procs, CacheFails(p) PROVE Rebuilt'
  <2>1. CASE pc[p] = "cache"
    <3>1. /\ pc[p] = "cache"
          /\ pc' = [pc EXCEPT ![p] = "end"]
          /\ failed' = [failed EXCEPT ![p] = TRUE]
          /\ faults < MaxFaults
          /\ UNCHANGED <<apc, outcome, rebuilt>>
      BY <1>15, <2>1, Zenon DEF CacheFails, Advance, Fails, Fault
    <3> QED  BY <3>1, IndexAssumption, Zenon DEF TypeOK, TypeRefresh, TypeLookup, Rebuilt, AfterSave
  <2>2. CASE pc[p] # "cache"
    <3>1. /\ pc[p] = "fill"
          /\ pc' = [pc EXCEPT ![p] = "end"]
          /\ failed' = [failed EXCEPT ![p] = TRUE]
          /\ faults < MaxFaults
          /\ UNCHANGED <<apc, outcome, rebuilt>>
      BY <1>15, <2>2, Zenon DEF CacheFails, Advance, Fails, Fault
    <3> QED  BY <3>1, IndexAssumption, Zenon DEF TypeOK, TypeRefresh, TypeLookup, Rebuilt, AfterSave
  <2> QED  BY <2>1, <2>2, Zenon
<1>16. ASSUME NEW p \in Procs, Call(p) PROVE Rebuilt'
  <2>1. CASE pc[p] = "idle"
    <3>1. /\ apc[p] = "refresh"
          /\ pc[p] = "idle"
          /\ pc' = [pc EXCEPT ![p] = "scan"]
          /\ failed' = [failed EXCEPT ![p] = FALSE]
          /\ apc' = [apc EXCEPT ![p] = "own"]
          /\ rebuilt' = [rebuilt EXCEPT ![p] = FALSE]
          /\ UNCHANGED <<outcome>>
      BY <1>16, <2>1, Zenon DEF Call, Claim
    <3> QED  BY <3>1, IndexAssumption, ZenonT(20) DEF TypeOK, TypeRefresh, TypeLookup, Rebuilt,
                AfterSave
  <2>2. CASE pc[p] # "idle"
    <3>1. /\ apc[p] = "refresh"
          /\ pc[p] # "idle"
          /\ apc' = [apc EXCEPT ![p] = "join"]
          /\ rebuilt' = [rebuilt EXCEPT ![p] = pc[p] = "end" /\ ~failed[p]]
          /\ UNCHANGED <<outcome, pc, failed>>
      BY <1>16, <2>2, Zenon DEF Call, Claim
    <3> QED  BY <3>1, IndexAssumption, ZenonT(20) DEF TypeOK, TypeRefresh, TypeLookup, Rebuilt,
                AfterSave
  <2> QED  BY <2>1, <2>2, Zenon
<1>17. ASSUME NEW p \in Procs, Answer(p) PROVE Rebuilt'
  <2>1. /\ apc[p] = "ended"
        /\ apc' = [apc EXCEPT ![p] = "idle"]
        /\ outcome' = [outcome EXCEPT ![p] = FALSE]
        /\ rebuilt' = [rebuilt EXCEPT ![p] = FALSE]
        /\ UNCHANGED <<pc, failed>>
    BY <1>17, Zenon DEF Answer, NoLookup
  <2> QED  BY <2>1, IndexAssumption, Zenon DEF TypeOK, TypeRefresh, TypeLookup, Rebuilt, AfterSave
<1>18. ASSUME NEW p \in Procs, WaitCancelled(p) PROVE Rebuilt'
  <2>1. /\ apc[p] = "join"
        /\ apc' = [apc EXCEPT ![p] = "ended"]
        /\ outcome' = [outcome EXCEPT ![p] = TRUE]
        /\ faults < MaxFaults
        /\ UNCHANGED <<rebuilt, pc, failed>>
    BY <1>18, Zenon DEF WaitCancelled, Fault
  <2> QED  BY <2>1, IndexAssumption, Zenon DEF TypeOK, TypeRefresh, TypeLookup, Rebuilt, AfterSave
<1>19. ASSUME NEW p \in Procs, NEW c \in Asked, Ask(p, c) PROVE Rebuilt'
  <2>1. CASE loaded'[p] /\ c \notin Ids(records'[p]) \cup retained'[p]
    <3>1. /\ up[p] = "up"
          /\ apc[p] = "idle"
          /\ loaded'[p]
          /\ apc' = [apc EXCEPT ![p] = "refresh"]
          /\ UNCHANGED <<outcome, rebuilt, pc, failed>>
      BY <1>19, <2>1, Zenon DEF Ask, Load
    <3> QED  BY <3>1, IndexAssumption, Zenon DEF TypeOK, TypeRefresh, TypeLookup, Rebuilt, AfterSave
  <2>2. CASE ~(loaded'[p] /\ c \notin Ids(records'[p]) \cup retained'[p])
    <3>1. UNCHANGED seen
      BY <1>19, <2>2, Zenon DEF Ask, Load
    <3> QED  BY <1>0, <3>1, Zenon
  <2> QED  BY <2>1, <2>2, Zenon
<1>20. CASE UNCHANGED vars
  BY <1>0, <1>20, Zenon DEF vars
<1> HIDE DEF seen, transcripts, files, memory, refresh, lookup, lookupHistory, fileHistory
<1> QED
  BY <1>0, <1>1, <1>2, <1>3, <1>3a, <1>4, <1>5, <1>6, <1>7, <1>8, <1>9, <1>10, <1>11, <1>12,
     <1>13, <1>14, <1>15, <1>16, <1>17, <1>18, <1>19, <1>20, Zenon DEF Next, RefreshStep, LookupStep

\* What a process lists does not shrink while it is up.
LEMMA GrowsStep == TypeOK /\ Empty /\ Kept /\ [Next]_vars => (\A q \in Procs : Grows(q))
<1> SUFFICES ASSUME TypeOK /\ Empty /\ Kept, [Next]_vars PROVE (\A q \in Procs : Grows(q))  BY Zenon
<1> DEFINE seen == <<records, retained, up>>
<1> USE DEF transcripts, files, memory, refresh, lookup, lookupHistory, fileHistory
<1>0. UNCHANGED seen => (\A q \in Procs : Grows(q))
  BY Zenon DEF TypeOK, TypeMemory, TypeRefresh, Empty, Kept, Dropped, Grows, Served, Ids, Nothing
<1>1. ASSUME NEW c \in Convs, NEW readable \in BOOLEAN, Write(c, readable) PROVE UNCHANGED seen
  BY <1>1, Zenon DEF Write
<1>2. ASSUME NEW c \in Convs, Remove(c) PROVE UNCHANGED seen
  BY <1>2, Zenon DEF Remove
<1>3. ASSUME NEW p \in Procs, Start(p) PROVE (\A q \in Procs : Grows(q))
  <2>1. CASE p \in Daemons /\ ~loaded[p] /\ cache.whole
    <3>1. /\ up[p] = "off"
          /\ Cardinality({q \in Procs : up[q] = "up"}) < MaxUp
          /\ up' = [up EXCEPT ![p] = "up"]
          /\ p \in Daemons
          /\ ~loaded[p]
          /\ cache.whole
          /\ records' = [records EXCEPT ![p] = cache.records]
          /\ retained' = [retained EXCEPT ![p] = retainedFile]
      BY <1>3, <2>1, Zenon DEF Start, Load
    <3> QED  BY <3>1, IndexAssumption DEF TypeOK, TypeMemory, TypeRefresh, Empty, Kept, Dropped,
                Grows, Served, Ids, Nothing
  <2>2. CASE ~(p \in Daemons /\ ~loaded[p] /\ cache.whole)
    <3>1. /\ up[p] = "off"
          /\ Cardinality({q \in Procs : up[q] = "up"}) < MaxUp
          /\ up' = [up EXCEPT ![p] = "up"]
          /\ ~(p \in Daemons /\ ~loaded[p] /\ cache.whole)
          /\ UNCHANGED <<records, retained>>
      BY <1>3, <2>2, Zenon DEF Start, Load
    <3> QED  BY <3>1, IndexAssumption, Zenon DEF TypeOK, TypeMemory, TypeRefresh, Empty, Kept, Dropped,
                Grows, Served, Ids, Nothing
  <2> QED  BY <2>1, <2>2, Zenon
<1>3a. ASSUME NEW p \in Procs, StartUnloaded(p) PROVE (\A q \in Procs : Grows(q))
  <2>1. UNCHANGED <<records, retained>>
    BY <1>3a, Zenon DEF StartUnloaded
  <2> QED  BY <2>1, Zenon DEF Grows, Served, Ids
<1>4. ASSUME NEW p \in Procs, Exit(p) PROVE (\A q \in Procs : Grows(q))
  <2>1. /\ up[p] = "up"
        /\ up' = [up EXCEPT ![p] = "down"]
        /\ records' = [records EXCEPT ![p] = Nothing]
        /\ retained' = [retained EXCEPT ![p] = {}]
    BY <1>4, Zenon DEF Exit, NoRefresh, NoLookup, Fault
  <2> QED  BY <2>1, IndexAssumption DEF TypeOK, TypeMemory, TypeRefresh, Empty, Kept, Dropped,
              Grows, Served, Ids, Nothing
<1>5. ASSUME NEW p \in Procs, Periodic(p) PROVE UNCHANGED seen
  BY <1>5, Zenon DEF Periodic
<1>6. ASSUME NEW p \in Procs, NEW unread \in SUBSET Convs, Scan(p, unread) PROVE UNCHANGED seen
  BY <1>6, Zenon DEF Scan
<1>7. ASSUME NEW p \in Procs, Retain(p) PROVE UNCHANGED seen
  BY <1>7, Zenon DEF Retain
<1>8. ASSUME NEW p \in Procs, Save(p) PROVE UNCHANGED seen
  BY <1>8, Zenon DEF Save
<1>9. ASSUME NEW p \in Procs, Truncate(p) PROVE UNCHANGED seen
  BY <1>9, Zenon DEF Truncate
<1>10. ASSUME NEW p \in Procs, Fill(p) PROVE UNCHANGED seen
  BY <1>10, Zenon DEF Fill
<1>11. ASSUME NEW p \in Procs, Install(p) PROVE (\A q \in Procs : Grows(q))
  <2>1. /\ pc[p] = "install"
        /\ records' = [records EXCEPT ![p] = found[p]]
        /\ retained' = [retained EXCEPT ![p] = keep[p]]
        /\ UNCHANGED <<up>>
    BY <1>11, Zenon DEF Install, Advance
  <2> QED  BY <2>1, IndexAssumption DEF TypeOK, TypeMemory, TypeRefresh, Empty, Kept, Dropped,
              Grows, Served, Ids, Nothing
<1>12. ASSUME NEW p \in Procs, End(p) PROVE UNCHANGED seen
  BY <1>12, Zenon DEF End
<1>13. ASSUME NEW p \in Procs, ScanFails(p) PROVE UNCHANGED seen
  BY <1>13, Zenon DEF ScanFails
<1>14. ASSUME NEW p \in Procs, SaveFails(p) PROVE UNCHANGED seen
  BY <1>14, Zenon DEF SaveFails
<1>15. ASSUME NEW p \in Procs, CacheFails(p) PROVE UNCHANGED seen
  BY <1>15, Zenon DEF CacheFails
<1>16. ASSUME NEW p \in Procs, Call(p) PROVE UNCHANGED seen
  BY <1>16, Zenon DEF Call
<1>17. ASSUME NEW p \in Procs, Answer(p) PROVE UNCHANGED seen
  BY <1>17, Zenon DEF Answer
<1>18. ASSUME NEW p \in Procs, WaitCancelled(p) PROVE UNCHANGED seen
  BY <1>18, Zenon DEF WaitCancelled
<1>19. ASSUME NEW p \in Procs, NEW c \in Asked, Ask(p, c) PROVE (\A q \in Procs : Grows(q))
  <2>1. CASE ~loaded[p] /\ cache.whole
    <3>1. /\ up[p] = "up"
          /\ apc[p] = "idle"
          /\ ~loaded[p]
          /\ cache.whole
          /\ records' = [records EXCEPT ![p] = cache.records]
          /\ retained' = [retained EXCEPT ![p] = retainedFile]
          /\ UNCHANGED <<up>>
      BY <1>19, <2>1, Zenon DEF Ask, Load
    <3> QED  BY <3>1, IndexAssumption DEF TypeOK, TypeMemory, TypeRefresh, Empty, Kept, Dropped,
                Grows, Served, Ids, Nothing
  <2>2. CASE ~(~loaded[p] /\ cache.whole)
    <3>1. UNCHANGED seen
      BY <1>19, <2>2, Zenon DEF Ask, Load
    <3> QED  BY <1>0, <3>1, Zenon
  <2> QED  BY <2>1, <2>2, Zenon
<1>20. CASE UNCHANGED vars
  BY <1>0, <1>20, Zenon DEF vars
<1> HIDE DEF seen, transcripts, files, memory, refresh, lookup, lookupHistory, fileHistory
<1> QED
  BY <1>0, <1>1, <1>2, <1>3, <1>3a, <1>4, <1>5, <1>6, <1>7, <1>8, <1>9, <1>10, <1>11, <1>12,
     <1>13, <1>14, <1>15, <1>16, <1>17, <1>18, <1>19, <1>20, Zenon DEF Next, RefreshStep, LookupStep

\* The inductive invariant.
IInv == TypeOK /\ Counted /\ Empty /\ Kept /\ Rebuilt

\* It holds initially and every step preserves it.
LEMMA Invariance == Spec => []IInv
<1>1. Init => IInv
  <2> SUFFICES ASSUME Init PROVE IInv  BY Zenon
  <2>0. Nothing \in Stamped /\ 0 \in 0..MaxWrites /\ 0 \in 0..MaxFaults
    BY IndexAssumption DEF Nothing, Stamped, Versions
  <2>1. TypeFiles
    <3>1. version \in Stamped
      BY IndexAssumption DEF Init, Stamped, Versions
    <3>2. cache \in [whole : BOOLEAN, present : BOOLEAN, records : Stamped, stamps : Stamped]
      BY <2>0, Zenon DEF Init, Missing
    <3> QED  BY <2>0, <3>1, <3>2, IndexAssumption, ZenonT(40) DEF Init, TypeFiles
  <2>2. TypeMemory
    BY <2>0, Zenon DEF Init, TypeMemory
  <2>3. TypeRefresh
    BY <2>0, Zenon DEF Init, TypeRefresh
  <2>4. TypeLookup
    BY Zenon DEF Init, TypeLookup
  <2>5. Counted /\ Empty /\ Kept /\ Rebuilt
    BY DEF Init, Counted, Empty, Kept, Rebuilt
  <2> QED  BY <2>1, <2>2, <2>3, <2>4, <2>5, Zenon DEF IInv, TypeOK
<1>2. IInv /\ [Next]_vars => IInv'
  BY FilesStep, CountedStep, MemoryStep, RefreshTypeStep, LookupTypeStep, EmptyStep, KeptStep,
     RebuiltStep, Zenon DEF IInv, TypeOK
<1> QED
  BY <1>1, <1>2, PTL DEF Spec

\* Index, files, refreshes and lookups stay well typed, for any conversations, processes
\* and bounds.
THEOREM TypeCorrect == Spec => []TypeOK
<1>1. IInv => TypeOK
  BY Zenon DEF IInv
<1> QED
  BY <1>1, Invariance, PTL

\* However many processes overlap, and whatever fails: a miss is called confirmed only if
\* the very refresh that the lookup ran or waited for has installed its records
\* (refreshWithReason, waitForRefresh, endRefresh).
THEOREM ConfirmedAfterRebuild == Spec => []FreshMeansRebuilt
<1>1. IInv => FreshMeansRebuilt
  BY Zenon DEF IInv, Rebuilt, FreshMeansRebuilt, Verdict
<1> QED
  BY <1>1, Invariance, PTL

\* What a process lists does not shrink while it is up, except through a refresh that
\* began before the files could be loaded (retainDropped, installRefreshResult).
THEOREM ListsNeverShrink == Spec => ServedNeverShrinks
<1>1. IInv /\ [Next]_vars =>
        [\A p \in Procs : up'[p] = "up" /\ ~(bare[p] /\ pc[p] = "install") =>
            Served(p) \subseteq Served(p)']_vars
  BY GrowsStep, Zenon DEF IInv, Grows
<1> QED
  BY <1>1, Invariance, PTL DEF Spec, ServedNeverShrinks

=============================================================================
