---------------------- MODULE ConversationIndexFilesProofs ----------------------
(***************************************************************************)
(* Theorems about the files of ConversationIndex: as long as processes     *)
(* follow one another and none refreshes before the files could be loaded, *)
(* nothing that was ever listed is forgotten; and whatever the files hold, *)
(* a lookup does not call a transcript absent that its own refresh could   *)
(* read.                                                                   *)
(***************************************************************************)
EXTENDS ConversationIndexProofs, FiniteSetTheorems

\* Processes follow one another, and none refreshed before the files could be loaded.
Orderly == MaxUp = 1 /\ ~blind

\* Then one process is up at most, and a process that is not up has nothing under way.
Alone ==
    /\ \A p \in Procs : up[p] # "up" => pc[p] = "idle" /\ apc[p] = "idle" /\ ~loaded[p]
    /\ MaxUp = 1 => \A p, q \in Procs : up[p] = "up" /\ up[q] = "up" => p = q

\* Every process that refreshes has loaded the files before.
Loadable ==
    Orderly =>
        \A p \in Procs : up[p] = "up" =>
            /\ apc[p] = "refresh" => loaded[p]
            /\ pc[p] # "idle" => loaded[p] /\ ~bare[p]

\* A cache file that is whole holds the records of the process that is up, until that
\* writes it.
Agree ==
    Orderly =>
        \A p \in Procs : up[p] = "up" /\ loaded[p] =>
            /\ pc[p] = "fill" => ~cache.whole
            /\ cache.whole /\ pc[p] # "install" => cache.records = records[p]
            /\ cache.whole /\ pc[p] = "install" => cache.records = found[p]
            /\ pc[p] \in {"retain", "save"} /\ ~changed[p] => found[p] = records[p]

\* What was ever listed is in a cache file that is whole or in the retained file, undone
\* excepted; and so is what the process retains in the retained file, and what it will
\* retain once this is saved.
Covered ==
    Orderly =>
        /\ cache.whole => known \ undone \subseteq OnDisk
        /\ \A p \in Procs : up[p] = "up" /\ loaded[p] =>
              /\ pc[p] # "install" => retained[p] \ retainedFile \subseteq undone
              /\ pc[p] \in {"cache", "fill", "install"} => keep[p] \ retainedFile \subseteq undone

\* And the process that is up lists all of it, so that the next cache file it writes is
\* complete, whatever became of the one before.
Recalled ==
    Orderly =>
        \A p \in Procs : up[p] = "up" /\ loaded[p] =>
            known \ undone \subseteq
                IF pc[p] = "install" THEN Ids(found[p]) \cup keep[p] ELSE Served(p)

\* A bound of one process leaves none that is up when another starts.
LEMMA NobodyUp ==
    ASSUME MaxUp = 1, Cardinality({q \in Procs : up[q] = "up"}) < MaxUp
    PROVE  \A q \in Procs : up[q] # "up"
<1> DEFINE U == {q \in Procs : up[q] = "up"}
<1>1. IsFiniteSet(U)
  BY IndexAssumption, FS_Subset, Zenon
<1>2. Cardinality(U) \in Nat
  BY <1>1, FS_CardinalityType, Zenon
<1>3. Cardinality(U) = 0
  BY <1>2
<1>4. U = {}
  BY <1>1, <1>3, FS_EmptySet, Zenon
<1> QED  BY <1>4, Zenon

\* Alone is preserved.
LEMMA AloneStep == TypeOK /\ Alone /\ [Next]_vars => Alone'
<1> SUFFICES ASSUME TypeOK /\ Alone, [Next]_vars PROVE Alone'  BY Zenon
<1> DEFINE seen == <<up, pc, apc, loaded>>
<1> USE DEF transcripts, files, memory, refresh, lookup, lookupHistory, fileHistory
<1>0. UNCHANGED seen => Alone'
  BY DEF TypeOK, TypeMemory, TypeRefresh, TypeLookup, Alone, AfterSave
<1>1. ASSUME NEW c \in Convs, NEW readable \in BOOLEAN, Write(c, readable) PROVE UNCHANGED seen
  BY <1>1, Zenon DEF Write
<1>2. ASSUME NEW c \in Convs, Remove(c) PROVE UNCHANGED seen
  BY <1>2, Zenon DEF Remove
<1>3. ASSUME NEW p \in Procs, Start(p) PROVE Alone'
  <2>1. CASE p \in Daemons /\ ~loaded[p] /\ cache.whole
    <3>1. /\ up[p] = "off"
          /\ Cardinality({q \in Procs : up[q] = "up"}) < MaxUp
          /\ up' = [up EXCEPT ![p] = "up"]
          /\ p \in Daemons
          /\ ~loaded[p]
          /\ cache.whole
          /\ loaded' = [loaded EXCEPT ![p] = TRUE]
          /\ UNCHANGED <<pc, apc>>
      BY <1>3, <2>1, Zenon DEF Start, Load
    <3> QED  BY <3>1, IndexAssumption, NobodyUp DEF TypeOK, TypeMemory, TypeRefresh, TypeLookup,
                Alone, AfterSave
  <2>2. CASE ~(p \in Daemons /\ ~loaded[p] /\ cache.whole)
    <3>1. /\ up[p] = "off"
          /\ Cardinality({q \in Procs : up[q] = "up"}) < MaxUp
          /\ up' = [up EXCEPT ![p] = "up"]
          /\ ~(p \in Daemons /\ ~loaded[p] /\ cache.whole)
          /\ UNCHANGED <<pc, apc, loaded>>
      BY <1>3, <2>2, Zenon DEF Start, Load
    <3> QED  BY <3>1, IndexAssumption, NobodyUp DEF TypeOK, TypeMemory, TypeRefresh, TypeLookup,
                Alone, AfterSave
  <2> QED  BY <2>1, <2>2, Zenon
<1>3a. ASSUME NEW p \in Procs, StartUnloaded(p) PROVE Alone'
  <2>1. /\ up[p] = "off"
        /\ Cardinality({q \in Procs : up[q] = "up"}) < MaxUp
        /\ up' = [up EXCEPT ![p] = "up"]
        /\ UNCHANGED <<pc, apc, loaded>>
    BY <1>3a, Zenon DEF StartUnloaded
  <2> QED  BY <2>1, IndexAssumption, NobodyUp DEF TypeOK, TypeMemory, TypeRefresh, TypeLookup,
              Alone, AfterSave
<1>4. ASSUME NEW p \in Procs, Exit(p) PROVE Alone'
  <2>1. /\ up[p] = "up"
        /\ up' = [up EXCEPT ![p] = "down"]
        /\ loaded' = [loaded EXCEPT ![p] = FALSE]
        /\ pc' = [pc EXCEPT ![p] = "idle"]
        /\ apc' = [apc EXCEPT ![p] = "idle"]
    BY <1>4, Zenon DEF Exit, NoRefresh, NoLookup, Fault
  <2> QED  BY <2>1, IndexAssumption DEF TypeOK, TypeMemory, TypeRefresh, TypeLookup, Alone,
              AfterSave
<1>5. ASSUME NEW p \in Procs, Periodic(p) PROVE Alone'
  <2>1. /\ p \in Daemons
        /\ up[p] = "up"
        /\ pc[p] = "idle"
        /\ pc' = [pc EXCEPT ![p] = "scan"]
        /\ UNCHANGED <<up, apc, loaded>>
    BY <1>5, Zenon DEF Periodic, Claim
  <2> QED  BY <2>1, IndexAssumption DEF TypeOK, TypeMemory, TypeRefresh, TypeLookup, Alone,
              AfterSave
<1>6. ASSUME NEW p \in Procs, NEW unread \in SUBSET Convs, Scan(p, unread) PROVE Alone'
  <2>1. /\ pc[p] = "scan"
        /\ pc' = [pc EXCEPT ![p] = "retain"]
        /\ UNCHANGED <<up, apc, loaded>>
    BY <1>6, Zenon DEF Scan, Advance, Fault
  <2> QED  BY <2>1, IndexAssumption DEF TypeOK, TypeMemory, TypeRefresh, TypeLookup, Alone,
              AfterSave
<1>7. ASSUME NEW p \in Procs, Retain(p) PROVE Alone'
  <2>1. /\ pc[p] = "retain"
        /\ pc' = [pc EXCEPT ![p] = IF Dropped(p) # retained[p] THEN "save" ELSE AfterSave(p)]
        /\ UNCHANGED <<up, apc, loaded>>
    BY <1>7, Zenon DEF Retain, Advance
  <2> QED  BY <2>1, IndexAssumption DEF TypeOK, TypeMemory, TypeRefresh, TypeLookup, Alone,
              AfterSave
<1>8. ASSUME NEW p \in Procs, Save(p) PROVE Alone'
  <2>1. /\ pc[p] = "save"
        /\ pc' = [pc EXCEPT ![p] = AfterSave(p)]
        /\ UNCHANGED <<up, apc, loaded>>
    BY <1>8, Zenon DEF Save, Advance
  <2> QED  BY <2>1, IndexAssumption DEF TypeOK, TypeMemory, TypeRefresh, TypeLookup, Alone,
              AfterSave
<1>9. ASSUME NEW p \in Procs, Truncate(p) PROVE Alone'
  <2>1. /\ pc[p] = "cache"
        /\ pc' = [pc EXCEPT ![p] = "fill"]
        /\ UNCHANGED <<up, apc, loaded>>
    BY <1>9, Zenon DEF Truncate, Advance
  <2> QED  BY <2>1, IndexAssumption DEF TypeOK, TypeMemory, TypeRefresh, TypeLookup, Alone,
              AfterSave
<1>10. ASSUME NEW p \in Procs, Fill(p) PROVE Alone'
  <2>1. /\ pc[p] = "fill"
        /\ pc' = [pc EXCEPT ![p] = "install"]
        /\ UNCHANGED <<up, apc, loaded>>
    BY <1>10, Zenon DEF Fill, Advance
  <2> QED  BY <2>1, IndexAssumption DEF TypeOK, TypeMemory, TypeRefresh, TypeLookup, Alone,
              AfterSave
<1>11. ASSUME NEW p \in Procs, Install(p) PROVE Alone'
  <2>1. /\ pc[p] = "install"
        /\ pc' = [pc EXCEPT ![p] = "end"]
        /\ loaded' = [loaded EXCEPT ![p] = TRUE]
        /\ UNCHANGED <<up, apc>>
    BY <1>11, Zenon DEF Install, Advance
  <2> QED  BY <2>1, IndexAssumption DEF TypeOK, TypeMemory, TypeRefresh, TypeLookup, Alone,
              AfterSave
<1>12. ASSUME NEW p \in Procs, End(p) PROVE Alone'
  <2>1. CASE apc[p] \in {"own", "join"}
    <3>1. /\ apc[p] \in {"own", "join"}
          /\ pc[p] = "end"
          /\ pc' = [pc EXCEPT ![p] = "idle"]
          /\ apc' = [apc EXCEPT ![p] = "ended"]
          /\ UNCHANGED <<up, loaded>>
      BY <1>12, <2>1, Zenon DEF End, Advance, NoRefresh
    <3> QED  BY <3>1, IndexAssumption DEF TypeOK, TypeMemory, TypeRefresh, TypeLookup, Alone,
                AfterSave
  <2>2. CASE ~(apc[p] \in {"own", "join"})
    <3>1. /\ ~(apc[p] \in {"own", "join"})
          /\ pc[p] = "end"
          /\ pc' = [pc EXCEPT ![p] = "idle"]
          /\ UNCHANGED <<up, apc, loaded>>
      BY <1>12, <2>2, Zenon DEF End, Advance, NoRefresh
    <3> QED  BY <3>1, IndexAssumption DEF TypeOK, TypeMemory, TypeRefresh, TypeLookup, Alone,
                AfterSave
  <2> QED  BY <2>1, <2>2, Zenon
<1>13. ASSUME NEW p \in Procs, ScanFails(p) PROVE Alone'
  <2>1. /\ pc[p] = "scan"
        /\ pc' = [pc EXCEPT ![p] = "end"]
        /\ faults < MaxFaults
        /\ UNCHANGED <<up, apc, loaded>>
    BY <1>13, Zenon DEF ScanFails, Advance, Fails, Fault
  <2> QED  BY <2>1, IndexAssumption DEF TypeOK, TypeMemory, TypeRefresh, TypeLookup, Alone,
              AfterSave
<1>14. ASSUME NEW p \in Procs, SaveFails(p) PROVE Alone'
  <2>1. /\ pc[p] = "save"
        /\ pc' = [pc EXCEPT ![p] = "end"]
        /\ faults < MaxFaults
        /\ UNCHANGED <<up, apc, loaded>>
    BY <1>14, Zenon DEF SaveFails, Advance, Fails, Fault
  <2> QED  BY <2>1, IndexAssumption DEF TypeOK, TypeMemory, TypeRefresh, TypeLookup, Alone,
              AfterSave
<1>15. ASSUME NEW p \in Procs, CacheFails(p) PROVE Alone'
  <2>1. CASE pc[p] = "cache"
    <3>1. /\ pc[p] = "cache"
          /\ pc' = [pc EXCEPT ![p] = "end"]
          /\ faults < MaxFaults
          /\ UNCHANGED <<up, apc, loaded>>
      BY <1>15, <2>1, Zenon DEF CacheFails, Advance, Fails, Fault
    <3> QED  BY <3>1, IndexAssumption DEF TypeOK, TypeMemory, TypeRefresh, TypeLookup, Alone,
                AfterSave
  <2>2. CASE pc[p] # "cache"
    <3>1. /\ pc[p] = "fill"
          /\ pc' = [pc EXCEPT ![p] = "end"]
          /\ faults < MaxFaults
          /\ UNCHANGED <<up, apc, loaded>>
      BY <1>15, <2>2, Zenon DEF CacheFails, Advance, Fails, Fault
    <3> QED  BY <3>1, IndexAssumption DEF TypeOK, TypeMemory, TypeRefresh, TypeLookup, Alone,
                AfterSave
  <2> QED  BY <2>1, <2>2, Zenon
<1>16. ASSUME NEW p \in Procs, Call(p) PROVE Alone'
  <2>1. CASE pc[p] = "idle"
    <3>1. /\ apc[p] = "refresh"
          /\ pc[p] = "idle"
          /\ pc' = [pc EXCEPT ![p] = "scan"]
          /\ apc' = [apc EXCEPT ![p] = "own"]
          /\ UNCHANGED <<up, loaded>>
      BY <1>16, <2>1, Zenon DEF Call, Claim
    <3> QED  BY <3>1, IndexAssumption DEF TypeOK, TypeMemory, TypeRefresh, TypeLookup, Alone,
                AfterSave
  <2>2. CASE pc[p] # "idle"
    <3>1. /\ apc[p] = "refresh"
          /\ pc[p] # "idle"
          /\ apc' = [apc EXCEPT ![p] = "join"]
          /\ UNCHANGED <<up, pc, loaded>>
      BY <1>16, <2>2, Zenon DEF Call, Claim
    <3> QED  BY <3>1, IndexAssumption DEF TypeOK, TypeMemory, TypeRefresh, TypeLookup, Alone,
                AfterSave
  <2> QED  BY <2>1, <2>2, Zenon
<1>17. ASSUME NEW p \in Procs, Answer(p) PROVE Alone'
  <2>1. /\ apc[p] = "ended"
        /\ apc' = [apc EXCEPT ![p] = "idle"]
        /\ UNCHANGED <<up, pc, loaded>>
    BY <1>17, Zenon DEF Answer, NoLookup
  <2> QED  BY <2>1, IndexAssumption DEF TypeOK, TypeMemory, TypeRefresh, TypeLookup, Alone,
              AfterSave
<1>18. ASSUME NEW p \in Procs, WaitCancelled(p) PROVE Alone'
  <2>1. /\ apc[p] = "join"
        /\ apc' = [apc EXCEPT ![p] = "ended"]
        /\ faults < MaxFaults
        /\ UNCHANGED <<up, pc, loaded>>
    BY <1>18, Zenon DEF WaitCancelled, Fault
  <2> QED  BY <2>1, IndexAssumption DEF TypeOK, TypeMemory, TypeRefresh, TypeLookup, Alone,
              AfterSave
<1>19. ASSUME NEW p \in Procs, NEW c \in Asked, Ask(p, c) PROVE Alone'
  <2>1. CASE ~loaded[p] /\ cache.whole /\ loaded'[p] /\ c \notin Ids(records'[p]) \cup retained'[p]
    <3>1. /\ up[p] = "up"
          /\ apc[p] = "idle"
          /\ ~loaded[p]
          /\ cache.whole
          /\ loaded' = [loaded EXCEPT ![p] = TRUE]
          /\ loaded'[p]
          /\ apc' = [apc EXCEPT ![p] = "refresh"]
          /\ UNCHANGED <<up, pc>>
      BY <1>19, <2>1, Zenon DEF Ask, Load
    <3> QED  BY <3>1, IndexAssumption DEF TypeOK, TypeMemory, TypeRefresh, TypeLookup, Alone,
                AfterSave
  <2>2. CASE ~loaded[p] /\ cache.whole /\ ~(loaded'[p] /\ c \notin Ids(records'[p]) \cup retained'[p])
    <3>1. /\ up[p] = "up"
          /\ apc[p] = "idle"
          /\ ~loaded[p]
          /\ cache.whole
          /\ loaded' = [loaded EXCEPT ![p] = TRUE]
          /\ UNCHANGED <<up, pc, apc>>
      BY <1>19, <2>2, Zenon DEF Ask, Load
    <3> QED  BY <3>1, IndexAssumption, Zenon DEF TypeOK, TypeMemory, TypeRefresh, TypeLookup, Alone,
                AfterSave
  <2>3. CASE ~(~loaded[p] /\ cache.whole) /\ loaded'[p] /\ c \notin Ids(records'[p]) \cup retained'[p]
    <3>1. /\ up[p] = "up"
          /\ apc[p] = "idle"
          /\ loaded[p]
          /\ loaded'[p]
          /\ apc' = [apc EXCEPT ![p] = "refresh"]
          /\ UNCHANGED <<up, pc, loaded>>
      BY <1>19, <2>3, Zenon DEF Ask, Load
    <3> QED  BY <3>1, IndexAssumption DEF TypeOK, TypeMemory, TypeRefresh, TypeLookup, Alone,
                AfterSave
  <2>4. CASE ~(~loaded[p] /\ cache.whole) /\ ~(loaded'[p] /\ c \notin Ids(records'[p]) \cup retained'[p])
    <3>1. UNCHANGED seen
      BY <1>19, <2>4, Zenon DEF Ask, Load
    <3> QED  BY <1>0, <3>1, Zenon
  <2> QED  BY <2>1, <2>2, <2>3, <2>4, Zenon
<1>20. CASE UNCHANGED vars
  BY <1>0, <1>20, Zenon DEF vars
<1> HIDE DEF seen, transcripts, files, memory, refresh, lookup, lookupHistory, fileHistory
<1> QED
  BY <1>0, <1>1, <1>2, <1>3, <1>3a, <1>4, <1>5, <1>6, <1>7, <1>8, <1>9, <1>10, <1>11, <1>12,
     <1>13, <1>14, <1>15, <1>16, <1>17, <1>18, <1>19, <1>20, Zenon DEF Next, RefreshStep, LookupStep

\* Loadable is preserved.
LEMMA LoadableStep == TypeOK /\ Alone /\ Loadable /\ [Next]_vars => Loadable'
<1> SUFFICES ASSUME TypeOK /\ Alone /\ Loadable, [Next]_vars PROVE Loadable'  BY Zenon
<1> DEFINE seen == <<cache, blind, pc, up, apc, loaded, bare>>
<1> USE DEF transcripts, files, memory, refresh, lookup, lookupHistory, fileHistory
<1>0. UNCHANGED seen => Loadable'
  BY DEF TypeOK, TypeFiles, TypeMemory, TypeRefresh, TypeLookup, Alone, Loadable, Orderly, Torn,
     AfterSave
<1>1. ASSUME NEW c \in Convs, NEW readable \in BOOLEAN, Write(c, readable) PROVE UNCHANGED seen
  BY <1>1, Zenon DEF Write
<1>2. ASSUME NEW c \in Convs, Remove(c) PROVE UNCHANGED seen
  BY <1>2, Zenon DEF Remove
<1>3. ASSUME NEW p \in Procs, Start(p) PROVE Loadable'
  <2>1. CASE p \in Daemons /\ ~loaded[p] /\ cache.whole
    <3>1. /\ up[p] = "off"
          /\ Cardinality({q \in Procs : up[q] = "up"}) < MaxUp
          /\ up' = [up EXCEPT ![p] = "up"]
          /\ p \in Daemons
          /\ ~loaded[p]
          /\ cache.whole
          /\ loaded' = [loaded EXCEPT ![p] = TRUE]
          /\ UNCHANGED <<cache, blind, pc, apc, bare>>
      BY <1>3, <2>1, Zenon DEF Start, Load
    <3> QED  BY <3>1, IndexAssumption, NobodyUp DEF TypeOK, TypeFiles, TypeMemory, TypeRefresh,
                TypeLookup, Alone, Loadable, Orderly, Torn, AfterSave
  <2>2. CASE ~(p \in Daemons /\ ~loaded[p] /\ cache.whole)
    <3>1. /\ up[p] = "off"
          /\ Cardinality({q \in Procs : up[q] = "up"}) < MaxUp
          /\ up' = [up EXCEPT ![p] = "up"]
          /\ ~(p \in Daemons /\ ~loaded[p] /\ cache.whole)
          /\ UNCHANGED <<cache, blind, pc, apc, loaded, bare>>
      BY <1>3, <2>2, Zenon DEF Start, Load
    <3> QED  BY <3>1, IndexAssumption, NobodyUp DEF TypeOK, TypeFiles, TypeMemory, TypeRefresh,
                TypeLookup, Alone, Loadable, Orderly, Torn, AfterSave
  <2> QED  BY <2>1, <2>2, Zenon
<1>3a. ASSUME NEW p \in Procs, StartUnloaded(p) PROVE Loadable'
  <2>1. /\ up[p] = "off"
        /\ Cardinality({q \in Procs : up[q] = "up"}) < MaxUp
        /\ up' = [up EXCEPT ![p] = "up"]
        /\ UNCHANGED <<blind, pc, apc, loaded, bare>>
    BY <1>3a, Zenon DEF StartUnloaded
  <2> QED  BY <2>1, IndexAssumption, NobodyUp DEF TypeOK, TypeFiles, TypeMemory, TypeRefresh,
              TypeLookup, Alone, Loadable, Orderly, Torn, AfterSave
<1>4. ASSUME NEW p \in Procs, Exit(p) PROVE Loadable'
  <2>1. /\ up[p] = "up"
        /\ up' = [up EXCEPT ![p] = "down"]
        /\ loaded' = [loaded EXCEPT ![p] = FALSE]
        /\ pc' = [pc EXCEPT ![p] = "idle"]
        /\ bare' = [bare EXCEPT ![p] = FALSE]
        /\ apc' = [apc EXCEPT ![p] = "idle"]
        /\ UNCHANGED <<blind, cache>>
    BY <1>4, Zenon DEF Exit, NoRefresh, NoLookup, Fault
  <2> QED  BY <2>1, IndexAssumption DEF TypeOK, TypeFiles, TypeMemory, TypeRefresh, TypeLookup,
              Alone, Loadable, Orderly, Torn, AfterSave
<1>5. ASSUME NEW p \in Procs, Periodic(p) PROVE Loadable'
  <2>1. /\ p \in Daemons
        /\ up[p] = "up"
        /\ pc[p] = "idle"
        /\ pc' = [pc EXCEPT ![p] = "scan"]
        /\ bare' = [bare EXCEPT ![p] = ~loaded[p]]
        /\ blind' = (blind \/ ~loaded[p])
        /\ UNCHANGED <<up, apc, loaded>>
    BY <1>5, Zenon DEF Periodic, Claim
  <2>3. Orderly' => Orderly /\ loaded[p]
    BY <2>1, Zenon DEF Orderly
  <2>4. Orderly' => ~bare'[p] /\ loaded'[p]
    BY <2>1, <2>3, Zenon DEF TypeOK, TypeRefresh
  <2>5. \A q \in Procs \ {p} : pc'[q] = pc[q] /\ bare'[q] = bare[q]
    BY <2>1, Zenon DEF TypeOK, TypeRefresh
  <2> QED  BY <2>1, <2>3, <2>4, <2>5, Zenon DEF Loadable
<1>6. ASSUME NEW p \in Procs, NEW unread \in SUBSET Convs, Scan(p, unread) PROVE Loadable'
  <2>1. /\ pc[p] = "scan"
        /\ pc' = [pc EXCEPT ![p] = "retain"]
        /\ UNCHANGED <<cache, blind, up, apc, loaded, bare>>
    BY <1>6, Zenon DEF Scan, Advance, Fault
  <2> QED  BY <2>1, IndexAssumption DEF TypeOK, TypeFiles, TypeMemory, TypeRefresh, TypeLookup,
              Alone, Loadable, Orderly, Torn, AfterSave
<1>7. ASSUME NEW p \in Procs, Retain(p) PROVE Loadable'
  <2>1. /\ pc[p] = "retain"
        /\ pc' = [pc EXCEPT ![p] = IF Dropped(p) # retained[p] THEN "save" ELSE AfterSave(p)]
        /\ UNCHANGED <<cache, blind, up, apc, loaded, bare>>
    BY <1>7, Zenon DEF Retain, Advance
  <2> QED  BY <2>1, IndexAssumption DEF TypeOK, TypeFiles, TypeMemory, TypeRefresh, TypeLookup,
              Alone, Loadable, Orderly, Torn, AfterSave
<1>8. ASSUME NEW p \in Procs, Save(p) PROVE Loadable'
  <2>1. /\ pc[p] = "save"
        /\ pc' = [pc EXCEPT ![p] = AfterSave(p)]
        /\ UNCHANGED <<cache, blind, up, apc, loaded, bare>>
    BY <1>8, Zenon DEF Save, Advance
  <2> QED  BY <2>1, IndexAssumption DEF TypeOK, TypeFiles, TypeMemory, TypeRefresh, TypeLookup,
              Alone, Loadable, Orderly, Torn, AfterSave
<1>9. ASSUME NEW p \in Procs, Truncate(p) PROVE Loadable'
  <2>1. /\ pc[p] = "cache"
        /\ pc' = [pc EXCEPT ![p] = "fill"]
        /\ cache' = Torn
        /\ UNCHANGED <<blind, up, apc, loaded, bare>>
    BY <1>9, Zenon DEF Truncate, Advance
  <2> QED  BY <2>1, IndexAssumption DEF TypeOK, TypeFiles, TypeMemory, TypeRefresh, TypeLookup,
              Alone, Loadable, Orderly, Torn, AfterSave
<1>10. ASSUME NEW p \in Procs, Fill(p) PROVE Loadable'
  <2>1. /\ pc[p] = "fill"
        /\ pc' = [pc EXCEPT ![p] = "install"]
        /\ cache' = [whole |-> TRUE, present |-> TRUE, records |-> found[p], stamps |-> marks[p]]
        /\ UNCHANGED <<blind, up, apc, loaded, bare>>
    BY <1>10, Zenon DEF Fill, Advance
  <2> QED  BY <2>1, IndexAssumption, Zenon DEF TypeOK, TypeFiles, TypeMemory, TypeRefresh, TypeLookup,
              Alone, Loadable, Orderly, Torn, AfterSave
<1>11. ASSUME NEW p \in Procs, Install(p) PROVE Loadable'
  <2>1. /\ pc[p] = "install"
        /\ pc' = [pc EXCEPT ![p] = "end"]
        /\ loaded' = [loaded EXCEPT ![p] = TRUE]
        /\ UNCHANGED <<cache, blind, up, apc, bare>>
    BY <1>11, Zenon DEF Install, Advance
  <2> QED  BY <2>1, IndexAssumption DEF TypeOK, TypeFiles, TypeMemory, TypeRefresh, TypeLookup,
              Alone, Loadable, Orderly, Torn, AfterSave
<1>12. ASSUME NEW p \in Procs, End(p) PROVE Loadable'
  <2>1. CASE apc[p] \in {"own", "join"}
    <3>1. /\ apc[p] \in {"own", "join"}
          /\ pc[p] = "end"
          /\ pc' = [pc EXCEPT ![p] = "idle"]
          /\ bare' = [bare EXCEPT ![p] = FALSE]
          /\ apc' = [apc EXCEPT ![p] = "ended"]
          /\ UNCHANGED <<cache, blind, up, loaded>>
      BY <1>12, <2>1, Zenon DEF End, Advance, NoRefresh
    <3> QED  BY <3>1, IndexAssumption DEF TypeOK, TypeFiles, TypeMemory, TypeRefresh,
                TypeLookup, Alone, Loadable, Orderly, Torn, AfterSave
  <2>2. CASE ~(apc[p] \in {"own", "join"})
    <3>1. /\ ~(apc[p] \in {"own", "join"})
          /\ pc[p] = "end"
          /\ pc' = [pc EXCEPT ![p] = "idle"]
          /\ bare' = [bare EXCEPT ![p] = FALSE]
          /\ UNCHANGED <<cache, blind, up, apc, loaded>>
      BY <1>12, <2>2, Zenon DEF End, Advance, NoRefresh
    <3> QED  BY <3>1, IndexAssumption DEF TypeOK, TypeFiles, TypeMemory, TypeRefresh,
                TypeLookup, Alone, Loadable, Orderly, Torn, AfterSave
  <2> QED  BY <2>1, <2>2, Zenon
<1>13. ASSUME NEW p \in Procs, ScanFails(p) PROVE Loadable'
  <2>1. /\ pc[p] = "scan"
        /\ pc' = [pc EXCEPT ![p] = "end"]
        /\ faults < MaxFaults
        /\ UNCHANGED <<cache, blind, up, apc, loaded, bare>>
    BY <1>13, Zenon DEF ScanFails, Advance, Fails, Fault
  <2> QED  BY <2>1, IndexAssumption DEF TypeOK, TypeFiles, TypeMemory, TypeRefresh, TypeLookup,
              Alone, Loadable, Orderly, Torn, AfterSave
<1>14. ASSUME NEW p \in Procs, SaveFails(p) PROVE Loadable'
  <2>1. /\ pc[p] = "save"
        /\ pc' = [pc EXCEPT ![p] = "end"]
        /\ faults < MaxFaults
        /\ UNCHANGED <<cache, blind, up, apc, loaded, bare>>
    BY <1>14, Zenon DEF SaveFails, Advance, Fails, Fault
  <2> QED  BY <2>1, IndexAssumption DEF TypeOK, TypeFiles, TypeMemory, TypeRefresh, TypeLookup,
              Alone, Loadable, Orderly, Torn, AfterSave
<1>15. ASSUME NEW p \in Procs, CacheFails(p) PROVE Loadable'
  <2>1. CASE pc[p] = "cache"
    <3>1. /\ pc[p] = "cache"
          /\ pc' = [pc EXCEPT ![p] = "end"]
          /\ faults < MaxFaults
          /\ UNCHANGED <<blind, cache, up, apc, loaded, bare>>
      BY <1>15, <2>1, Zenon DEF CacheFails, Advance, Fails, Fault
    <3> QED  BY <3>1, IndexAssumption DEF TypeOK, TypeFiles, TypeMemory, TypeRefresh,
                TypeLookup, Alone, Loadable, Orderly, Torn, AfterSave
  <2>2. CASE pc[p] # "cache"
    <3>1. /\ pc[p] = "fill"
          /\ pc' = [pc EXCEPT ![p] = "end"]
          /\ faults < MaxFaults
          /\ UNCHANGED <<blind, cache, up, apc, loaded, bare>>
      BY <1>15, <2>2, Zenon DEF CacheFails, Advance, Fails, Fault
    <3> QED  BY <3>1, IndexAssumption, Zenon DEF TypeOK, TypeFiles, TypeMemory, TypeRefresh,
                TypeLookup, Alone, Loadable, Orderly, Torn, AfterSave
  <2> QED  BY <2>1, <2>2, Zenon
<1>16. ASSUME NEW p \in Procs, Call(p) PROVE Loadable'
  <2>1. CASE pc[p] = "idle"
    <3>1. /\ apc[p] = "refresh"
          /\ pc[p] = "idle"
          /\ pc' = [pc EXCEPT ![p] = "scan"]
          /\ bare' = [bare EXCEPT ![p] = ~loaded[p]]
          /\ apc' = [apc EXCEPT ![p] = "own"]
          /\ UNCHANGED <<cache, blind, up, loaded>>
      BY <1>16, <2>1, Zenon DEF Call, Claim
    <3> QED  BY <3>1, IndexAssumption DEF TypeOK, TypeFiles, TypeMemory, TypeRefresh,
                TypeLookup, Alone, Loadable, Orderly, Torn, AfterSave
  <2>2. CASE pc[p] # "idle"
    <3>1. /\ apc[p] = "refresh"
          /\ pc[p] # "idle"
          /\ apc' = [apc EXCEPT ![p] = "join"]
          /\ UNCHANGED <<cache, blind, pc, up, loaded, bare>>
      BY <1>16, <2>2, Zenon DEF Call, Claim
    <3> QED  BY <3>1, IndexAssumption DEF TypeOK, TypeFiles, TypeMemory, TypeRefresh,
                TypeLookup, Alone, Loadable, Orderly, Torn, AfterSave
  <2> QED  BY <2>1, <2>2, Zenon
<1>17. ASSUME NEW p \in Procs, Answer(p) PROVE Loadable'
  <2>1. /\ apc[p] = "ended"
        /\ apc' = [apc EXCEPT ![p] = "idle"]
        /\ UNCHANGED <<cache, blind, pc, up, loaded, bare>>
    BY <1>17, Zenon DEF Answer, NoLookup
  <2> QED  BY <2>1, IndexAssumption DEF TypeOK, TypeFiles, TypeMemory, TypeRefresh, TypeLookup,
              Alone, Loadable, Orderly, Torn, AfterSave
<1>18. ASSUME NEW p \in Procs, WaitCancelled(p) PROVE Loadable'
  <2>1. /\ apc[p] = "join"
        /\ apc' = [apc EXCEPT ![p] = "ended"]
        /\ faults < MaxFaults
        /\ UNCHANGED <<cache, blind, pc, up, loaded, bare>>
    BY <1>18, Zenon DEF WaitCancelled, Fault
  <2> QED  BY <2>1, IndexAssumption DEF TypeOK, TypeFiles, TypeMemory, TypeRefresh, TypeLookup,
              Alone, Loadable, Orderly, Torn, AfterSave
<1>19. ASSUME NEW p \in Procs, NEW c \in Asked, Ask(p, c) PROVE Loadable'
  <2>1. CASE ~loaded[p] /\ cache.whole /\ loaded'[p] /\ c \notin Ids(records'[p]) \cup retained'[p]
    <3>1. /\ up[p] = "up"
          /\ apc[p] = "idle"
          /\ ~loaded[p]
          /\ cache.whole
          /\ loaded' = [loaded EXCEPT ![p] = TRUE]
          /\ loaded'[p]
          /\ apc' = [apc EXCEPT ![p] = "refresh"]
          /\ UNCHANGED <<cache, blind, pc, up, bare>>
      BY <1>19, <2>1, Zenon DEF Ask, Load
    <3> QED  BY <3>1, IndexAssumption DEF TypeOK, TypeFiles, TypeMemory, TypeRefresh,
                TypeLookup, Alone, Loadable, Orderly, Torn, AfterSave
  <2>2. CASE ~loaded[p] /\ cache.whole /\ ~(loaded'[p] /\ c \notin Ids(records'[p]) \cup retained'[p])
    <3>1. /\ up[p] = "up"
          /\ apc[p] = "idle"
          /\ ~loaded[p]
          /\ cache.whole
          /\ loaded' = [loaded EXCEPT ![p] = TRUE]
          /\ UNCHANGED <<cache, blind, pc, up, apc, bare>>
      BY <1>19, <2>2, Zenon DEF Ask, Load
    <3> QED  BY <3>1, IndexAssumption DEF TypeOK, TypeFiles, TypeMemory, TypeRefresh,
                TypeLookup, Alone, Loadable, Orderly, Torn, AfterSave
  <2>3. CASE ~(~loaded[p] /\ cache.whole) /\ loaded'[p] /\ c \notin Ids(records'[p]) \cup retained'[p]
    <3>1. /\ up[p] = "up"
          /\ apc[p] = "idle"
          /\ loaded[p]
          /\ loaded'[p]
          /\ apc' = [apc EXCEPT ![p] = "refresh"]
          /\ UNCHANGED <<cache, blind, pc, up, loaded, bare>>
      BY <1>19, <2>3, Zenon DEF Ask, Load
    <3> QED  BY <3>1, IndexAssumption DEF TypeOK, TypeFiles, TypeMemory, TypeRefresh,
                TypeLookup, Alone, Loadable, Orderly, Torn, AfterSave
  <2>4. CASE ~(~loaded[p] /\ cache.whole) /\ ~(loaded'[p] /\ c \notin Ids(records'[p]) \cup retained'[p])
    <3>1. UNCHANGED seen
      BY <1>19, <2>4, Zenon DEF Ask, Load
    <3> QED  BY <1>0, <3>1, Zenon
  <2> QED  BY <2>1, <2>2, <2>3, <2>4, Zenon
<1>20. CASE UNCHANGED vars
  BY <1>0, <1>20, Zenon DEF vars
<1> HIDE DEF seen, transcripts, files, memory, refresh, lookup, lookupHistory, fileHistory
<1> QED
  BY <1>0, <1>1, <1>2, <1>3, <1>3a, <1>4, <1>5, <1>6, <1>7, <1>8, <1>9, <1>10, <1>11, <1>12,
     <1>13, <1>14, <1>15, <1>16, <1>17, <1>18, <1>19, <1>20, Zenon DEF Next, RefreshStep, LookupStep

\* Agree is preserved.
LEMMA AgreeStep == TypeOK /\ Alone /\ Loadable /\ Agree /\ [Next]_vars => Agree'
<1> SUFFICES ASSUME TypeOK /\ Alone /\ Loadable /\ Agree, [Next]_vars PROVE Agree'  BY Zenon
<1> DEFINE seen == <<blind, up, loaded, pc, cache, records, found, changed>>
<1> USE DEF transcripts, files, memory, refresh, lookup, lookupHistory, fileHistory
<1>0. UNCHANGED seen => Agree'
  BY DEF TypeOK, TypeFiles, TypeMemory, TypeRefresh, Stamped, Alone, Loadable, Agree, Orderly,
     AfterSave
<1>1. ASSUME NEW c \in Convs, NEW readable \in BOOLEAN, Write(c, readable) PROVE UNCHANGED seen
  BY <1>1, Zenon DEF Write
<1>2. ASSUME NEW c \in Convs, Remove(c) PROVE UNCHANGED seen
  BY <1>2, Zenon DEF Remove
<1>3. ASSUME NEW p \in Procs, Start(p) PROVE Agree'
  <2>1. CASE p \in Daemons /\ ~loaded[p] /\ cache.whole
    <3>1. /\ up[p] = "off"
          /\ Cardinality({q \in Procs : up[q] = "up"}) < MaxUp
          /\ up' = [up EXCEPT ![p] = "up"]
          /\ p \in Daemons
          /\ ~loaded[p]
          /\ cache.whole
          /\ loaded' = [loaded EXCEPT ![p] = TRUE]
          /\ records' = [records EXCEPT ![p] = cache.records]
          /\ UNCHANGED <<blind, pc, cache, found, changed>>
      BY <1>3, <2>1, Zenon DEF Start, Load
    <3> QED  BY <3>1, IndexAssumption, NobodyUp, SMTT(30) DEF TypeOK, TypeFiles, TypeMemory,
                TypeRefresh, Stamped, Alone, Loadable, Agree, Orderly, AfterSave
  <2>2. CASE ~(p \in Daemons /\ ~loaded[p] /\ cache.whole)
    <3>1. /\ up[p] = "off"
          /\ Cardinality({q \in Procs : up[q] = "up"}) < MaxUp
          /\ up' = [up EXCEPT ![p] = "up"]
          /\ ~(p \in Daemons /\ ~loaded[p] /\ cache.whole)
          /\ UNCHANGED <<blind, loaded, pc, cache, records, found, changed>>
      BY <1>3, <2>2, Zenon DEF Start, Load
    <3> QED  BY <3>1, IndexAssumption, NobodyUp, SMTT(30) DEF TypeOK, TypeFiles, TypeMemory,
                TypeRefresh, Stamped, Alone, Loadable, Agree, Orderly, AfterSave
  <2> QED  BY <2>1, <2>2, Zenon
<1>3a. ASSUME NEW p \in Procs, StartUnloaded(p) PROVE Agree'
  <2>1. /\ up[p] = "off"
        /\ Cardinality({q \in Procs : up[q] = "up"}) < MaxUp
        /\ up' = [up EXCEPT ![p] = "up"]
        /\ UNCHANGED <<blind, loaded, pc, cache, records, found, changed>>
    BY <1>3a, Zenon DEF StartUnloaded
  <2> QED  BY <2>1, IndexAssumption, NobodyUp, SMTT(30) DEF TypeOK, TypeFiles, TypeMemory,
              TypeRefresh, Stamped, Alone, Loadable, Agree, Orderly, AfterSave
<1>4. ASSUME NEW p \in Procs, Exit(p) PROVE Agree'
  <2>1. /\ up[p] = "up"
        /\ up' = [up EXCEPT ![p] = "down"]
        /\ loaded' = [loaded EXCEPT ![p] = FALSE]
        /\ records' = [records EXCEPT ![p] = Nothing]
        /\ pc' = [pc EXCEPT ![p] = "idle"]
        /\ found' = [found EXCEPT ![p] = Nothing]
        /\ changed' = [changed EXCEPT ![p] = FALSE]
        /\ UNCHANGED <<blind, cache>>
    BY <1>4, Zenon DEF Exit, NoRefresh, NoLookup, Fault
  <2> QED  BY <2>1, IndexAssumption, SMTT(30) DEF TypeOK, TypeFiles, TypeMemory, TypeRefresh,
              Stamped, Alone, Loadable, Agree, Orderly, AfterSave
<1>5. ASSUME NEW p \in Procs, Periodic(p) PROVE Agree'
  <2>1. /\ p \in Daemons
        /\ up[p] = "up"
        /\ pc[p] = "idle"
        /\ pc' = [pc EXCEPT ![p] = "scan"]
        /\ blind' = (blind \/ ~loaded[p])
        /\ UNCHANGED <<up, loaded, cache, records, found, changed>>
    BY <1>5, Zenon DEF Periodic, Claim
  <2> QED  BY <2>1, IndexAssumption DEF TypeOK, TypeFiles, TypeMemory, TypeRefresh, Stamped,
              Alone, Loadable, Agree, Orderly, AfterSave
<1>6. ASSUME NEW p \in Procs, NEW unread \in SUBSET Convs, Scan(p, unread) PROVE Agree'
  <2>1. /\ pc[p] = "scan"
        /\ pc' = [pc EXCEPT ![p] = "retain"]
        /\ found' = [found EXCEPT ![p] = [c \in Convs |-> ScanRecord(p, c, unread).record]]
        /\ changed' = [changed EXCEPT ![p] =
              \/ bare[p] \/ ~cachePresent[p]
              \/ \E c \in Convs : found'[p][c] # records[p][c] \/ marks'[p][c] # stamps[p][c]]
        /\ UNCHANGED <<blind, up, loaded, cache, records>>
    BY <1>6, Zenon DEF Scan, Advance, Fault
  <2> QED  BY <2>1, IndexAssumption, SMTT(30) DEF TypeOK, TypeFiles, TypeMemory, TypeRefresh,
              Stamped, Alone, Loadable, Agree, Orderly, AfterSave
<1>7. ASSUME NEW p \in Procs, Retain(p) PROVE Agree'
  <2>1. /\ pc[p] = "retain"
        /\ pc' = [pc EXCEPT ![p] = IF Dropped(p) # retained[p] THEN "save" ELSE AfterSave(p)]
        /\ UNCHANGED <<blind, up, loaded, cache, records, found, changed>>
    BY <1>7, Zenon DEF Retain, Advance
  <2> QED  BY <2>1, IndexAssumption DEF TypeOK, TypeFiles, TypeMemory, TypeRefresh, Stamped,
              Alone, Loadable, Agree, Orderly, AfterSave
<1>8. ASSUME NEW p \in Procs, Save(p) PROVE Agree'
  <2>1. /\ pc[p] = "save"
        /\ pc' = [pc EXCEPT ![p] = AfterSave(p)]
        /\ UNCHANGED <<blind, up, loaded, cache, records, found, changed>>
    BY <1>8, Zenon DEF Save, Advance
  <2> QED  BY <2>1, IndexAssumption DEF TypeOK, TypeFiles, TypeMemory, TypeRefresh, Stamped,
              Alone, Loadable, Agree, Orderly, AfterSave
<1>9. ASSUME NEW p \in Procs, Truncate(p) PROVE Agree'
  <2>1. /\ pc[p] = "cache"
        /\ pc' = [pc EXCEPT ![p] = "fill"]
        /\ cache' = Torn
        /\ UNCHANGED <<blind, up, loaded, records, found, changed>>
    BY <1>9, Zenon DEF Truncate, Advance
  <2>2. ~cache'.whole
    BY <2>1, Zenon DEF Torn
  <2>3. \A q \in Procs : pc'[q] \in {"retain", "save"} => pc[q] \in {"retain", "save"}
    BY <2>1 DEF TypeOK, TypeRefresh
  <2>4. Orderly' = Orderly
    BY <2>1, Zenon DEF Orderly
  <2> QED  BY <2>1, <2>2, <2>3, <2>4, Zenon DEF Agree
<1>10. ASSUME NEW p \in Procs, Fill(p) PROVE Agree'
  <2>1. /\ pc[p] = "fill"
        /\ pc' = [pc EXCEPT ![p] = "install"]
        /\ cache' = [whole |-> TRUE, present |-> TRUE, records |-> found[p], stamps |-> marks[p]]
        /\ UNCHANGED <<blind, up, loaded, records, found, changed>>
    BY <1>10, Zenon DEF Fill, Advance
  <2> QED  BY <2>1, IndexAssumption, SMTT(30) DEF TypeOK, TypeFiles, TypeMemory, TypeRefresh,
              Stamped, Alone, Loadable, Agree, Orderly, AfterSave
<1>11. ASSUME NEW p \in Procs, Install(p) PROVE Agree'
  <2>1. /\ pc[p] = "install"
        /\ pc' = [pc EXCEPT ![p] = "end"]
        /\ loaded' = [loaded EXCEPT ![p] = TRUE]
        /\ records' = [records EXCEPT ![p] = found[p]]
        /\ UNCHANGED <<blind, up, cache, found, changed>>
    BY <1>11, Zenon DEF Install, Advance
  <2> QED  BY <2>1, IndexAssumption, SMTT(30) DEF TypeOK, TypeFiles, TypeMemory, TypeRefresh,
              Stamped, Alone, Loadable, Agree, Orderly, AfterSave
<1>12. ASSUME NEW p \in Procs, End(p) PROVE Agree'
  <2>1. CASE apc[p] \in {"own", "join"}
    <3>1. /\ apc[p] \in {"own", "join"}
          /\ pc[p] = "end"
          /\ pc' = [pc EXCEPT ![p] = "idle"]
          /\ found' = [found EXCEPT ![p] = Nothing]
          /\ changed' = [changed EXCEPT ![p] = FALSE]
          /\ UNCHANGED <<blind, up, loaded, cache, records>>
      BY <1>12, <2>1, Zenon DEF End, Advance, NoRefresh
    <3> QED  BY <3>1, IndexAssumption DEF TypeOK, TypeFiles, TypeMemory, TypeRefresh, Stamped,
                Alone, Loadable, Agree, Orderly, AfterSave
  <2>2. CASE ~(apc[p] \in {"own", "join"})
    <3>1. /\ ~(apc[p] \in {"own", "join"})
          /\ pc[p] = "end"
          /\ pc' = [pc EXCEPT ![p] = "idle"]
          /\ found' = [found EXCEPT ![p] = Nothing]
          /\ changed' = [changed EXCEPT ![p] = FALSE]
          /\ UNCHANGED <<blind, up, loaded, cache, records>>
      BY <1>12, <2>2, Zenon DEF End, Advance, NoRefresh
    <3> QED  BY <3>1, IndexAssumption DEF TypeOK, TypeFiles, TypeMemory, TypeRefresh, Stamped,
                Alone, Loadable, Agree, Orderly, AfterSave
  <2> QED  BY <2>1, <2>2, Zenon
<1>13. ASSUME NEW p \in Procs, ScanFails(p) PROVE Agree'
  <2>1. /\ pc[p] = "scan"
        /\ pc' = [pc EXCEPT ![p] = "end"]
        /\ faults < MaxFaults
        /\ UNCHANGED <<blind, up, loaded, cache, records, found, changed>>
    BY <1>13, Zenon DEF ScanFails, Advance, Fails, Fault
  <2> QED  BY <2>1, IndexAssumption DEF TypeOK, TypeFiles, TypeMemory, TypeRefresh, Stamped,
              Alone, Loadable, Agree, Orderly, AfterSave
<1>14. ASSUME NEW p \in Procs, SaveFails(p) PROVE Agree'
  <2>1. /\ pc[p] = "save"
        /\ pc' = [pc EXCEPT ![p] = "end"]
        /\ faults < MaxFaults
        /\ UNCHANGED <<blind, up, loaded, cache, records, found, changed>>
    BY <1>14, Zenon DEF SaveFails, Advance, Fails, Fault
  <2> QED  BY <2>1, IndexAssumption DEF TypeOK, TypeFiles, TypeMemory, TypeRefresh, Stamped,
              Alone, Loadable, Agree, Orderly, AfterSave
<1>15. ASSUME NEW p \in Procs, CacheFails(p) PROVE Agree'
  <2>1. CASE pc[p] = "cache"
    <3>1. /\ pc[p] = "cache"
          /\ pc' = [pc EXCEPT ![p] = "end"]
          /\ faults < MaxFaults
          /\ UNCHANGED <<blind, up, loaded, cache, records, found, changed>>
      BY <1>15, <2>1, Zenon DEF CacheFails, Advance, Fails, Fault
    <3> QED  BY <3>1, IndexAssumption, SMTT(30) DEF TypeOK, TypeFiles, TypeMemory, TypeRefresh,
                Stamped, Alone, Loadable, Agree, Orderly, AfterSave
  <2>2. CASE pc[p] # "cache"
    <3>1. /\ pc[p] = "fill"
          /\ pc' = [pc EXCEPT ![p] = "end"]
          /\ faults < MaxFaults
          /\ UNCHANGED <<blind, up, loaded, cache, records, found, changed>>
      BY <1>15, <2>2, Zenon DEF CacheFails, Advance, Fails, Fault
    <3> QED  BY <3>1, IndexAssumption, SMTT(30) DEF TypeOK, TypeFiles, TypeMemory, TypeRefresh,
                Stamped, Alone, Loadable, Agree, Orderly, AfterSave
  <2> QED  BY <2>1, <2>2, Zenon
<1>16. ASSUME NEW p \in Procs, Call(p) PROVE Agree'
  <2>1. CASE pc[p] = "idle"
    <3>1. /\ apc[p] = "refresh"
          /\ pc[p] = "idle"
          /\ pc' = [pc EXCEPT ![p] = "scan"]
          /\ UNCHANGED <<blind, up, loaded, cache, records, found, changed>>
      BY <1>16, <2>1, Zenon DEF Call, Claim
    <3> QED  BY <3>1, IndexAssumption DEF TypeOK, TypeFiles, TypeMemory, TypeRefresh, Stamped,
                Alone, Loadable, Agree, Orderly, AfterSave
  <2>2. CASE pc[p] # "idle"
    <3>1. UNCHANGED seen
      BY <1>16, <2>2, Zenon DEF Call, Claim
    <3> QED  BY <1>0, <3>1, Zenon
  <2> QED  BY <2>1, <2>2, Zenon
<1>17. ASSUME NEW p \in Procs, Answer(p) PROVE UNCHANGED seen
  BY <1>17, Zenon DEF Answer
<1>18. ASSUME NEW p \in Procs, WaitCancelled(p) PROVE UNCHANGED seen
  BY <1>18, Zenon DEF WaitCancelled
<1>19. ASSUME NEW p \in Procs, NEW c \in Asked, Ask(p, c) PROVE Agree'
  <2>1. CASE ~loaded[p] /\ cache.whole
    <3>1. /\ up[p] = "up"
          /\ apc[p] = "idle"
          /\ ~loaded[p]
          /\ cache.whole
          /\ loaded' = [loaded EXCEPT ![p] = TRUE]
          /\ records' = [records EXCEPT ![p] = cache.records]
          /\ UNCHANGED <<blind, up, pc, cache, found, changed>>
      BY <1>19, <2>1, Zenon DEF Ask, Load
    <3> QED  BY <3>1, IndexAssumption, SMTT(30) DEF TypeOK, TypeFiles, TypeMemory, TypeRefresh,
                Stamped, Alone, Loadable, Agree, Orderly, AfterSave
  <2>2. CASE ~(~loaded[p] /\ cache.whole)
    <3>1. UNCHANGED seen
      BY <1>19, <2>2, Zenon DEF Ask, Load
    <3> QED  BY <1>0, <3>1, Zenon
  <2> QED  BY <2>1, <2>2, Zenon
<1>20. CASE UNCHANGED vars
  BY <1>0, <1>20, Zenon DEF vars
<1> HIDE DEF seen, transcripts, files, memory, refresh, lookup, lookupHistory, fileHistory
<1> QED
  BY <1>0, <1>1, <1>2, <1>3, <1>3a, <1>4, <1>5, <1>6, <1>7, <1>8, <1>9, <1>10, <1>11, <1>12,
     <1>13, <1>14, <1>15, <1>16, <1>17, <1>18, <1>19, <1>20, Zenon DEF Next, RefreshStep, LookupStep

\* Covered is preserved.
LEMMA CoveredStep ==
    TypeOK /\ Alone /\ Loadable /\ Agree /\ Kept /\ Covered /\ Recalled /\ [Next]_vars => Covered'
<1> SUFFICES ASSUME TypeOK /\ Alone /\ Loadable /\ Agree /\ Kept /\ Covered /\ Recalled, [Next]_vars
             PROVE  Covered'
  BY Zenon
<1> DEFINE seen == <<blind, cache, retainedFile, known, undone, up, loaded, pc, retained, keep, found>>
<1> USE DEF transcripts, files, memory, refresh, lookup, lookupHistory, fileHistory
<1>0. UNCHANGED seen => Covered'
  BY DEF TypeOK, TypeFiles, TypeMemory, TypeRefresh, Alone, Loadable, Covered, Orderly, OnDisk
<1>1. ASSUME NEW c \in Convs, NEW readable \in BOOLEAN, Write(c, readable) PROVE UNCHANGED seen
  BY <1>1, Zenon DEF Write
<1>2. ASSUME NEW c \in Convs, Remove(c) PROVE UNCHANGED seen
  BY <1>2, Zenon DEF Remove
<1>3. ASSUME NEW p \in Procs, Start(p) PROVE Covered'
  <2>1. CASE p \in Daemons /\ ~loaded[p] /\ cache.whole
    <3>1. /\ up[p] = "off"
          /\ Cardinality({q \in Procs : up[q] = "up"}) < MaxUp
          /\ up' = [up EXCEPT ![p] = "up"]
          /\ p \in Daemons
          /\ ~loaded[p]
          /\ cache.whole
          /\ loaded' = [loaded EXCEPT ![p] = TRUE]
          /\ retained' = [retained EXCEPT ![p] = retainedFile]
          /\ known' = known \cup OnDisk
          /\ UNCHANGED <<blind, cache, retainedFile, undone, pc, keep, found>>
      BY <1>3, <2>1, Zenon DEF Start, Load
    <3> QED  BY <3>1, IndexAssumption, NobodyUp, SMTT(30) DEF TypeOK, TypeFiles, TypeMemory,
                TypeRefresh, Alone, Loadable, Covered, Orderly, OnDisk
  <2>2. CASE ~(p \in Daemons /\ ~loaded[p] /\ cache.whole)
    <3>1. /\ up[p] = "off"
          /\ Cardinality({q \in Procs : up[q] = "up"}) < MaxUp
          /\ up' = [up EXCEPT ![p] = "up"]
          /\ ~(p \in Daemons /\ ~loaded[p] /\ cache.whole)
          /\ UNCHANGED <<blind, cache, retainedFile, known, undone, loaded, pc, retained, keep, found>>
      BY <1>3, <2>2, Zenon DEF Start, Load
    <3> QED  BY <3>1, IndexAssumption, NobodyUp, SMTT(30) DEF TypeOK, TypeFiles, TypeMemory,
                TypeRefresh, Alone, Loadable, Covered, Orderly, OnDisk
  <2> QED  BY <2>1, <2>2, Zenon
<1>3a. ASSUME NEW p \in Procs, StartUnloaded(p) PROVE Covered'
  <2>1. /\ up[p] = "off"
        /\ Cardinality({q \in Procs : up[q] = "up"}) < MaxUp
        /\ up' = [up EXCEPT ![p] = "up"]
        /\ UNCHANGED <<blind, cache, retainedFile, known, undone, loaded, pc, retained, keep, found>>
    BY <1>3a, Zenon DEF StartUnloaded
  <2> QED  BY <2>1, IndexAssumption, NobodyUp, SMTT(30) DEF TypeOK, TypeFiles, TypeMemory,
              TypeRefresh, Alone, Loadable, Covered, Orderly, OnDisk
<1>4. ASSUME NEW p \in Procs, Exit(p) PROVE Covered'
  <2>1. /\ up[p] = "up"
        /\ up' = [up EXCEPT ![p] = "down"]
        /\ loaded' = [loaded EXCEPT ![p] = FALSE]
        /\ retained' = [retained EXCEPT ![p] = {}]
        /\ pc' = [pc EXCEPT ![p] = "idle"]
        /\ found' = [found EXCEPT ![p] = Nothing]
        /\ keep' = [keep EXCEPT ![p] = {}]
        /\ UNCHANGED <<blind, cache, retainedFile, known, undone>>
    BY <1>4, Zenon DEF Exit, NoRefresh, NoLookup, Fault
  <2> QED  BY <2>1, IndexAssumption, SMTT(30) DEF TypeOK, TypeFiles, TypeMemory, TypeRefresh,
              Alone, Loadable, Covered, Orderly, OnDisk
<1>5. ASSUME NEW p \in Procs, Periodic(p) PROVE Covered'
  <2>1. /\ p \in Daemons
        /\ up[p] = "up"
        /\ pc[p] = "idle"
        /\ pc' = [pc EXCEPT ![p] = "scan"]
        /\ blind' = (blind \/ ~loaded[p])
        /\ UNCHANGED <<cache, retainedFile, known, undone, up, loaded, retained, keep, found>>
    BY <1>5, Zenon DEF Periodic, Claim
  <2> QED  BY <2>1, IndexAssumption, SMTT(30) DEF TypeOK, TypeFiles, TypeMemory, TypeRefresh,
              Alone, Loadable, Covered, Orderly, OnDisk
<1>6. ASSUME NEW p \in Procs, NEW unread \in SUBSET Convs, Scan(p, unread) PROVE Covered'
  <2>1. /\ pc[p] = "scan"
        /\ pc' = [pc EXCEPT ![p] = "retain"]
        /\ found' = [found EXCEPT ![p] = [c \in Convs |-> ScanRecord(p, c, unread).record]]
        /\ UNCHANGED <<blind, cache, retainedFile, known, undone, up, loaded, retained, keep>>
    BY <1>6, ZenonT(30) DEF Scan, Advance, Fault
  <2> QED  BY <2>1, IndexAssumption, SMTT(30) DEF TypeOK, TypeFiles, TypeMemory, TypeRefresh,
              Alone, Loadable, Covered, Orderly, OnDisk
<1>7. ASSUME NEW p \in Procs, Retain(p) PROVE Covered'
  <2>1. /\ pc[p] = "retain"
        /\ pc' = [pc EXCEPT ![p] = IF Dropped(p) # retained[p] THEN "save" ELSE AfterSave(p)]
        /\ keep' = [keep EXCEPT ![p] = Dropped(p)]
        /\ UNCHANGED <<blind, cache, retainedFile, known, undone, up, loaded, retained, found>>
    BY <1>7, Zenon DEF Retain, Advance
  <2> QED  BY <2>1, IndexAssumption, SMTT(30) DEF TypeOK, TypeFiles, TypeMemory, TypeRefresh,
              Alone, Loadable, Agree, Covered, Kept, Dropped, Orderly, AfterSave, OnDisk, Ids
<1>8. ASSUME NEW p \in Procs, Save(p) PROVE Covered'
  <2>1. /\ pc[p] = "save"
        /\ pc' = [pc EXCEPT ![p] = AfterSave(p)]
        /\ retainedFile' = keep[p]
        /\ undone' = (undone \cup (retainedFile \ keep[p])) \ keep[p]
        /\ UNCHANGED <<blind, cache, known, up, loaded, retained, keep, found>>
    BY <1>8, ZenonT(30) DEF Save, Advance
  <2> QED  BY <2>1, IndexAssumption, SMTT(30) DEF TypeOK, TypeFiles, TypeMemory, TypeRefresh,
              Alone, Loadable, Agree, Covered, Kept, Dropped, Orderly, AfterSave, OnDisk, Ids
<1>9. ASSUME NEW p \in Procs, Truncate(p) PROVE Covered'
  <2>1. /\ pc[p] = "cache"
        /\ pc' = [pc EXCEPT ![p] = "fill"]
        /\ cache' = Torn
        /\ UNCHANGED <<blind, retainedFile, known, undone, up, loaded, retained, keep, found>>
    BY <1>9, Zenon DEF Truncate, Advance
  <2>2. ~cache'.whole
    BY <2>1, Zenon DEF Torn
  <2> QED  BY <2>1, <2>2, SMTT(30) DEF TypeOK, TypeRefresh, Covered, Orderly
<1>10. ASSUME NEW p \in Procs, Fill(p) PROVE Covered'
  <2>1. /\ pc[p] = "fill"
        /\ pc' = [pc EXCEPT ![p] = "install"]
        /\ cache' = [whole |-> TRUE, present |-> TRUE, records |-> found[p], stamps |-> marks[p]]
        /\ undone' = undone \ Ids(found[p])
        /\ UNCHANGED <<blind, retainedFile, known, up, loaded, retained, keep, found>>
    BY <1>10, Zenon DEF Fill, Advance
  <2>2. Ids(found[p])' = Ids(found[p]) /\ cache'.records = found[p] /\ pc'[p] = "install"
    BY <2>1, Zenon DEF Ids, TypeOK, TypeRefresh
  <2>3. SUFFICES ASSUME Orderly PROVE Covered'
    BY <2>1, Zenon DEF Orderly, Covered
  <2>4. up[p] = "up" /\ loaded[p] /\ ~bare[p]
    BY <2>1, <2>3, Zenon DEF Alone, Loadable
  <2>5. \A q \in Procs : up[q] = "up" => q = p
    BY <2>3, <2>4, Zenon DEF Alone, Orderly
  <2>6. keep[p] = Dropped(p)
    BY <2>1, <2>4, Zenon DEF Kept
  <2>7. /\ keep[p] \ retainedFile \subseteq undone
        /\ known \ undone \subseteq Served(p)
    BY <2>1, <2>3, <2>4, Zenon DEF Covered, Recalled
  <2>8. keep[p] \ retainedFile \subseteq undone'
    BY <2>1, <2>6, <2>7, Zenon DEF Dropped
  <2>9. known \ undone' \subseteq Ids(found[p]) \cup retainedFile
    BY <2>1, <2>6, <2>7, Zenon DEF Dropped, Served
  <2>10. OnDisk' = Ids(found[p]) \cup retainedFile
    BY <2>1, <2>2, Zenon DEF OnDisk, Ids
  <2> QED  BY <2>1, <2>2, <2>5, <2>8, <2>9, <2>10, Zenon DEF Covered
<1>11. ASSUME NEW p \in Procs, Install(p) PROVE Covered'
  <2>1. /\ pc[p] = "install"
        /\ pc' = [pc EXCEPT ![p] = "end"]
        /\ loaded' = [loaded EXCEPT ![p] = TRUE]
        /\ retained' = [retained EXCEPT ![p] = keep[p]]
        /\ known' = known \cup Ids(found[p]) \cup keep[p]
        /\ UNCHANGED <<blind, cache, retainedFile, undone, up, keep, found>>
    BY <1>11, Zenon DEF Install, Advance
  <2> QED  BY <2>1, IndexAssumption, SMTT(30) DEF TypeOK, TypeFiles, TypeMemory, TypeRefresh,
              Alone, Loadable, Agree, Covered, Kept, Dropped, Orderly, AfterSave, OnDisk, Ids
<1>12. ASSUME NEW p \in Procs, End(p) PROVE Covered'
  <2>1. CASE apc[p] \in {"own", "join"}
    <3>1. /\ apc[p] \in {"own", "join"}
          /\ pc[p] = "end"
          /\ pc' = [pc EXCEPT ![p] = "idle"]
          /\ found' = [found EXCEPT ![p] = Nothing]
          /\ keep' = [keep EXCEPT ![p] = {}]
          /\ UNCHANGED <<blind, cache, retainedFile, known, undone, up, loaded, retained>>
      BY <1>12, <2>1, Zenon DEF End, Advance, NoRefresh
    <3> QED  BY <3>1, IndexAssumption, SMTT(30) DEF TypeOK, TypeFiles, TypeMemory, TypeRefresh,
                Alone, Loadable, Covered, Orderly, OnDisk
  <2>2. CASE ~(apc[p] \in {"own", "join"})
    <3>1. /\ ~(apc[p] \in {"own", "join"})
          /\ pc[p] = "end"
          /\ pc' = [pc EXCEPT ![p] = "idle"]
          /\ found' = [found EXCEPT ![p] = Nothing]
          /\ keep' = [keep EXCEPT ![p] = {}]
          /\ UNCHANGED <<blind, cache, retainedFile, known, undone, up, loaded, retained>>
      BY <1>12, <2>2, Zenon DEF End, Advance, NoRefresh
    <3> QED  BY <3>1, IndexAssumption, SMTT(30) DEF TypeOK, TypeFiles, TypeMemory, TypeRefresh,
                Alone, Loadable, Covered, Orderly, OnDisk
  <2> QED  BY <2>1, <2>2, Zenon
<1>13. ASSUME NEW p \in Procs, ScanFails(p) PROVE Covered'
  <2>1. /\ pc[p] = "scan"
        /\ pc' = [pc EXCEPT ![p] = "end"]
        /\ faults < MaxFaults
        /\ UNCHANGED <<blind, cache, retainedFile, known, undone, up, loaded, retained, keep, found>>
    BY <1>13, Zenon DEF ScanFails, Advance, Fails, Fault
  <2> QED  BY <2>1, IndexAssumption, SMTT(30) DEF TypeOK, TypeFiles, TypeMemory, TypeRefresh,
              Alone, Loadable, Covered, Orderly, OnDisk
<1>14. ASSUME NEW p \in Procs, SaveFails(p) PROVE Covered'
  <2>1. /\ pc[p] = "save"
        /\ pc' = [pc EXCEPT ![p] = "end"]
        /\ faults < MaxFaults
        /\ UNCHANGED <<blind, cache, retainedFile, known, undone, up, loaded, retained, keep, found>>
    BY <1>14, Zenon DEF SaveFails, Advance, Fails, Fault
  <2> QED  BY <2>1, IndexAssumption, SMTT(30) DEF TypeOK, TypeFiles, TypeMemory, TypeRefresh,
              Alone, Loadable, Covered, Orderly, OnDisk
<1>15. ASSUME NEW p \in Procs, CacheFails(p) PROVE Covered'
  <2>1. CASE pc[p] = "cache"
    <3>1. /\ pc[p] = "cache"
          /\ pc' = [pc EXCEPT ![p] = "end"]
          /\ faults < MaxFaults
          /\ UNCHANGED <<blind, cache, retainedFile, known, undone, up, loaded, retained, keep, found>>
      BY <1>15, <2>1, Zenon DEF CacheFails, Advance, Fails, Fault
    <3> QED  BY <3>1, IndexAssumption, SMTT(30) DEF TypeOK, TypeFiles, TypeMemory, TypeRefresh,
                Alone, Loadable, Covered, Orderly, OnDisk
  <2>2. CASE pc[p] # "cache"
    <3>1. /\ pc[p] = "fill"
          /\ pc' = [pc EXCEPT ![p] = "end"]
          /\ faults < MaxFaults
          /\ UNCHANGED <<blind, cache, retainedFile, known, undone, up, loaded, retained, keep, found>>
      BY <1>15, <2>2, Zenon DEF CacheFails, Advance, Fails, Fault
    <3> QED  BY <3>1, IndexAssumption, SMTT(30) DEF TypeOK, TypeFiles, TypeMemory, TypeRefresh,
                Alone, Loadable, Covered, Orderly, OnDisk
  <2> QED  BY <2>1, <2>2, ZenonT(30)
<1>16. ASSUME NEW p \in Procs, Call(p) PROVE Covered'
  <2>1. CASE pc[p] = "idle"
    <3>1. /\ apc[p] = "refresh"
          /\ pc[p] = "idle"
          /\ pc' = [pc EXCEPT ![p] = "scan"]
          /\ UNCHANGED <<blind, cache, retainedFile, known, undone, up, loaded, retained, keep, found>>
      BY <1>16, <2>1, Zenon DEF Call, Claim
    <3> QED  BY <3>1, IndexAssumption, SMTT(30) DEF TypeOK, TypeFiles, TypeMemory, TypeRefresh,
                Alone, Loadable, Covered, Orderly, OnDisk
  <2>2. CASE pc[p] # "idle"
    <3>1. UNCHANGED seen
      BY <1>16, <2>2, Zenon DEF Call, Claim
    <3> QED  BY <1>0, <3>1, Zenon
  <2> QED  BY <2>1, <2>2, ZenonT(30)
<1>17. ASSUME NEW p \in Procs, Answer(p) PROVE UNCHANGED seen
  BY <1>17, Zenon DEF Answer
<1>18. ASSUME NEW p \in Procs, WaitCancelled(p) PROVE UNCHANGED seen
  BY <1>18, Zenon DEF WaitCancelled
<1>19. ASSUME NEW p \in Procs, NEW c \in Asked, Ask(p, c) PROVE Covered'
  <2>1. CASE ~loaded[p] /\ cache.whole
    <3>1. /\ up[p] = "up"
          /\ apc[p] = "idle"
          /\ ~loaded[p]
          /\ cache.whole
          /\ loaded' = [loaded EXCEPT ![p] = TRUE]
          /\ retained' = [retained EXCEPT ![p] = retainedFile]
          /\ known' = known \cup OnDisk
          /\ UNCHANGED <<blind, cache, retainedFile, undone, up, pc, keep, found>>
      BY <1>19, <2>1, Zenon DEF Ask, Load
    <3> QED  BY <3>1, IndexAssumption, SMTT(30) DEF TypeOK, TypeFiles, TypeMemory, TypeRefresh,
                Alone, Loadable, Covered, Orderly, OnDisk
  <2>2. CASE ~(~loaded[p] /\ cache.whole)
    <3>1. UNCHANGED seen
      BY <1>19, <2>2, Zenon DEF Ask, Load
    <3> QED  BY <1>0, <3>1, Zenon
  <2> QED  BY <2>1, <2>2, Zenon
<1>20. CASE UNCHANGED vars
  BY <1>0, <1>20, Zenon DEF vars
<1> HIDE DEF seen, transcripts, files, memory, refresh, lookup, lookupHistory, fileHistory
<1> QED
  BY <1>0, <1>1, <1>2, <1>3, <1>3a, <1>4, <1>5, <1>6, <1>7, <1>8, <1>9, <1>10, <1>11, <1>12,
     <1>13, <1>14, <1>15, <1>16, <1>17, <1>18, <1>19, <1>20, Zenon DEF Next, RefreshStep, LookupStep

\* Recalled is preserved.
LEMMA RecalledStep ==
    TypeOK /\ Alone /\ Loadable /\ Agree /\ Kept /\ Covered /\ Recalled /\ [Next]_vars => Recalled'
<1> SUFFICES ASSUME TypeOK, Alone, Loadable, Agree, Kept, Covered, Recalled, [Next]_vars
             PROVE  Recalled'
  BY Zenon
<1> USE DEF transcripts, files, memory, refresh, lookup, lookupHistory, fileHistory
<1>a. ASSUME UNCHANGED <<known, undone, records, retained>>, Orderly' => Orderly,
             \A q \in Procs : up'[q] = "up" /\ loaded'[q] =>
                /\ up[q] = "up" /\ loaded[q]
                /\ (pc'[q] = "install") = (pc[q] = "install")
                /\ pc[q] = "install" => found'[q] = found[q] /\ keep'[q] = keep[q]
      PROVE  Recalled'
  BY <1>a, ZenonT(30) DEF Recalled, Served, Ids
<1>b. ASSUME NEW p \in Procs, Orderly, up[p] = "up",
             up' = up, Orderly' => loaded'[p] /\ known' \ undone' \subseteq
                IF pc'[p] = "install" THEN Ids(found[p])' \cup keep'[p] ELSE Served(p)'
      PROVE  Recalled'
  <2>1. \A q \in Procs : up[q] = "up" => q = p
    BY <1>b, Zenon DEF Alone, Orderly
  <2> QED  BY <1>b, <2>1, Zenon DEF Recalled
<1>1. ASSUME \/ \E c \in Convs : Remove(c) \/ \E readable \in BOOLEAN : Write(c, readable)
             \/ \E p \in Procs : Answer(p) \/ WaitCancelled(p)
             \/ UNCHANGED vars
      PROVE  Recalled'
  <2>1. UNCHANGED <<known, undone, blind, up, loaded, records, retained, pc, found, keep>>
    BY <1>1, Zenon DEF Remove, Write, Answer, NoLookup, WaitCancelled, vars
  <2> QED  BY <1>a, <2>1, Zenon DEF Orderly
<1>2. ASSUME NEW p \in Procs,
             \/ Periodic(p) \/ Call(p) \/ Truncate(p)
             \/ ScanFails(p) \/ SaveFails(p) \/ CacheFails(p)
      PROVE  Recalled'
  <2>1. /\ UNCHANGED <<known, undone, up, loaded, records, retained, found, keep>>
        /\ blind' = blind \/ blind' = (blind \/ ~loaded[p])
        /\ \/ pc' = pc
           \/ pc[p] # "install" /\ \E to \in {"scan", "fill", "end"} : pc' = [pc EXCEPT ![p] = to]
    BY <1>2, Zenon DEF Periodic, Call, Claim, Truncate, ScanFails, SaveFails, CacheFails, Fails, Advance
  <2>2. \A q \in Procs : (pc'[q] = "install") = (pc[q] = "install")
    BY <2>1 DEF TypeOK, TypeRefresh
  <2>3. Orderly' => Orderly
    BY <2>1, Zenon DEF Orderly
  <2>4. \A q \in Procs : up'[q] = up[q] /\ loaded'[q] = loaded[q] /\ found'[q] = found[q] /\ keep'[q] = keep[q]
    BY <2>1, Zenon
  <2> QED  BY <1>a, <2>1, <2>2, <2>3, <2>4, Zenon
<1>3. ASSUME NEW p \in Procs, Start(p) \/ StartUnloaded(p) \/ \E c \in Asked : Ask(p, c)
      PROVE  Recalled'
  <2>1. CASE UNCHANGED <<memory, known>>
    <3>1. /\ UNCHANGED <<known, undone, blind, loaded, records, retained, pc, found, keep>>
          /\ up' = up \/ (up[p] = "off" /\ up' = [up EXCEPT ![p] = "up"])
      BY <1>3, <2>1, Zenon DEF Start, StartUnloaded, Ask
    <3>2. up[p] = "off" => ~loaded[p]
      BY Zenon DEF Alone
    <3>3. \A q \in Procs : up'[q] = "up" /\ loaded'[q] => up[q] = "up" /\ loaded[q]
      BY <3>1, <3>2 DEF TypeOK, TypeMemory
    <3> QED  BY <1>a, <3>1, <3>3, Zenon DEF Orderly
  <2>2. CASE ~UNCHANGED <<memory, known>>
    <3>1. Load(p) /\ ~loaded[p] /\ cache.whole
      BY <1>3, <2>2, Zenon DEF Start, StartUnloaded, Ask, Load
    <3>2. /\ loaded' = [loaded EXCEPT ![p] = TRUE]
          /\ records' = [records EXCEPT ![p] = cache.records]
          /\ retained' = [retained EXCEPT ![p] = retainedFile]
          /\ known' = known \cup OnDisk
      BY <3>1, Zenon DEF Load
    <3>3. /\ UNCHANGED <<undone, blind, pc>>
          /\ \/ up' = up /\ up[p] = "up"
             \/ /\ up' = [up EXCEPT ![p] = "up"]
                /\ Cardinality({q \in Procs : up[q] = "up"}) < MaxUp
      BY <1>3, <2>2, Zenon DEF Start, StartUnloaded, Ask
    <3>4. SUFFICES ASSUME Orderly PROVE Recalled'
      BY <3>3, Zenon DEF Recalled, Orderly
    <3>5. \A q \in Procs : up'[q] = "up" => q = p
      <4>1. CASE up' = up /\ up[p] = "up"
        BY <3>4, <4>1, Zenon DEF Alone, Orderly
      <4>2. CASE up' = [up EXCEPT ![p] = "up"] /\ Cardinality({q \in Procs : up[q] = "up"}) < MaxUp
        <5>1. \A q \in Procs : up[q] # "up"
          BY <3>4, <4>2, NobodyUp, Zenon DEF Orderly
        <5> QED  BY <4>2, <5>1 DEF TypeOK, TypeMemory
      <4> QED  BY <3>3, <4>1, <4>2, Zenon
    <3>6. pc'[p] # "install"
      BY <3>1, <3>3, <3>4, Zenon DEF Alone, Loadable
    <3>7. Served(p)' = OnDisk
      BY <3>2, Zenon DEF Served, OnDisk, Ids, TypeOK, TypeMemory
    <3>8. known' \ undone' \subseteq OnDisk
      BY <3>1, <3>2, <3>3, <3>4, Zenon DEF Covered
    <3> QED  BY <3>5, <3>6, <3>7, <3>8, Zenon DEF Recalled
  <2> QED  BY <2>1, <2>2, Zenon
<1>4. ASSUME NEW p \in Procs, Exit(p) PROVE Recalled'
  <2>1. /\ UNCHANGED <<known, undone, blind>>
        /\ up' = [up EXCEPT ![p] = "down"] /\ loaded' = [loaded EXCEPT ![p] = FALSE]
        /\ records' = [records EXCEPT ![p] = Nothing] /\ retained' = [retained EXCEPT ![p] = {}]
        /\ pc' = [pc EXCEPT ![p] = "idle"]
        /\ found' = [found EXCEPT ![p] = Nothing] /\ keep' = [keep EXCEPT ![p] = {}]
    BY <1>4, Zenon DEF Exit, NoRefresh
  <2>2. up'[p] # "up"
    BY <2>1 DEF TypeOK, TypeMemory
  <2>3. \A q \in Procs \ {p} :
           UNCHANGED <<up[q], loaded[q], records[q], retained[q], pc[q], found[q], keep[q]>>
    BY <2>1, Zenon DEF TypeOK, TypeMemory, TypeRefresh
  <2>4. \A q \in Procs \ {p} : UNCHANGED <<Served(q), Ids(found[q])>>
    BY <2>3, Zenon DEF Served, Ids
  <2>5. Orderly' = Orderly
    BY <2>1, Zenon DEF Orderly
  <2>6. SUFFICES ASSUME Orderly', NEW q \in Procs, up'[q] = "up", loaded'[q]
        PROVE  known' \ undone' \subseteq
                   IF pc'[q] = "install" THEN Ids(found[q])' \cup keep'[q] ELSE Served(q)'
    BY Zenon DEF Recalled
  <2>7. q # p
    BY <2>2, <2>6, Zenon
  <2>8. known \ undone \subseteq IF pc[q] = "install" THEN Ids(found[q]) \cup keep[q] ELSE Served(q)
    BY <2>3, <2>5, <2>6, <2>7, Zenon DEF Recalled
  <2> QED  BY <2>1, <2>3, <2>4, <2>7, <2>8, Zenon
<1>5. ASSUME NEW p \in Procs, (\E unread \in SUBSET Convs : Scan(p, unread)) \/ End(p)
      PROVE  Recalled'
  <2>1. /\ UNCHANGED <<known, undone, blind, up, loaded, records, retained>>
        /\ pc[p] # "install"
        /\ pc' = [pc EXCEPT ![p] = "retain"] \/ pc' = [pc EXCEPT ![p] = "idle"]
    BY <1>5, Zenon DEF Scan, End, NoRefresh, Advance
  <2>2. /\ (\E r : found' = [found EXCEPT ![p] = r])
        /\ keep' = keep \/ keep' = [keep EXCEPT ![p] = {}]
    BY <1>5, Zenon DEF Scan, End, NoRefresh
  <2>3. \A q \in Procs \ {p} : found'[q] = found[q] /\ keep'[q] = keep[q]
    BY <2>2, Zenon DEF TypeOK, TypeRefresh
  <2>4. \A q \in Procs :
           /\ (pc'[q] = "install") = (pc[q] = "install")
           /\ pc[q] = "install" => q # p
    BY <2>1 DEF TypeOK, TypeRefresh
  <2>5. Orderly' => Orderly
    BY <2>1, Zenon DEF Orderly
  <2>6. \A q \in Procs : up'[q] = up[q] /\ loaded'[q] = loaded[q]
    BY <2>1, Zenon
  <2> QED  BY <1>a, <2>1, <2>3, <2>4, <2>5, <2>6, Zenon
<1>6. ASSUME NEW p \in Procs, Retain(p) PROVE Recalled'
  <2>1. /\ UNCHANGED <<known, undone, blind, up, loaded, records, retained, found>>
        /\ pc[p] = "retain" /\ keep' = [keep EXCEPT ![p] = Dropped(p)]
    BY <1>6, Zenon DEF Retain, Advance
  <2>2. SUFFICES ASSUME Orderly PROVE Recalled'
    BY <2>1, Zenon DEF Recalled, Orderly
  <2>3. up[p] = "up" /\ loaded[p]
    BY <2>1, <2>2, Zenon DEF Alone, Loadable
  <2>4. known \ undone \subseteq Served(p)
    BY <2>1, <2>2, <2>3, Zenon DEF Recalled
  <2>5. Served(p) \subseteq Ids(found[p]) \cup Dropped(p) /\ keep'[p] = Dropped(p)
    BY <2>1, Zenon DEF Served, Dropped, TypeOK, TypeRefresh
  <2>6. UNCHANGED <<Served(p), Ids(found[p])>>
    BY <2>1, Zenon DEF Served, Ids
  <2> QED  BY <1>b, <2>1, <2>2, <2>3, <2>4, <2>5, <2>6, Zenon
<1>7. ASSUME NEW p \in Procs, Save(p) \/ Fill(p) PROVE Recalled'
  <2>1. /\ UNCHANGED <<known, blind, up, loaded, records, retained, found, keep>>
        /\ \/ /\ pc[p] = "save"
              /\ undone' = (undone \cup (retainedFile \ keep[p])) \ keep[p]
           \/ /\ pc[p] = "fill" /\ pc' = [pc EXCEPT ![p] = "install"]
              /\ undone' = undone \ Ids(found[p])
    BY <1>7, Zenon DEF Save, Fill, Advance
  <2>2. SUFFICES ASSUME Orderly PROVE Recalled'
    BY <2>1, Zenon DEF Recalled, Orderly
  <2>3. up[p] = "up" /\ loaded[p] /\ ~bare[p]
    BY <2>1, <2>2, Zenon DEF Alone, Loadable
  <2>4. known \ undone \subseteq Served(p)
    BY <2>1, <2>2, <2>3, Zenon DEF Recalled
  <2>5. keep[p] = Served(p) \ Ids(found[p])
    BY <2>1, <2>3, Zenon DEF Kept, Dropped, Served
  <2>6. UNCHANGED <<Served(p), Ids(found[p])>>
    BY <2>1, Zenon DEF Served, Ids
  <2>7. CASE pc[p] = "save"
    <3>1. known \ undone' \subseteq Served(p)
      BY <2>1, <2>4, <2>5, <2>7, Zenon
    <3>2. Served(p) \subseteq Ids(found[p]) \cup keep[p]
      BY <2>5, Zenon
    <3> QED  BY <1>b, <2>1, <2>2, <2>3, <2>6, <3>1, <3>2, Zenon
  <2>8. CASE pc[p] = "fill"
    <3>1. pc'[p] = "install" /\ undone' = undone \ Ids(found[p])
      BY <2>1, <2>8, Zenon DEF TypeOK, TypeRefresh
    <3>2. known \ undone' \subseteq Ids(found[p]) \cup keep[p]
      BY <2>4, <2>5, <3>1, Zenon
    <3> QED  BY <1>b, <2>1, <2>2, <2>3, <2>6, <3>1, <3>2, Zenon
  <2> QED  BY <2>1, <2>7, <2>8, Zenon
<1>8. ASSUME NEW p \in Procs, Install(p) PROVE Recalled'
  <2>1. /\ UNCHANGED <<undone, blind, up, found, keep>>
        /\ pc[p] = "install" /\ pc' = [pc EXCEPT ![p] = "end"]
        /\ loaded' = [loaded EXCEPT ![p] = TRUE]
        /\ records' = [records EXCEPT ![p] = found[p]] /\ retained' = [retained EXCEPT ![p] = keep[p]]
        /\ known' = known \cup Ids(found[p]) \cup keep[p]
    BY <1>8, Zenon DEF Install, Advance
  <2>2. SUFFICES ASSUME Orderly PROVE Recalled'
    BY <2>1, Zenon DEF Recalled, Orderly
  <2>3. up[p] = "up" /\ loaded[p]
    BY <2>1, <2>2, Zenon DEF Alone, Loadable
  <2>4. known \ undone \subseteq Ids(found[p]) \cup keep[p]
    BY <2>1, <2>2, <2>3, Zenon DEF Recalled
  <2>5. Served(p)' = Ids(found[p]) \cup keep[p] /\ pc'[p] = "end" /\ loaded'[p]
    BY <2>1, Zenon DEF Served, Ids, TypeOK, TypeMemory, TypeRefresh
  <2>6. known' \ undone' \subseteq Served(p)'
    BY <2>1, <2>4, <2>5, Zenon
  <2> QED  BY <1>b, <2>1, <2>2, <2>3, <2>5, <2>6, Zenon
<1> HIDE DEF transcripts, files, memory, refresh, lookup, lookupHistory, fileHistory
<1> QED  BY <1>1, <1>2, <1>3, <1>4, <1>5, <1>6, <1>7, <1>8, Zenon DEF Next, RefreshStep, LookupStep

\* The inductive invariant of the files.
FInv == Alone /\ Loadable /\ Agree /\ Covered /\ Recalled

\* It holds initially and every step preserves it.
LEMMA FilesInvariance == Spec => []FInv
<1>1. Init => FInv
  <2> SUFFICES ASSUME Init PROVE FInv  BY Zenon
  <2>1. cache.whole /\ \A p \in Procs : up[p] = "off" /\ pc[p] = "idle" /\ apc[p] = "idle" /\ ~loaded[p]
    BY Zenon DEF Init, Missing
  <2>2. known = {}
    BY Zenon DEF Init
  <2> QED  BY <2>1, <2>2, Zenon DEF FInv, Alone, Loadable, Agree, Covered, Recalled
<1>2. IInv /\ FInv /\ [Next]_vars => FInv'
  BY AloneStep, LoadableStep, AgreeStep, CoveredStep, RecalledStep, Zenon DEF IInv, FInv
<1> QED
  BY <1>1, <1>2, Invariance, PTL DEF Spec

\* As long as processes follow one another and no refresh began before the files could be
\* loaded, whoever loads them lists every conversation that was ever listed, whether its
\* transcript is still there or not and however many writes of the cache were cut off,
\* undone excepted (refresh, writeRetained, writeCache, loadOnce).
THEOREM NeverForgets == Spec => []NothingForgotten
<1>1. FInv => NothingForgotten
  BY Zenon DEF FInv, Covered, Orderly, NothingForgotten
<1> QED
  BY <1>1, FilesInvariance, PTL

-----------------------------------------------------------------------------
\* A conversation whose stamp is recorded although there is no record was unreadable when
\* it was scanned, and is noted as missed if it can be read.
Sound(r, s) ==
    \A c \in Convs :
        /\ s[c] <= version[c]
        /\ s[c] = version[c] /\ s[c] # 0 /\ c \notin bad => r[c] # 0 \/ c \in missed

\* So it is in the cache file, in every process's memory and in every scan's result.
StampInv ==
    /\ \A c \in present : version[c] # 0
    /\ Sound(cache.records, cache.stamps)
    /\ \A p \in Procs : Sound(records[p], stamps[p]) /\ Sound(found[p], marks[p])

FoundOrMissed(p, r) == r[p][asking[p]] # 0 \/ asking[p] \in missed

\* The refresh that a lookup started, and those after it, find the transcript asked for.
Look(p) ==
    /\ steady[p] => asking[p] \in present \ bad
    /\ apc[p] = "join" => joined[p]
    /\ steady[p] /\ ~joined[p] =>
          /\ apc[p] \in {"own", "ended"} /\ pc[p] \in {"retain", "save", "cache", "fill", "install"} =>
                FoundOrMissed(p, found)
          /\ apc[p] = "own" /\ pc[p] = "end" /\ ~failed[p] => FoundOrMissed(p, records)
          /\ apc[p] = "ended" /\ ~outcome[p] => FoundOrMissed(p, records)
LookInv == \A p \in Procs : Look(p)

\* A scan stamps a readable transcript only with a record, or notes it as missed.
LEMMA ScanFinds ==
    ASSUME TypeOK, StampInv, NEW p \in Procs, NEW unread \in SUBSET Convs, Scan(p, unread),
           NEW c \in Convs
    PROVE  /\ marks'[p][c] <= version[c]
           /\ c \in present \ bad => found'[p][c] # 0 \/ c \in missed'
           /\ c \notin present => marks'[p][c] = 0
<1>1. /\ found'[p][c] = ScanRecord(p, c, unread).record
      /\ marks'[p][c] = ScanRecord(p, c, unread).stamp
      /\ missed' = missed \cup {d \in unread \cap present : ~Reuse(p, d) /\ PriorRecord(p, d) = 0}
  BY Zenon DEF Scan, TypeOK, TypeRefresh
<1>2. version[c] \in Nat /\ (c \in present => version[c] # 0)
  BY IndexAssumption DEF StampInv, TypeOK, TypeFiles, Stamped, Versions
<1>3. Reuse(p, c) /\ c \in present \ bad => PriorRecord(p, c) # 0 \/ c \in missed
  BY <1>2, Zenon DEF StampInv, Sound, Reuse, PriorStamp, PriorRecord
<1>4. CASE c \notin present
  <2>1. ScanRecord(p, c, unread) = [record |-> 0, stamp |-> 0]
    BY <1>4, Zenon DEF ScanRecord
  <2> QED  BY <1>1, <1>2, <1>4, <2>1
<1>5. CASE c \in present /\ Reuse(p, c)
  <2>1. ScanRecord(p, c, unread) = [record |-> PriorRecord(p, c), stamp |-> version[c]]
    BY <1>5, Zenon DEF ScanRecord
  <2> QED  BY <1>1, <1>2, <1>3, <1>5, <2>1
<1>6. CASE c \in present /\ ~Reuse(p, c) /\ c \notin bad \cup unread
  <2>1. ScanRecord(p, c, unread) = [record |-> version[c], stamp |-> version[c]]
    BY <1>6, Zenon DEF ScanRecord
  <2> QED  BY <1>1, <1>2, <1>6, <2>1
<1>7. CASE c \in present /\ ~Reuse(p, c) /\ c \in bad \cup unread
  <2>1. ScanRecord(p, c, unread) =
          [record |-> PriorRecord(p, c), stamp |-> IF PriorRecord(p, c) = 0 THEN version[c] ELSE 0]
    BY <1>7, Zenon DEF ScanRecord
  <2> QED  BY <1>1, <1>2, <1>7, <2>1
<1> QED  BY <1>4, <1>5, <1>6, <1>7, Zenon

\* Every step keeps stamps and records sound: they are scanned or copied.
LEMMA StampStep == TypeOK /\ StampInv /\ [Next]_vars => StampInv'
<1> SUFFICES ASSUME TypeOK, StampInv, [Next]_vars PROVE StampInv'  BY Zenon
<1> USE DEF transcripts, files, memory, refresh, lookup, lookupHistory, fileHistory
<1>0. Sound(Nothing, Nothing) /\ \A c \in Convs : version[c] \in Nat
  BY IndexAssumption DEF Sound, Nothing, TypeOK, TypeFiles, Stamped, Versions
<1>a. ASSUME UNCHANGED <<version, bad, missed>>, present' \subseteq present,
             cache' = cache \/ Sound(cache'.records, cache'.stamps),
             \A p \in Procs :
                /\ (records'[p] = records[p] /\ stamps'[p] = stamps[p]) \/ Sound(records'[p], stamps'[p])
                /\ (found'[p] = found[p] /\ marks'[p] = marks[p]) \/ Sound(found'[p], marks'[p])
      PROVE  StampInv'
  <2>1. ASSUME NEW r, NEW s, Sound(r, s) PROVE \A c \in Convs :
            /\ s[c] <= version'[c]
            /\ s[c] = version'[c] /\ s[c] # 0 /\ c \notin bad' => r[c] # 0 \/ c \in missed'
    BY <1>a, <2>1, Zenon DEF Sound
  <2>2. Sound(cache'.records, cache'.stamps)
    BY <1>a, Zenon DEF StampInv
  <2>3. \A p \in Procs : Sound(records'[p], stamps'[p]) /\ Sound(found'[p], marks'[p])
    BY <1>a, Zenon DEF StampInv
  <2>4. \A c \in present' : version'[c] # 0
    BY <1>a, Zenon DEF StampInv
  <2>5. Sound(cache.records, cache.stamps)'
    BY <2>1, <2>2, Zenon DEF Sound
  <2>6. \A p \in Procs : Sound(records[p], stamps[p])' /\ Sound(found[p], marks[p])'
    BY <2>1, <2>3, Zenon DEF Sound
  <2> QED  BY <2>4, <2>5, <2>6, Zenon DEF StampInv
<1>1. ASSUME NEW c \in Convs, NEW readable \in BOOLEAN, Write(c, readable) PROVE StampInv'
  <2>1. /\ version' = [version EXCEPT ![c] = @ + 1] /\ present' = present \cup {c}
        /\ bad' = bad \ {c} \/ bad' = bad \cup {c}
        /\ missed' = missed \ {c}
        /\ UNCHANGED <<cache, records, stamps, found, marks>>
    BY <1>1, Zenon DEF Write
  <2>2. version'[c] = version[c] + 1 /\ \A d \in Convs : d # c => version'[d] = version[d]
    BY <2>1, Zenon DEF TypeOK, TypeFiles, Stamped
  <2>3. ASSUME NEW r, NEW s \in Stamped, Sound(r, s) PROVE \A d \in Convs :
            /\ s[d] <= version'[d]
            /\ s[d] = version'[d] /\ s[d] # 0 /\ d \notin bad' => r[d] # 0 \/ d \in missed'
    BY <1>0, <2>1, <2>2, <2>3, IndexAssumption DEF Sound, Stamped, Versions
  <2>4. \A d \in present' : version'[d] # 0
    BY <1>0, <2>1, <2>2 DEF StampInv, TypeOK, TypeFiles
  <2>5. Sound(cache.records, cache.stamps)'
    BY <2>1, <2>3, Zenon DEF StampInv, Sound, TypeOK, TypeFiles
  <2>6. \A p \in Procs : Sound(records[p], stamps[p])' /\ Sound(found[p], marks[p])'
    <3>1. \A p \in Procs : stamps[p] \in Stamped /\ marks[p] \in Stamped
      BY Zenon DEF TypeOK, TypeMemory, TypeRefresh
    <3> QED  BY <2>1, <2>3, <3>1, Zenon DEF StampInv, Sound
  <2> QED  BY <2>4, <2>5, <2>6, Zenon DEF StampInv
<1>2. ASSUME NEW p \in Procs, Start(p) \/ \E c \in Asked : Ask(p, c) PROVE StampInv'
  <2>1. /\ UNCHANGED <<version, present, bad, missed, cache, found, marks>>
        /\ \/ UNCHANGED <<records, stamps>>
           \/ /\ records' = [records EXCEPT ![p] = cache.records]
              /\ stamps' = [stamps EXCEPT ![p] = cache.stamps]
    BY <1>2, Zenon DEF Start, Ask, Load
  <2>2. \A q \in Procs : (records'[q] = records[q] /\ stamps'[q] = stamps[q])
                            \/ Sound(records'[q], stamps'[q])
    BY <2>1, Zenon DEF TypeOK, TypeMemory, StampInv
  <2> QED  BY <1>a, <2>1, <2>2, Zenon
<1>3. ASSUME NEW p \in Procs, Exit(p) \/ End(p) PROVE StampInv'
  <2>1. /\ UNCHANGED <<version, present, bad, missed, cache>>
        /\ found' = [found EXCEPT ![p] = Nothing] /\ marks' = [marks EXCEPT ![p] = Nothing]
        /\ \/ UNCHANGED <<records, stamps>>
           \/ /\ records' = [records EXCEPT ![p] = Nothing] /\ stamps' = [stamps EXCEPT ![p] = Nothing]
    BY <1>3, Zenon DEF Exit, End, NoRefresh, NoLookup
  <2>2. \A q \in Procs :
           /\ (records'[q] = records[q] /\ stamps'[q] = stamps[q]) \/ Sound(records'[q], stamps'[q])
           /\ (found'[q] = found[q] /\ marks'[q] = marks[q]) \/ Sound(found'[q], marks'[q])
    BY <1>0, <2>1, Zenon DEF TypeOK, TypeMemory, TypeRefresh
  <2> QED  BY <1>a, <2>1, <2>2, Zenon
<1>4. ASSUME NEW p \in Procs, NEW unread \in SUBSET Convs, Scan(p, unread) PROVE StampInv'
  <2>1. /\ UNCHANGED <<version, present, bad, cache, records, stamps>> /\ missed \subseteq missed'
        /\ \A q \in Procs \ {p} : found'[q] = found[q] /\ marks'[q] = marks[q]
    BY <1>4, Zenon DEF Scan, TypeOK, TypeRefresh
  <2>2. Sound(found[p], marks[p])'
    BY <1>4, <2>1, ScanFinds, Zenon DEF Sound
  <2>3. \A q \in Procs : Sound(records[q], stamps[q])'
    BY <2>1, Zenon DEF Sound, StampInv
  <2>4. \A q \in Procs \ {p} : Sound(found[q], marks[q])'
    BY <2>1, Zenon DEF Sound, StampInv
  <2>5. Sound(cache.records, cache.stamps)'
    BY <2>1, Zenon DEF Sound, StampInv
  <2> QED  BY <2>1, <2>2, <2>3, <2>4, <2>5, Zenon DEF StampInv
<1>5. ASSUME NEW p \in Procs, Truncate(p) \/ Fill(p) PROVE StampInv'
  <2>1. /\ UNCHANGED <<version, present, bad, missed, records, stamps, found, marks>>
        /\ \/ cache' = Torn
           \/ cache' = [whole |-> TRUE, present |-> TRUE, records |-> found[p], stamps |-> marks[p]]
    BY <1>5, Zenon DEF Truncate, Fill
  <2>2. Sound(cache'.records, cache'.stamps)
    BY <1>0, <2>1 DEF Torn, StampInv
  <2> QED  BY <1>a, <2>1, <2>2, Zenon
<1>6. ASSUME NEW p \in Procs, Install(p) PROVE StampInv'
  <2>1. /\ UNCHANGED <<version, present, bad, missed, cache, found, marks>>
        /\ records' = [records EXCEPT ![p] = found[p]] /\ stamps' = [stamps EXCEPT ![p] = marks[p]]
    BY <1>6, Zenon DEF Install
  <2>2. \A q \in Procs : (records'[q] = records[q] /\ stamps'[q] = stamps[q])
                            \/ Sound(records'[q], stamps'[q])
    BY <2>1, Zenon DEF TypeOK, TypeMemory, StampInv
  <2> QED  BY <1>a, <2>1, <2>2, Zenon
<1>7. ASSUME \/ \E c \in Convs : Remove(c)
             \/ \E p \in Procs : \/ StartUnloaded(p) \/ Periodic(p) \/ Retain(p) \/ Save(p)
                                 \/ ScanFails(p) \/ SaveFails(p) \/ CacheFails(p) \/ Call(p) \/ Answer(p) \/ WaitCancelled(p)
             \/ UNCHANGED vars
      PROVE  StampInv'
  <2>1. /\ UNCHANGED <<version, bad, missed, cache, records, stamps, found, marks>>
        /\ present' \subseteq present
    BY <1>7, Zenon DEF Remove, StartUnloaded, Periodic, Retain, Save, ScanFails, SaveFails, CacheFails,
       Call, Answer, NoLookup, WaitCancelled, vars
  <2> QED  BY <1>a, <2>1, Zenon
<1> HIDE DEF transcripts, files, memory, refresh, lookup, lookupHistory, fileHistory
<1> QED  BY <1>1, <1>2, <1>3, <1>4, <1>5, <1>6, <1>7, IndexAssumption, Zenon
         DEF Next, RefreshStep, LookupStep

\* Every step keeps what a lookup that did not join another refresh will find.
LEMMA LookStep == TypeOK /\ Empty /\ StampInv /\ LookInv /\ [Next]_vars => LookInv'
<1> SUFFICES ASSUME TypeOK, Empty, StampInv, LookInv, [Next]_vars PROVE LookInv'  BY Zenon
<1> USE DEF transcripts, files, memory, refresh, lookup, lookupHistory, fileHistory
<1>0. ASSUME NEW q \in Procs, UNCHANGED <<present, bad>>, missed \subseteq missed',
             UNCHANGED <<asking[q], apc[q], outcome[q], steady[q], joined[q], pc[q], failed[q],
                         found[q], records[q]>>
      PROVE  Look(q)'
  BY <1>0, Zenon DEF LookInv, Look, FoundOrMissed
<1>a. ASSUME NEW p \in Procs, Look(p)', UNCHANGED <<present, bad>>, missed \subseteq missed',
             \A q \in Procs \ {p} :
                UNCHANGED <<asking[q], apc[q], outcome[q], steady[q], joined[q], pc[q], failed[q],
                            found[q], records[q]>>
      PROVE  LookInv'
  BY <1>0, <1>a, Zenon DEF LookInv
<1>b. ASSUME NEW p \in Procs, ~steady'[p], apc'[p] # "join" PROVE Look(p)'
  BY <1>b, Zenon DEF Look
<1> USE DEF TypeOK, TypeMemory, TypeRefresh, TypeLookup
<1>1. ASSUME NEW c \in Convs, Remove(c) \/ \E readable \in BOOLEAN : Write(c, readable) PROVE LookInv'
  <2>1. /\ UNCHANGED <<asking, apc, outcome, joined, pc, failed, found, records>>
        /\ steady' = [p \in Procs |-> steady[p] /\ asking[p] # c]
        /\ \A d \in Convs \ {c} : (d \in present \ bad => d \in present' \ bad')
        /\ \A d \in Convs \ {c} : (d \in missed => d \in missed')
    BY <1>1, Zenon DEF Remove, Write
  <2>2. \A p \in Procs : steady'[p] => steady[p] /\ asking[p] # c
    BY <2>1, Zenon
  <2>3. ASSUME NEW p \in Procs PROVE Look(p)'
    <3>1. steady'[p] => /\ steady[p] /\ asking'[p] = asking[p]
                        /\ asking[p] \in present \ bad => asking[p] \in present' \ bad'
                        /\ asking[p] \in missed => asking[p] \in missed'
      <4>1. steady[p] => asking[p] \in Convs
        BY Zenon DEF LookInv, Look, TypeFiles
      <4>2. steady'[p] => steady[p] /\ asking[p] \in Convs \ {c}
        BY <2>2, <4>1, Zenon
      <4>3. asking' = asking
        BY <2>1, Zenon
      <4> QED  BY <2>1, <4>2, <4>3, Zenon
    <3>2. Look(p)
      BY Zenon DEF LookInv
    <3>3. UNCHANGED <<apc, outcome, joined, pc, failed, found, records>>
      BY <2>1, Zenon
    <3> QED  BY <3>1, <3>2, <3>3, Zenon DEF Look, FoundOrMissed
  <2> QED  BY <2>3, Zenon DEF LookInv
<1>2. ASSUME NEW p \in Procs, Start(p) \/ StartUnloaded(p) PROVE LookInv'
  <2>1. /\ UNCHANGED <<present, bad, missed, asking, apc, outcome, steady, joined, pc, failed, found>>
        /\ \/ records' = records
           \/ ~loaded[p] /\ records' = [records EXCEPT ![p] = cache.records]
    BY <1>2, Zenon DEF Start, StartUnloaded, Load
  <2>2. ~loaded[p] => \A c \in Convs : records[p][c] = 0
    BY DEF Empty, Nothing
  <2>3. steady[p] => asking[p] \in Convs
    BY Zenon DEF LookInv, Look, TypeFiles
  <2>4. Look(p)'
    BY <2>1, <2>2, <2>3, Zenon DEF LookInv, Look, FoundOrMissed
  <2> QED  BY <1>a, <2>1, <2>4, Zenon
<1>3. ASSUME NEW p \in Procs, Exit(p) \/ Answer(p) PROVE LookInv'
  <2>1. steady'[p] = FALSE /\ apc'[p] = "idle"
    BY <1>3 DEF Exit, Answer, NoLookup
  <2>2. /\ UNCHANGED <<present, bad, missed>>
        /\ \A q \in Procs \ {p} :
              UNCHANGED <<asking[q], apc[q], outcome[q], steady[q], joined[q], pc[q], failed[q],
                          found[q], records[q]>>
    BY <1>3 DEF Exit, Answer, NoLookup, NoRefresh
  <2> QED  BY <1>a, <1>b, <2>1, <2>2, ZenonT(30)
<1>4. ASSUME NEW p \in Procs, NEW c \in Asked, Ask(p, c) PROVE LookInv'
  <2>1. /\ UNCHANGED <<present, bad, missed, outcome, joined, pc, failed, found>> /\ apc[p] = "idle"
        /\ records' = records \/ records' = [records EXCEPT ![p] = cache.records]
        /\ \/ UNCHANGED <<asking, apc, steady>>
           \/ /\ asking' = [asking EXCEPT ![p] = c] /\ apc' = [apc EXCEPT ![p] = "refresh"]
              /\ steady' = [steady EXCEPT ![p] = c \in present \ bad]
    BY <1>4, Zenon DEF Ask, Load
  <2>2. CASE UNCHANGED <<asking, apc, steady>>
    <3>1. Look(p)'
      BY <2>1, <2>2, Zenon DEF LookInv, Look
    <3> QED  BY <1>a, <2>1, <2>2, <3>1, Zenon
  <2>3. CASE ~UNCHANGED <<asking, apc, steady>>
    <3>1. asking'[p] = c /\ apc'[p] = "refresh" /\ steady'[p] = (c \in present \ bad)
      BY <2>1, <2>3
    <3>2. Look(p)'
      BY <2>1, <3>1, Zenon DEF Look
    <3> QED  BY <1>a, <2>1, <2>3, <3>2, ZenonT(30)
  <2> QED  BY <2>2, <2>3, Zenon
<1>5. ASSUME NEW p \in Procs, Periodic(p) PROVE LookInv'
  <2>1. /\ UNCHANGED <<present, bad, missed, asking, apc, outcome, steady, joined, found, records>>
        /\ pc' = [pc EXCEPT ![p] = "scan"] /\ failed' = [failed EXCEPT ![p] = FALSE]
    BY <1>5, Zenon DEF Periodic, Claim
  <2>2. Look(p)'
    BY <2>1, Zenon DEF LookInv, Look, FoundOrMissed
  <2> QED  BY <1>a, <2>1, <2>2, Zenon
<1>6. ASSUME NEW p \in Procs, Call(p) PROVE LookInv'
  <2>1. /\ UNCHANGED <<present, bad, missed, asking, outcome, steady, found, records>>
        /\ \/ /\ pc' = [pc EXCEPT ![p] = "scan"] /\ failed' = [failed EXCEPT ![p] = FALSE]
              /\ apc' = [apc EXCEPT ![p] = "own"] /\ joined' = joined
           \/ /\ apc' = [apc EXCEPT ![p] = "join"] /\ joined' = [joined EXCEPT ![p] = TRUE]
              /\ UNCHANGED <<pc, failed>>
    BY <1>6, Zenon DEF Call, Claim
  <2>3. /\ steady'[p] => asking'[p] \in present' \ bad'
        /\ \/ apc'[p] = "join" /\ joined'[p]
           \/ apc'[p] = "own" /\ pc'[p] = "scan"
    BY <2>1 DEF LookInv, Look
  <2>2. Look(p)'
    BY <2>3, Zenon DEF Look
  <2> QED  BY <1>a, <2>1, <2>2, ZenonT(30)
<1>7. ASSUME NEW p \in Procs, WaitCancelled(p) PROVE LookInv'
  <2>1. /\ UNCHANGED <<present, bad, missed, asking, steady, joined, pc, failed, found, records>>
        /\ apc[p] = "join" /\ apc' = [apc EXCEPT ![p] = "ended"]
        /\ outcome' = [outcome EXCEPT ![p] = TRUE]
    BY <1>7, Zenon DEF WaitCancelled
  <2>2. Look(p)'
    BY <2>1, Zenon DEF LookInv, Look
  <2> QED  BY <1>a, <2>1, <2>2, Zenon
<1>8. ASSUME NEW p \in Procs, NEW unread \in SUBSET Convs, Scan(p, unread) PROVE LookInv'
  <2>1. /\ UNCHANGED <<present, bad, asking, apc, outcome, steady, joined, failed, records>>
        /\ missed \subseteq missed' /\ pc' = [pc EXCEPT ![p] = "retain"]
        /\ \A q \in Procs \ {p} : found'[q] = found[q]
    BY <1>8, Zenon DEF Scan, Advance
  <2>2. steady[p] => asking[p] \in Convs /\ asking[p] \in present \ bad
    BY Zenon DEF LookInv, Look, TypeFiles
  <2>3. steady[p] => found'[p][asking[p]] # 0 \/ asking[p] \in missed'
    BY <1>8, <2>2, ScanFinds, Zenon
  <2>4. Look(p)'
    BY <2>1, <2>2, <2>3, Zenon DEF LookInv, Look, FoundOrMissed
  <2> QED  BY <1>a, <2>1, <2>4, Zenon
<1>9. ASSUME NEW p \in Procs, Retain(p) \/ Save(p) \/ Truncate(p) \/ Fill(p) PROVE LookInv'
  <2>1. /\ UNCHANGED <<present, bad, missed, asking, apc, outcome, steady, joined, failed, found, records>>
        /\ pc[p] \in {"retain", "save", "cache", "fill"}
        /\ \E to \in {"save", "cache", "fill", "install"} : pc' = [pc EXCEPT ![p] = to]
    BY <1>9, Zenon DEF Retain, Save, Truncate, Fill, Advance, AfterSave
  <2>2. Look(p)'
    BY <2>1, Zenon DEF LookInv, Look, FoundOrMissed
  <2> QED  BY <1>a, <2>1, <2>2, Zenon
<1>10. ASSUME NEW p \in Procs, Install(p) PROVE LookInv'
  <2>1. /\ UNCHANGED <<present, bad, missed, asking, apc, outcome, steady, joined, failed, found>>
        /\ pc[p] = "install" /\ pc' = [pc EXCEPT ![p] = "end"]
        /\ records' = [records EXCEPT ![p] = found[p]]
    BY <1>10, Zenon DEF Install, Advance
  <2>2. Look(p)'
    BY <2>1, Zenon DEF LookInv, Look, FoundOrMissed
  <2> QED  BY <1>a, <2>1, <2>2, Zenon
<1>11. ASSUME NEW p \in Procs, ScanFails(p) \/ SaveFails(p) \/ CacheFails(p) PROVE LookInv'
  <2>1. /\ UNCHANGED <<present, bad, missed, asking, apc, outcome, steady, joined, found, records>>
        /\ pc' = [pc EXCEPT ![p] = "end"] /\ failed' = [failed EXCEPT ![p] = TRUE]
    BY <1>11, Zenon DEF ScanFails, SaveFails, CacheFails, Fails, Advance
  <2>2. Look(p)'
    BY <2>1, Zenon DEF LookInv, Look, FoundOrMissed
  <2> QED  BY <1>a, <2>1, <2>2, Zenon
<1>12. ASSUME NEW p \in Procs, End(p) PROVE LookInv'
  <2>1. /\ UNCHANGED <<present, bad, missed, asking, steady, joined, records>>
        /\ pc[p] = "end" /\ pc' = [pc EXCEPT ![p] = "idle"] /\ failed' = [failed EXCEPT ![p] = FALSE]
        /\ found' = [found EXCEPT ![p] = Nothing]
        /\ \/ /\ apc[p] \in {"own", "join"} /\ apc' = [apc EXCEPT ![p] = "ended"]
              /\ outcome' = [outcome EXCEPT ![p] = failed[p]]
           \/ apc[p] \notin {"own", "join"} /\ UNCHANGED <<apc, outcome>>
    BY <1>12, Zenon DEF End, Advance, NoRefresh
  <2>3. /\ pc'[p] = "idle"
        /\ \/ apc'[p] = apc[p] /\ outcome'[p] = outcome[p] /\ apc[p] \notin {"own", "join"}
           \/ apc[p] \in {"own", "join"} /\ apc'[p] = "ended" /\ outcome'[p] = failed[p]
    BY <2>1, Zenon
  <2>4. Look(p)
    BY Zenon DEF LookInv
  <2>2. Look(p)'
    BY <2>1, <2>3, <2>4, Zenon DEF Look, FoundOrMissed
  <2> QED  BY <1>a, <2>1, <2>2, Zenon
<1>13. CASE UNCHANGED vars
  BY <1>0, <1>13, Zenon DEF vars, LookInv
<1> HIDE DEF transcripts, files, memory, refresh, lookup, lookupHistory, fileHistory
<1> QED  BY <1>1, <1>2, <1>3, <1>4, <1>5, <1>6, <1>7, <1>8, <1>9, <1>10, <1>11, <1>12, <1>13, Zenon
         DEF Next, RefreshStep, LookupStep

\* A lookup that ran its own refresh does not call a readable, unchanged transcript absent,
\* unless the transcript's first read failed, however many processes overlap (Resolve,
\* refreshWithReason, scanCandidate).
THEOREM FindsWhatIsThere == Spec => []AbsentIsAbsent
<1>1. Init => StampInv /\ LookInv
  <2> SUFFICES ASSUME Init PROVE StampInv /\ LookInv  BY Zenon
  <2>1. StampInv
    BY IndexAssumption DEF Init, StampInv, Sound, Missing, Nothing
  <2>2. LookInv
    BY Zenon DEF Init, LookInv, Look
  <2> QED  BY <2>1, <2>2, Zenon
<1>2. IInv /\ StampInv /\ LookInv /\ [Next]_vars => (StampInv /\ LookInv)'
  BY StampStep, LookStep, Zenon DEF IInv
<1>3. IInv /\ LookInv => AbsentIsAbsent
  <2> SUFFICES ASSUME IInv, LookInv, NEW p \in Procs, apc[p] = "ended", Verdict(p) = "absent",
                      steady[p], ~joined[p]
               PROVE  asking[p] \in missed
    BY Zenon DEF AbsentIsAbsent
  <2>1. asking[p] \in Convs
    BY Zenon DEF IInv, TypeOK, TypeFiles, LookInv, Look
  <2>2. asking[p] \notin Served(p) /\ ~outcome[p]
    BY Zenon DEF Verdict
  <2> QED  BY <2>1, <2>2, Zenon DEF LookInv, Look, FoundOrMissed, Served, Ids
<1> QED  BY <1>1, <1>2, <1>3, Invariance, PTL DEF Spec
=============================================================================
