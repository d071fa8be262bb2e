------------------------- MODULE SemanticSyncProofs -------------------------
(***************************************************************************)
(* Proofs about SemanticSync, for every set of conversations, every bound  *)
(* and every batch size: NothingHidden and PendingIsHonest.                *)
(*                                                                         *)
(* The inductive invariant says of every stamp the worker or the engine    *)
(* remembers what the store holds for it (Remembered), of a running pass   *)
(* what its listing, its manifest and its documents have to do with each   *)
(* other (InPass), and how far an upsert has got (InUpsert).               *)
(***************************************************************************)
EXTENDS SemanticSync, FiniteSetTheorems, TLAPS

\* Stamps are taken in order, and what a pass knows of them is not from the future.
Transcripts ==
    \A c \in Convs :
        /\ stamp[c] <= writes + 1
        /\ \A t \in 1..stamp[c] : held[c][t] \in Contents
        /\ index[c] # None => index[c] <= stamp[c]
        /\ listed[c] # None => listed[c] <= stamp[c]
        /\ manifest[c] # None => manifest[c] <= stamp[c] /\ listed[c] # None

\* A memo is a delivery that reached the store, a pin or a checkpoint stands for
\* stored documents, an empty delivery for a blank transcript.
Remembered ==
    \A c \in Convs :
        /\ memo[c] # None => memo[c].hash \in rows[c] /\ memo[c].fp <= stamp[c]
        /\ pin[c] # None => /\ Stored(c, pin[c].observed)
                            /\ pin[c].advertise <= stamp[c]
                            /\ pin[c].advertise # pin[c].observed
        /\ recorded[c] # None => Stored(c, recorded[c])
        /\ disk[c] # None => Stored(c, disk[c])
        /\ empty[c] # None => WasBlank(c, empty[c])
        /\ pin[c] # None /\ empty[c] # None => empty[c] = pin[c].observed

\* What is loaded in a pass was asked for, and is loaded once.
Collecting ==
    \A c \in Convs :
        /\ c \in needed => manifest[c] # None
        /\ docs[c] # None => c \in needed
        /\ c \in queue => pc = "collect" /\ empty[c] = None /\ failed[c].failures < Threshold
        /\ pc = "collect" /\ pin[c] # None => pin[c].observed = listed[c]

\* The documents of c are what its transcript held at a stamp that is no older than
\* the one that was listed and the one that is stated.
Fresh(c) ==
    \E t \in 1..stamp[c] : t >= listed[c] /\ t >= manifest[c] /\ held[c][t] = docs[c]
DocsFresh == \A c \in Convs : docs[c] # None => Fresh(c)

\* What a pass was not asked for is stored, or was blank, or is suppressed.
Settled ==
    \A c \in Convs : pc \notin {"idle", "failed"} /\ listed[c] # None /\ c \notin needed =>
        IF manifest[c] = None
        THEN c \in suppressed \/ WasBlank(c, listed[c])
        ELSE Stored(c, listed[c])

\* How far an upsert has got.
InUpsert ==
    \A c \in Convs :
        /\ c \in todo => docs[c] # None /\ pc \in {"write", "record"}
        /\ pc \in {"write", "record"} /\ docs[c] # None /\ c \notin todo => docs[c] \in rows[c]
        /\ pc = "record" /\ Foremost(c) => docs[c] \in rows[c]
        /\ c \in sent => docs[c] # None /\ docs[c] \in rows[c] /\ pc = "logged"

IInv == TypeOK /\ Transcripts /\ Remembered /\ Collecting /\ DocsFresh /\ Settled /\ InUpsert

-----------------------------------------------------------------------------
\* Which steps touch the transcripts, the pass, the worker's memory and the store.
LEMMA Frame ==
    ASSUME [Next]_vars
    PROVE  /\ \/ UNCHANGED <<stamp, held, present, cold, writes, index>>
              \/ Refresh
              \/ \E c \in Convs : Cool(c) \/ Remove(c)
              \/ \E c \in Convs, text \in Contents : Write(c, text)
           /\ faults' = faults \/ Fault
           /\ UNCHANGED <<pc, passVars>> \/ Pass \/ Restart
           /\ \/ UNCHANGED memoVars
              \/ BeginPass \/ Restart
              \/ \E c \in Convs : LoadFails(c) \/ Load(c) \/ Record(c)
           /\ UNCHANGED engineVars \/ Restart \/ \E c \in Convs : WriteRows(c) \/ Record(c)
<1> USE DEF envVars, passVars, memoVars, engineVars
<1>1. CASE BeginPass \/ EndCollect \/ UpsertFails \/ FinishPass \/ Refresh \/ Restart
    BY <1>1, Zenon DEF BeginPass, EndCollect, UpsertFails, FinishPass, Refresh, Restart, Pass
<1>2. CASE \E c \in Convs : Defer(c) \/ Full(c) \/ LoadFails(c) \/ Load(c) \/ WriteRows(c) \/ Record(c)
    BY <1>2, ZenonT(40) DEF Defer, Full, LoadFails, Load, WriteRows, Record, Pass
<1>3. CASE \E c \in Convs : Cool(c) \/ Remove(c)
    BY <1>3, Zenon DEF Cool, Remove
<1>4. CASE \E c \in Convs, text \in Contents : Write(c, text)
    BY <1>4, Zenon DEF Write
<1>5. CASE UNCHANGED vars
    BY <1>5, Zenon DEF vars
<1>6. QED
    BY <1>1, <1>2, <1>3, <1>4, <1>5, Zenon DEF Next, Pass

\* Writers, the clock and the index keep the types of the transcripts.
LEMMA TypeEnvStep ==
    TypeEnv /\ Transcripts /\ [Next]_vars => TypeEnv'
<1> SUFFICES ASSUME TypeEnv, Transcripts, [Next]_vars
             PROVE  TypeEnv'
    BY Zenon
<1> USE SemanticAssumption DEF TypeEnv, Stamps
<1>1. faults' \in 0..MaxFaults
  <2>1. faults' = faults \/ Fault
    BY Frame, Zenon
  <2>2. QED
    BY <2>1 DEF Fault
<1>2. ASSUME NEW c \in Convs, NEW text \in Contents, Write(c, text) PROVE TypeEnv'
  <2>1. stamp[c] <= writes + 1
    BY Zenon DEF Transcripts
  <2>2. stamp[c] + 1 \in 1..MaxWrites + 1 /\ writes' \in 0..MaxWrites
    BY <1>2, <2>1 DEF Write
  <2>3. stamp' \in [Convs -> 1..MaxWrites + 1]
    BY <1>2, <2>2, Zenon DEF Write
  <2>4. held' \in [Convs -> [1..MaxWrites + 1 -> Contents \cup {None}]]
    BY <1>2, <2>2, Zenon DEF Write
  <2>5. present' \subseteq Convs /\ UNCHANGED <<cold, index>>
    BY <1>2, Zenon DEF Write
  <2>6. QED
    BY <1>1, <2>2, <2>3, <2>4, <2>5, Zenon DEF Contents
<1>3. ASSUME NEW c \in Convs, Cool(c) \/ Remove(c) PROVE TypeEnv'
  <2>1. cold' \in [Convs -> Stamps] /\ writes' \in 0..MaxWrites /\ present' \subseteq Convs
    <3>1. CASE Cool(c)
      BY <3>1 DEF Cool
    <3>2. CASE Remove(c)
      BY <3>2 DEF Remove
    <3>3. QED
      BY <1>3, <3>1, <3>2, Zenon
  <2>2. UNCHANGED <<stamp, held, index>>
    BY <1>3, Zenon DEF Cool, Remove
  <2>3. QED
    BY <1>1, <2>1, <2>2, Zenon DEF Contents
<1>4. ASSUME Refresh PROVE TypeEnv'
  <2>1. Scanned \in [Convs -> Stamps \cup {None}]
    BY DEF Scanned
  <2>2. index' \in [Convs -> Stamps \cup {None}]
    BY <1>4, <2>1 DEF Refresh
  <2>3. UNCHANGED <<stamp, held, present, cold, writes>>
    BY <1>4, Zenon DEF Refresh, envVars
  <2>4. QED
    BY <1>1, <2>2, <2>3, Zenon DEF Contents
<1>5. CASE UNCHANGED <<stamp, held, present, cold, writes, index>>
    BY <1>1, <1>5, Zenon DEF Contents
<1>6. QED
    BY <1>2, <1>3, <1>4, <1>5, Frame, Zenon

\* The steps of a pass keep the types of its locals.
LEMMA TypePassStep ==
    TypeOK /\ Transcripts /\ Collecting /\ [Next]_vars => TypePass'
<1> SUFFICES ASSUME TypeEnv, TypePass, TypeMemo, Transcripts, Collecting, [Next]_vars
             PROVE  TypePass'
    BY Zenon DEF TypeOK
<1> USE SemanticAssumption DEF TypePass, Stamps
<1>1. CASE BeginPass
  <2>1. manifest' \in [Convs -> Stamps \cup {None}]
    BY <1>1, Zenon DEF BeginPass, Manifest, Advertised, PinHolds, TypeEnv, TypeMemo
  <2>2. suppressed' \subseteq Convs /\ needed' \subseteq Convs /\ queue' \subseteq needed'
    BY <1>1, Zenon DEF BeginPass, Suppressed, Needed
  <2>3. QED
    BY <1>1, <2>1, <2>2, Zenon DEF BeginPass, Nothing, TypeEnv, TypeMemo
<1>2. ASSUME NEW c \in Convs, Defer(c) \/ Full(c) \/ LoadFails(c) PROVE TypePass'
    BY <1>2, Zenon DEF Defer, Full, LoadFails
<1>3. ASSUME NEW c \in Convs, Load(c) PROVE TypePass'
  <2>1. Now(c) \in Texts \cup {Blank}
    BY <1>3 DEF Load, Admitted, NextInLine, Readable, Now, Contents, Transcripts, TypeEnv
  <2>2. docs' \in [Convs -> Texts \cup {None}] /\ bytes' \in Nat
    BY <1>3, <2>1 DEF Load
  <2>3. queue' \subseteq needed
    <3>1. queue' \subseteq queue
      BY <1>3 DEF Load
    <3>2. QED
      BY <3>1, Zenon
  <2>4. QED
    BY <1>3, <2>2, <2>3, Zenon DEF Load
<1>4. CASE EndCollect
    BY <1>4, Zenon DEF EndCollect, Collecting
<1>5. ASSUME NEW c \in Convs, WriteRows(c) PROVE TypePass'
    BY <1>5, Zenon DEF WriteRows, passVars
<1>6. CASE UpsertFails
    BY <1>6, Zenon DEF UpsertFails
<1>7. ASSUME NEW c \in Convs, Record(c) PROVE TypePass'
    BY <1>7, ZenonT(40) DEF Record, Accept, Collecting
<1>8. CASE FinishPass \/ Restart
    BY <1>8 DEF FinishPass, Restart, FreshWorker, Nothing
<1>9. CASE UNCHANGED <<pc, passVars>>
    BY <1>9, Zenon DEF passVars
<1>10. QED
    BY <1>1, <1>2, <1>3, <1>4, <1>5, <1>6, <1>7, <1>8, <1>9, Frame, Zenon DEF Pass

\* Loads and deliveries keep the types of what the worker remembers.
LEMMA TypeMemoStep ==
    TypeOK /\ Transcripts /\ Collecting /\ [Next]_vars => TypeMemo'
<1> SUFFICES ASSUME TypeEnv, TypePass, TypeMemo, Transcripts, Collecting, [Next]_vars
             PROVE  TypeMemo'
    BY Zenon DEF TypeOK
<1> USE SemanticAssumption DEF TypeMemo, Stamps
<1>1. CASE BeginPass
    BY <1>1 DEF BeginPass, Prune, NoFailure
<1>2. ASSUME NEW c \in Convs, LoadFails(c) PROVE TypeMemo'
  <2>1. failed[c].failures < Threshold
    BY <1>2, Zenon DEF LoadFails, Admitted, NextInLine, Collecting
  <2>2. failed' \in [Convs -> [fp : Stamps \cup {None}, failures : 0..Threshold]]
    BY <1>2, <2>1 DEF LoadFails, FailureAt, TypePass
  <2>3. QED
    BY <1>2, <2>2, Zenon DEF LoadFails
<1>3. ASSUME NEW c \in Convs, Load(c) PROVE TypeMemo'
  <2>1. listed[c] \in Stamps
    BY <1>3 DEF Load, Admitted, NextInLine, Collecting, Transcripts, TypePass
  <2>2. failed' \in [Convs -> [fp : Stamps \cup {None}, failures : 0..Threshold]]
    BY <1>3 DEF Load, NoFailure
  <2>3. pin' \in [Convs -> [observed : Stamps, advertise : Stamps] \cup {None}]
    BY <1>3, <2>1 DEF Load, Unchanged
  <2>4. QED
    BY <1>3, <2>1, <2>2, <2>3, Zenon DEF Load
<1>4. ASSUME NEW c \in Convs, Record(c) PROVE TypeMemo'
  <2>1. \A d \in Convs : docs[d] # None => listed[d] \in Stamps /\ docs[d] \in Texts
    BY Zenon DEF Collecting, Transcripts, TypePass
  <2>2. QED
    BY <1>4, <2>1 DEF Record, Accept
<1>5. CASE Restart
    BY <1>5 DEF Restart, FreshWorker, Nothing, NoFailure
<1>6. CASE UNCHANGED memoVars
    BY <1>6, Zenon DEF memoVars
<1>7. QED
    BY <1>1, <1>2, <1>3, <1>4, <1>5, <1>6, Frame, Zenon

\* Upserts and restarts keep the types of the store.
LEMMA TypeEngineStep ==
    TypeOK /\ Collecting /\ InUpsert /\ [Next]_vars => TypeEngine'
<1> SUFFICES ASSUME TypePass, TypeEngine, Collecting, InUpsert, [Next]_vars
             PROVE  TypeEngine'
    BY Zenon DEF TypeOK
<1> USE SemanticAssumption DEF TypeEngine, Stamps
<1>1. ASSUME NEW c \in Convs, WriteRows(c) PROVE TypeEngine'
  <2>1. docs[c] \in Texts
    BY <1>1, Zenon DEF WriteRows, Foremost, InUpsert, TypePass
  <2>2. QED
    BY <1>1, <2>1, Zenon DEF WriteRows
<1>2. ASSUME NEW c \in Convs, Record(c) PROVE TypeEngine'
    BY <1>2, Zenon DEF Record, TypePass
<1>3. CASE Restart
    BY <1>3, Zenon DEF Restart
<1>4. CASE UNCHANGED engineVars
    BY <1>4, Zenon DEF engineVars
<1>5. QED
    BY <1>1, <1>2, <1>3, <1>4, Frame, Zenon

\* Every step keeps the stamps in the order in which they were taken.
LEMMA TranscriptsStep ==
    TypeOK /\ Transcripts /\ Remembered /\ [Next]_vars => Transcripts'
<1> SUFFICES ASSUME TypeEnv, TypePass, TypeMemo, Transcripts, Remembered, [Next]_vars,
                    NEW c \in Convs
             PROVE  /\ stamp'[c] <= writes' + 1
                    /\ \A t \in 1..stamp'[c] : held'[c][t] \in Contents
                    /\ index'[c] # None => index'[c] <= stamp'[c]
                    /\ listed'[c] # None => listed'[c] <= stamp'[c]
                    /\ manifest'[c] # None => manifest'[c] <= stamp'[c] /\ listed'[c] # None
    BY Zenon DEF TypeOK, Transcripts, Contents
<1> USE SemanticAssumption DEF Stamps
<1>0. /\ stamp[c] \in 1..MaxWrites + 1 /\ stamp[c] <= writes + 1 /\ writes \in Nat
      /\ \A t \in 1..stamp[c] : held[c][t] \in Contents
      /\ index[c] # None => index[c] \in Nat /\ index[c] <= stamp[c]
      /\ listed[c] # None => listed[c] \in Nat /\ listed[c] <= stamp[c]
      /\ manifest[c] # None => manifest[c] \in Nat /\ manifest[c] <= stamp[c] /\ listed[c] # None
    BY DEF TypeEnv, TypePass, Transcripts
<1>1. ASSUME NEW d \in Convs, NEW text \in Contents, Write(d, text)
      PROVE  /\ stamp'[c] >= stamp[c] /\ stamp'[c] <= writes' + 1 /\ stamp'[c] \in Nat
             /\ \A t \in 1..stamp'[c] : held'[c][t] \in Contents
             /\ UNCHANGED <<index, listed, manifest>>
  <2>1. CASE c = d
    <3>1. stamp'[c] = stamp[c] + 1 /\ writes' = writes + 1 /\ stamp[c] + 1 <= MaxWrites + 1
      BY <1>0, <1>1, <2>1 DEF Write, TypeEnv
    <3>2. held'[c] = [held[c] EXCEPT ![stamp[c] + 1] = text] /\ held[c] \in [1..MaxWrites + 1 -> Contents \cup {None}]
      BY <1>1, <2>1, Zenon DEF Write, TypeEnv
    <3>3. \A t \in 1..stamp[c] + 1 : held'[c][t] \in Contents
      BY <1>0, <3>1, <3>2
    <3>4. QED
      BY <1>0, <1>1, <3>1, <3>3 DEF Write, passVars
  <2>2. CASE c # d
    BY <1>0, <1>1, <2>2 DEF Write, TypeEnv, passVars
  <2>3. QED
    BY <2>1, <2>2, Zenon
<1>2. ASSUME Refresh
      PROVE  /\ index'[c] # None => index'[c] \in Nat /\ index'[c] <= stamp[c]
             /\ UNCHANGED <<stamp, held, writes, listed, manifest>>
  <2>1. UNCHANGED <<stamp, held, writes, listed, manifest>>
    BY <1>2, Zenon DEF Refresh, envVars, passVars
  <2>2. Scanned[c] # None => Scanned[c] = stamp[c]
    BY Zenon DEF Scanned
  <2>3. index'[c] \in {0, Scanned[c]}
    BY <1>2, Zenon DEF Refresh, Scanned
  <2>4. QED
    BY <1>0, <2>1, <2>2, <2>3, SMTT(20)
<1>3. ASSUME NEW d \in Convs, Cool(d) \/ Remove(d)
      PROVE  UNCHANGED <<stamp, held, index, listed, manifest>> /\ writes' \in Nat /\ writes' >= writes
    BY <1>0, <1>3 DEF Cool, Remove, passVars
<1>4. ASSUME BeginPass
      PROVE  /\ manifest'[c] # None => manifest'[c] \in Nat /\ manifest'[c] <= stamp[c] /\ index[c] # None
             /\ listed' = index
             /\ UNCHANGED <<stamp, held, writes, index>>
  <2>1. pin[c] # None => pin[c].advertise \in Nat /\ pin[c].advertise <= stamp[c]
    BY DEF Remembered, TypeMemo
  <2>2. QED
    BY <1>0, <1>4, <2>1, Zenon DEF BeginPass, Manifest, Advertised, PinHolds, envVars
<1>5. ASSUME Pass, ~BeginPass
      PROVE  /\ UNCHANGED <<listed, manifest>> \/ (listed' = Nothing /\ manifest' = Nothing)
             /\ UNCHANGED <<stamp, held, writes, index>>
    BY <1>5, Zenon DEF Pass, Defer, Full, LoadFails, Load, WriteRows, Record, EndCollect, UpsertFails,
                FinishPass, envVars, passVars
<1>6. ASSUME Restart
      PROVE  /\ listed' = Nothing /\ manifest' = Nothing
             /\ UNCHANGED <<stamp, held, writes, index>>
    BY <1>6, Zenon DEF Restart, FreshWorker, envVars
<1>7. CASE UNCHANGED vars
    BY <1>0, <1>7, Zenon DEF vars, envVars, passVars
<1>8. QED
    BY <1>0, <1>1, <1>2, <1>3, <1>4, <1>5, <1>6, <1>7 DEF Next, Nothing

-----------------------------------------------------------------------------
\* Stamps only grow, no transcript's past changes and no row is ever taken back.
LEMMA Growth ==
    ASSUME TypeOK, Transcripts, [Next]_vars, NEW c \in Convs
    PROVE  /\ stamp[c] \in Nat /\ stamp'[c] \in Nat /\ stamp[c] <= stamp'[c]
           /\ \A t \in 1..stamp[c] : held'[c][t] = held[c][t]
           /\ rows[c] \subseteq rows'[c]
<1>0. TypeEnv /\ TypeEngine /\ stamp[c] \in Nat
    BY SemanticAssumption DEF TypeOK, TypeEnv
<1>1. ASSUME NEW d \in Convs, NEW text \in Contents, Write(d, text)
      PROVE  /\ stamp'[c] \in Nat /\ stamp[c] <= stamp'[c]
             /\ \A t \in 1..stamp[c] : held'[c][t] = held[c][t]
    BY <1>0, <1>1 DEF Write, TypeEnv
<1>2. UNCHANGED <<stamp, held>> \/ \E d \in Convs, text \in Contents : Write(d, text)
    BY Frame, Zenon DEF Refresh, Cool, Remove, envVars
<1>3. rows' = rows \/ \E d \in Convs : WriteRows(d)
    BY Frame, Zenon DEF Record, Restart, engineVars
<1>4. ASSUME NEW d \in Convs, WriteRows(d) PROVE rows[c] \subseteq rows'[c]
    BY <1>0, <1>4, Zenon DEF TypeEngine, WriteRows
<1>5. QED
    BY <1>0, <1>1, <1>2, <1>3, <1>4

\* So what is stored stays stored, and what was blank stays blank.
LEMMA StoredStays ==
    ASSUME TypeOK, Transcripts, [Next]_vars, NEW c \in Convs, NEW s \in Stamps
    PROVE  (Stored(c, s) => Stored(c, s)') /\ (WasBlank(c, s) => WasBlank(c, s)')
<1>1. ASSUME NEW t \in 1..stamp[c] PROVE t \in 1..stamp'[c] /\ held'[c][t] = held[c][t]
    BY Growth, SMTT(60)
<1>2. rows[c] \subseteq rows'[c]
    BY Growth, SMTT(60)
<1>3. QED
    BY <1>1, <1>2, Zenon DEF Stored, WasBlank

\* A conversation that was asked for has a stamp that was listed and one that was
\* stated, both taken before now.
LEMMA NeededFacts ==
    ASSUME TypeOK, Transcripts, Collecting, NEW c \in Convs, c \in needed
    PROVE  /\ stamp[c] \in Nat /\ stamp[c] \in 1..stamp[c]
           /\ listed[c] \in Nat /\ listed[c] <= stamp[c]
           /\ manifest[c] \in Nat /\ manifest[c] <= stamp[c]
<1>1. manifest[c] # None /\ listed[c] # None
    BY Zenon DEF Collecting, Transcripts
<1>2. stamp[c] \in 1..MaxWrites + 1
    BY Zenon DEF TypeOK, TypeEnv
<1>3. listed[c] \in Stamps /\ manifest[c] \in Stamps
    BY <1>1, Zenon DEF TypeOK, TypePass
<1>4. listed[c] <= stamp[c] /\ manifest[c] <= stamp[c]
    BY <1>1, Zenon DEF Transcripts
<1>5. QED
    BY <1>2, <1>3, <1>4, SemanticAssumption DEF Stamps

\* What the worker and the engine remember stays true: a load that pins found the
\* documents of the memo, a record follows the rows it stands for, and a memo is
\* made of documents that were accepted (collectNeededDocuments,
\* UpsertConversationDocuments, sendDocuments).
LEMMA RememberedStep ==
    TypeOK /\ Transcripts /\ Remembered /\ Collecting /\ DocsFresh /\ InUpsert /\ [Next]_vars
        => Remembered'
<1> DEFINE Kept(d, s) == \E t \in 1..stamp[d] : t >= s /\ held[d][t] \in rows[d]
           KeptNext(d, s) == \E t \in 1..stamp'[d] : t >= s /\ held'[d][t] \in rows'[d]
           Void(d, s) == \E t \in 1..stamp[d] : t >= s /\ held[d][t] = Blank
           VoidNext(d, s) == \E t \in 1..stamp'[d] : t >= s /\ held'[d][t] = Blank
           Memo(d) == memo'[d] # None => memo'[d].hash \in rows'[d] /\ memo'[d].fp <= stamp'[d]
           Pin(d) == pin'[d] # None => /\ KeptNext(d, pin'[d].observed)
                                       /\ pin'[d].advertise <= stamp'[d]
                                       /\ pin'[d].advertise # pin'[d].observed
           Checkpoint(d) == /\ recorded'[d] # None => KeptNext(d, recorded'[d])
                            /\ disk'[d] # None => KeptNext(d, disk'[d])
           Empty(d) == /\ empty'[d] # None => VoidNext(d, empty'[d])
                       /\ pin'[d] # None /\ empty'[d] # None => empty'[d] = pin'[d].observed
<1> SUFFICES ASSUME TypeOK, Transcripts, Remembered, Collecting, DocsFresh, InUpsert, [Next]_vars,
                    NEW c \in Convs
             PROVE  Memo(c) /\ Pin(c) /\ Checkpoint(c) /\ Empty(c)
    BY Zenon DEF Remembered, Stored, WasBlank
<1>1. /\ memo[c] # None => memo[c].hash \in rows[c] /\ memo[c].fp <= stamp[c]
      /\ pin[c] # None => /\ Kept(c, pin[c].observed)
                          /\ pin[c].advertise <= stamp[c]
                          /\ pin[c].advertise # pin[c].observed
      /\ recorded[c] # None => Kept(c, recorded[c])
      /\ disk[c] # None => Kept(c, disk[c])
      /\ empty[c] # None => Void(c, empty[c])
      /\ pin[c] # None /\ empty[c] # None => empty[c] = pin[c].observed
    BY Zenon DEF Remembered, Stored, WasBlank
<1>2. \A s \in Stamps : (Kept(c, s) => KeptNext(c, s)) /\ (Void(c, s) => VoidNext(c, s))
    BY StoredStays, Zenon DEF Stored, WasBlank
<1>3. /\ stamp[c] \in Nat /\ stamp'[c] \in Nat /\ stamp[c] <= stamp'[c] /\ rows[c] \subseteq rows'[c]
      /\ \A t \in 1..stamp[c] : held'[c][t] = held[c][t]
    BY Growth, SMTT(60)
<1>4. TypeEnv /\ TypePass /\ TypeMemo /\ TypeEngine
    BY Zenon DEF TypeOK
<1>5. memo[c] # None => memo[c].fp \in Nat
    BY <1>4 DEF TypeMemo, Stamps
<1>6. pin[c] # None => pin[c].observed \in Stamps /\ pin[c].advertise \in Nat
    BY <1>4 DEF TypeMemo, Stamps
<1>7. Memo(c)
  <2>1. CASE memo'[c] \in {memo[c], None}
    BY <1>1, <1>3, <1>5, <2>1
  <2>2. ASSUME NEW d \in Convs, Record(d), memo'[c] \notin {memo[c], None} PROVE Memo(c)
    <3>1. todo \ {d} = {} /\ docs[c] # None /\ memo'[c] = [fp |-> listed[c], hash |-> docs[c]]
      BY <2>2, Zenon DEF Record, Accept
    <3>2. docs[c] \in rows[c]
      <4>1. CASE c \in todo
        BY <2>2, <3>1, <4>1, Zenon DEF Record, InUpsert
      <4>2. CASE c \notin todo
        BY <2>2, <3>1, <4>2, Zenon DEF Record, InUpsert
      <4>3. QED
        BY <4>1, <4>2, Zenon
    <3>3. listed[c] \in Nat /\ listed[c] <= stamp[c]
      BY <3>1, NeededFacts, Zenon DEF Collecting
    <3>4. memo'[c].hash = docs[c] /\ memo'[c].fp = listed[c]
      BY <3>1
    <3>5. listed[c] <= stamp'[c]
      BY <1>3, <3>3
    <3>6. docs[c] \in rows'[c]
      BY <1>3, <3>2, Zenon
    <3>7. QED
      BY <3>4, <3>5, <3>6, Zenon
  <2>3. memo'[c] \in {memo[c], None} \/ \E d \in Convs : Record(d)
    BY Frame, Zenon DEF memoVars, BeginPass, Prune, Restart, FreshWorker, Nothing, LoadFails, Load
  <2>4. QED
    BY <2>1, <2>2, <2>3, Zenon
<1>8. ASSUME NEW d \in Convs, Load(d), pin'[c] \notin {pin[c], None}
      PROVE  Pin(c) /\ empty'[c] = None
  <2>1. /\ c = d /\ c \in queue /\ c \in needed /\ pc = "collect"
        /\ memo[c] # None /\ memo[c].hash = held[c][stamp[c]] /\ memo[c].fp # listed[c]
        /\ pin' = [pin EXCEPT ![c] = [observed |-> listed[c], advertise |-> memo[c].fp]]
        /\ UNCHANGED <<stamp, held, rows, empty>>
    BY <1>4, <1>8, Zenon DEF Load, Admitted, NextInLine, Unchanged, Now, TypePass, TypeMemo,
                     envVars, engineVars
  <2>2. pin'[c].observed = listed[c] /\ pin'[c].advertise = memo[c].fp
    BY <1>4, <2>1, Zenon DEF TypeMemo
  <2>3. listed[c] \in Nat /\ listed[c] <= stamp[c] /\ stamp[c] \in 1..stamp[c]
    BY <2>1, NeededFacts, Zenon
  <2>4. held[c][stamp[c]] \in rows[c]
    BY <1>1, <2>1, Zenon
  <2>5. KeptNext(c, listed[c])
    BY <1>3, <2>1, <2>3, <2>4, Zenon
  <2>6. empty'[c] = None
    BY <2>1, Zenon DEF Collecting
  <2>7. QED
    BY <1>1, <2>1, <2>2, <2>5, <2>6, Zenon
<1>9. pin'[c] \in {pin[c], None} \/ \E d \in Convs : Load(d)
    BY Frame, Zenon DEF memoVars, BeginPass, Prune, Restart, FreshWorker, Nothing, LoadFails, Record
<1>10. Pin(c)
  <2> HIDE DEF KeptNext, Kept
  <2>1. CASE pin'[c] = pin[c] /\ pin[c] # None
    <3>1. KeptNext(c, pin[c].observed)
      BY <1>1, <1>2, <1>6, <2>1, Zenon
    <3>2. pin[c].advertise <= stamp'[c]
      <4>1. pin[c].advertise \in Nat /\ pin[c].advertise <= stamp[c]
        BY <1>1, <1>6, <2>1, Zenon
      <4>2. QED
        BY <1>3, <4>1
    <3>3. QED
      BY <1>1, <2>1, <3>1, <3>2, Zenon
  <2>2. QED
    BY <1>8, <1>9, <2>1, Zenon
<1>11. Checkpoint(c)
  <2>1. ASSUME NEW d \in Convs, Record(d), manifest[c] # None, c = d PROVE KeptNext(c, manifest[c])
    <3>1. docs[c] # None /\ docs[c] \in rows[c]
      BY <2>1, Zenon DEF Record, Foremost, InUpsert
    <3>2. PICK t \in 1..stamp[c] : t >= manifest[c] /\ held[c][t] = docs[c]
      BY <3>1, Zenon DEF DocsFresh, Fresh
    <3>3. QED
      BY <1>3, <3>1, <3>2
  <2>2. /\ recorded'[c] \in {recorded[c], disk[c], None} \/ \E d \in Convs : Record(d) /\ c = d /\ recorded'[c] = manifest[c]
        /\ disk'[c] = disk[c] \/ \E d \in Convs : Record(d) /\ c = d /\ disk'[c] = manifest[c]
    <3>1. UNCHANGED <<recorded, disk>> \/ Restart \/ \E d \in Convs : Record(d)
      BY Frame, Zenon DEF engineVars, WriteRows
    <3>2. CASE Restart
      BY <1>4, <3>2, Zenon DEF Restart, TypeEngine
    <3>3. ASSUME NEW d \in Convs, Record(d)
          PROVE  /\ recorded'[c] = recorded[c] \/ (c = d /\ recorded'[c] = manifest[c])
                 /\ disk'[c] = disk[c] \/ (c = d /\ disk'[c] = manifest[c])
      BY <1>4, <3>3, Zenon DEF Record, TypeEngine
    <3>4. QED
      BY <3>1, <3>2, <3>3, Zenon
  <2>3. recorded[c] \in Stamps \cup {None} /\ disk[c] \in Stamps \cup {None}
    BY <1>4, Zenon DEF TypeEngine
  <2> HIDE DEF Kept, KeptNext
  <2>4. QED
    BY <1>1, <1>2, <2>1, <2>2, <2>3, Zenon
<1>12. Empty(c)
  <2>1. empty[c] \in Stamps \cup {None}
    BY <1>4, Zenon DEF TypeMemo
  <2>2. ASSUME NEW d \in Convs, Load(d), empty'[c] \notin {empty[c], None} PROVE Empty(c)
    <3>1. /\ c = d /\ c \in needed /\ pc = "collect" /\ held[c][stamp[c]] = Blank
          /\ empty'[c] = listed[c]
          /\ UNCHANGED <<stamp, held, pin>>
      BY <1>4, <2>2, ZenonT(40) DEF Load, Admitted, NextInLine, Now, TypePass, TypeMemo, envVars
    <3>2. listed[c] \in Nat /\ listed[c] <= stamp[c] /\ stamp[c] \in 1..stamp[c]
      BY <3>1, NeededFacts, Zenon
    <3>3. VoidNext(c, listed[c])
      BY <1>3, <3>1, <3>2, Zenon
    <3>4. pin[c] # None => pin[c].observed = listed[c]
      BY <3>1, Zenon DEF Collecting
    <3>5. QED
      BY <3>1, <3>3, <3>4, Zenon
  <2>3. empty'[c] \in {empty[c], None} \/ \E d \in Convs : Load(d)
    BY Frame, Zenon DEF memoVars, BeginPass, Prune, Restart, FreshWorker, Nothing, LoadFails, Record
  <2>4. ASSUME empty'[c] \in {empty[c], None}, pin'[c] \in {pin[c], None} PROVE Empty(c)
    BY <1>1, <1>2, <2>1, <2>4, Zenon
  <2>5. QED
    BY <1>8, <1>9, <2>2, <2>3, <2>4, Zenon
<1>13. QED
    BY <1>7, <1>10, <1>11, <1>12, Zenon

\* What is in the queue was asked for and is looked at once.
LEMMA CollectingStep ==
    TypeOK /\ Transcripts /\ Collecting /\ [Next]_vars => Collecting'
<1> SUFFICES ASSUME TypePass, TypeMemo, TypeEnv, Transcripts, Collecting, [Next]_vars, NEW c \in Convs
             PROVE  /\ c \in needed' => manifest'[c] # None
                    /\ docs'[c] # None => c \in needed'
                    /\ c \in queue' => pc' = "collect" /\ empty'[c] = None /\ failed'[c].failures < Threshold
                    /\ pc' = "collect" /\ pin'[c] # None => pin'[c].observed = listed'[c]
    BY Zenon DEF Collecting, TypeOK
<1>0. /\ c \in needed => manifest[c] # None
      /\ docs[c] # None => c \in needed
      /\ c \in queue => c \in needed /\ pc = "collect" /\ empty[c] = None /\ failed[c].failures < Threshold
      /\ pc = "collect" /\ pin[c] # None => pin[c].observed = listed[c]
    BY Zenon DEF Collecting, TypePass
<1>1. CASE BeginPass
  <2>1. needed' \in {{}, Needed(Manifest)} /\ queue' = needed' /\ docs'[c] = None /\ manifest' = Manifest
        /\ (queue' # {} => pc' = "collect")
    BY <1>1, Zenon DEF BeginPass, Nothing
  <2>2. pin'[c] # None => pin'[c].observed = listed'[c]
    BY <1>1, Zenon DEF BeginPass, Prune, PinHolds
  <2>3. ASSUME Manifest[c] # None PROVE empty'[c] = None /\ failed'[c].failures < Threshold
    <3>1. ~EmptyHolds(c) /\ c \notin Suppressed
      BY <2>3, Zenon DEF Manifest
    <3>2. empty'[c] = None /\ failed'[c] = IF FailedHolds(c) THEN failed[c] ELSE NoFailure
      BY <1>1, <3>1, Zenon DEF BeginPass, Prune
    <3>3. FailedHolds(c) => failed[c].failures < Threshold
      BY <3>1, SemanticAssumption DEF Suppressed, TypeMemo
    <3>4. QED
      BY <3>2, <3>3, SemanticAssumption DEF NoFailure
  <2>4. QED
    BY <2>1, <2>2, <2>3, Zenon DEF Needed
<1>2. ASSUME NEW d \in Convs, Defer(d) \/ Full(d) PROVE
             /\ UNCHANGED <<needed, manifest, docs, pc, empty, failed, pin, listed>>
             /\ queue' \subseteq queue
    BY <1>2, Zenon DEF Defer, Full, memoVars
<1>3. ASSUME NEW d \in Convs, LoadFails(d) PROVE
             /\ UNCHANGED <<needed, manifest, docs, pc, empty, pin, listed>>
             /\ c \in queue' => c \in queue /\ failed'[c] = failed[c]
    BY <1>3, Zenon DEF LoadFails, TypeMemo
<1>4. ASSUME NEW d \in Convs, Load(d) PROVE
             /\ UNCHANGED <<needed, manifest, pc, listed>>
             /\ c \in queue' => c \in queue /\ failed'[c] = failed[c] /\ empty'[c] = empty[c]
             /\ docs'[c] # docs[c] => c \in needed
             /\ pin'[c] = pin[c] \/ pin'[c].observed = listed[c]
  <2>1. d \in queue /\ d \in needed
    BY <1>4, Zenon DEF Load, Admitted, NextInLine, TypePass
  <2>2. c \in queue' => c \in queue /\ c # d
    BY <1>4, Zenon DEF Load
  <2>3. c # d => failed'[c] = failed[c] /\ empty'[c] = empty[c] /\ docs'[c] = docs[c] /\ pin'[c] = pin[c]
    BY <1>4, Zenon DEF Load, TypeMemo, TypePass
  <2>4. c = d => pin'[c] = pin[c] \/ pin'[c].observed = listed[c]
    <3>1. pin' = pin \/ pin' = [pin EXCEPT ![d] = [observed |-> listed[d], advertise |-> memo[d].fp]]
      BY <1>4, Zenon DEF Load
    <3>2. CASE pin' = [pin EXCEPT ![d] = [observed |-> listed[d], advertise |-> memo[d].fp]] /\ c = d
      <4>1. pin'[c] = [observed |-> listed[c], advertise |-> memo[c].fp]
        BY <3>2, Zenon DEF TypeMemo
      <4>2. QED
        BY <4>1
    <3>3. QED
      BY <3>1, <3>2, Zenon
  <2>5. QED
    BY <1>4, <2>1, <2>2, <2>3, <2>4, Zenon DEF Load
<1>5. CASE EndCollect \/ UpsertFails
    BY <1>0, <1>5, Zenon DEF EndCollect, UpsertFails, memoVars
<1>6. ASSUME NEW d \in Convs, WriteRows(d) \/ Record(d) PROVE
             /\ UNCHANGED <<needed, manifest, docs, queue>>
             /\ pc \in {"write", "record"} /\ pc' # "collect"
    BY <1>6, Zenon DEF WriteRows, Record, Accept, passVars
<1>7. CASE FinishPass \/ Restart
    BY <1>7, Zenon DEF FinishPass, Restart, FreshWorker, Nothing
<1>8. CASE UNCHANGED <<pc, passVars>> /\ UNCHANGED memoVars
    BY <1>0, <1>8, Zenon DEF passVars, memoVars
<1>9. Pass \/ Restart \/ (UNCHANGED <<pc, passVars>> /\ UNCHANGED memoVars)
    BY Zenon DEF Next, Refresh, Cool, Remove, Write, vars
<1>10. QED
    BY <1>0, <1>1, <1>2, <1>3, <1>4, <1>5, <1>6, <1>7, <1>8, <1>9, Zenon DEF Pass

\* A pass keeps its listing, its manifest and the engine's answer to the end.
LEMMA PassKeeps ==
    ASSUME [Next]_vars
    PROVE  \/ BeginPass \/ FinishPass \/ Restart
           \/ /\ UNCHANGED <<listed, manifest, suppressed, needed>>
              /\ pc' \notin {"idle", "failed"} => pc \notin {"idle", "failed"}
              /\ \/ UNCHANGED docs
                 \/ \E c \in Convs : Load(c)
<1> USE DEF passVars
<1>1. CASE \E c \in Convs : Defer(c) \/ Full(c) \/ LoadFails(c) \/ Load(c) \/ WriteRows(c) \/ Record(c)
    BY <1>1, ZenonT(40) DEF Defer, Full, LoadFails, Load, Admitted, WriteRows, Record
<1>2. CASE EndCollect \/ UpsertFails
    BY <1>2, Zenon DEF EndCollect, UpsertFails
<1>3. CASE UNCHANGED <<pc, passVars>>
    BY <1>3, Zenon
<1>4. QED
    BY <1>1, <1>2, <1>3, Frame, Zenon DEF Pass

\* Bytes are loaded after the stamp was listed, so they are that stamp's or newer.
LEMMA DocsFreshStep ==
    TypeOK /\ Transcripts /\ Collecting /\ DocsFresh /\ [Next]_vars => DocsFresh'
<1> SUFFICES ASSUME TypeOK, Transcripts, Collecting, DocsFresh, [Next]_vars,
                    NEW c \in Convs, docs'[c] # None
             PROVE  \E t \in 1..stamp'[c] : t >= listed'[c] /\ t >= manifest'[c] /\ held'[c][t] = docs'[c]
    BY Zenon DEF DocsFresh, Fresh
<1>1. TypeEnv /\ TypePass
    BY Zenon DEF TypeOK
<1>2. ~BeginPass /\ ~FinishPass /\ ~Restart
    BY Zenon DEF BeginPass, FinishPass, Restart, FreshWorker, Nothing
<1>3. UNCHANGED <<listed, manifest>> /\ (docs' = docs \/ \E d \in Convs : Load(d))
    BY <1>2, PassKeeps, Zenon
<1>4. CASE docs'[c] = docs[c]
  <2>1. PICK t \in 1..stamp[c] : t >= listed[c] /\ t >= manifest[c] /\ held[c][t] = docs[c]
    BY <1>4, Zenon DEF DocsFresh, Fresh
  <2>2. t \in 1..stamp'[c] /\ held'[c][t] = held[c][t]
    BY Growth, SMTT(60)
  <2>3. QED
    BY <1>3, <1>4, <2>1, <2>2, Zenon
<1>5. ASSUME NEW d \in Convs, Load(d), docs'[c] # docs[c]
      PROVE  \E t \in 1..stamp'[c] : t >= listed'[c] /\ t >= manifest'[c] /\ held'[c][t] = docs'[c]
  <2>1. c = d /\ c \in needed /\ docs'[c] = held[c][stamp[c]] /\ UNCHANGED <<stamp, held>>
    BY <1>1, <1>5, Zenon DEF Load, Admitted, NextInLine, Now, TypePass, envVars
  <2>2. /\ listed[c] \in Nat /\ listed[c] <= stamp[c]
        /\ manifest[c] \in Nat /\ manifest[c] <= stamp[c]
        /\ stamp[c] \in 1..stamp[c]
    BY <2>1, NeededFacts, Zenon
  <2>3. QED
    BY <1>3, <2>1, <2>2, Zenon
<1>6. QED
    BY <1>3, <1>4, <1>5, Zenon

\* What the worker remembers being true, the manifest hides nothing.
LEMMA NothingHiddenHolds ==
    TypeOK /\ Remembered => NothingHidden
<1> SUFFICES ASSUME TypeOK, Remembered, NEW c \in Convs, index[c] # None
             PROVE  /\ recorded[c] = Advertised(c) => Stored(c, index[c])
                    /\ EmptyHolds(c) => WasBlank(c, index[c])
    BY Zenon DEF NothingHidden
<1>1. /\ pin[c] # None => pin[c].observed \in Stamps /\ pin[c].advertise \in Stamps
      /\ index[c] \in Stamps
    BY Zenon DEF TypeOK, TypeMemo, TypeEnv
<1>2. \A s \in Stamps : s # None
    BY SemanticAssumption DEF Stamps
<1>3. ASSUME recorded[c] = Advertised(c) PROVE Stored(c, index[c])
    BY <1>1, <1>2, <1>3, Zenon DEF Advertised, PinHolds, Remembered
<1>4. ASSUME EmptyHolds(c) PROVE WasBlank(c, index[c])
    BY <1>1, <1>2, <1>4, Zenon DEF EmptyHolds, Advertised, PinHolds, Remembered
<1>5. QED
    BY <1>3, <1>4, Zenon

\* So what the engine does not ask for is settled when the pass begins, and it stays
\* settled, since rows are never taken back.
LEMMA SettledStep ==
    TypeOK /\ Transcripts /\ Remembered /\ Settled /\ [Next]_vars => Settled'
<1> DEFINE KeptNext(d, s) == \E t \in 1..stamp'[d] : t >= s /\ held'[d][t] \in rows'[d]
           VoidNext(d, s) == \E t \in 1..stamp'[d] : t >= s /\ held'[d][t] = Blank
<1> SUFFICES ASSUME TypeOK, Transcripts, Remembered, Settled, [Next]_vars, NEW c \in Convs,
                    pc' \notin {"idle", "failed"}, listed'[c] # None, c \notin needed'
             PROVE  IF manifest'[c] = None
                    THEN c \in suppressed' \/ VoidNext(c, listed'[c])
                    ELSE KeptNext(c, listed'[c])
    BY Zenon DEF Settled, Stored, WasBlank
<1>1. \A s \in Stamps : (Stored(c, s) => KeptNext(c, s)) /\ (WasBlank(c, s) => VoidNext(c, s))
    BY StoredStays, Zenon DEF Stored, WasBlank
<1>2. listed[c] \in Stamps \cup {None} /\ index[c] \in Stamps \cup {None}
    BY Zenon DEF TypeOK, TypeEnv, TypePass
<1> HIDE DEF KeptNext, VoidNext
<1>3. CASE BeginPass
  <2>1. /\ listed' = index /\ manifest' = Manifest /\ suppressed' = Suppressed
        /\ needed' = Needed(Manifest)
    BY <1>3, Zenon DEF BeginPass
  <2>2. CASE Manifest[c] = None
    <3>1. Advertised(c) # None
      <4>1. pin[c] # None => pin[c].advertise \in Stamps
        BY Zenon DEF TypeOK, TypeMemo
      <4>2. \A s \in Stamps : s # None
        BY SemanticAssumption DEF Stamps
      <4>3. index[c] # None
        BY <2>1, Zenon
      <4>4. QED
        BY <4>1, <4>2, <4>3, Zenon DEF Advertised, PinHolds
    <3>2. EmptyHolds(c) \/ c \in Suppressed
      BY <2>2, <3>1, Zenon DEF Manifest
    <3>3. QED
      BY <1>1, <1>2, <2>1, <2>2, <3>2, NothingHiddenHolds, Zenon DEF NothingHidden
  <2>3. CASE Manifest[c] # None
    <3>1. recorded[c] = Advertised(c)
      BY <2>1, <2>3, Zenon DEF Needed, Manifest
    <3>2. QED
      BY <1>1, <1>2, <2>1, <2>3, <3>1, NothingHiddenHolds, Zenon DEF NothingHidden
  <2>4. QED
    BY <2>2, <2>3, Zenon
<1>4. CASE UNCHANGED <<listed, manifest, suppressed, needed>> /\ pc \notin {"idle", "failed"}
    BY <1>1, <1>2, <1>4, Zenon DEF Settled
<1>5. CASE FinishPass \/ Restart
    BY <1>5, Zenon DEF FinishPass, Restart, FreshWorker
<1>6. QED
    BY <1>3, <1>4, <1>5, PassKeeps, Zenon

\* The engine records a conversation only after its rows, one conversation after the
\* other, and the call succeeds only once all are done.
LEMMA InUpsertStep ==
    TypeOK /\ Transcripts /\ Collecting /\ InUpsert /\ [Next]_vars => InUpsert'
<1> SUFFICES ASSUME TypePass, TypeEngine, Transcripts, TypeOK, Collecting, InUpsert, [Next]_vars, NEW c \in Convs
             PROVE  /\ c \in todo' => docs'[c] # None /\ pc' \in {"write", "record"}
                    /\ pc' \in {"write", "record"} /\ docs'[c] # None /\ c \notin todo' => docs'[c] \in rows'[c]
                    /\ pc' = "record" /\ c \in todo' /\ (\A d \in todo' : c <= d) => docs'[c] \in rows'[c]
                    /\ c \in sent' => docs'[c] # None /\ docs'[c] \in rows'[c] /\ pc' = "logged"
    BY Zenon DEF InUpsert, Foremost, TypeOK
<1>0. /\ c \in todo => docs[c] # None /\ pc \in {"write", "record"}
      /\ pc \in {"write", "record"} /\ docs[c] # None /\ c \notin todo => docs[c] \in rows[c]
      /\ pc = "record" /\ c \in todo /\ (\A d \in todo : c <= d) => docs[c] \in rows[c]
      /\ c \in sent => docs[c] # None /\ docs[c] \in rows[c] /\ pc = "logged"
      /\ rows[c] \subseteq rows'[c]
    BY Growth, SMTT(60) DEF InUpsert, Foremost
<1>1. CASE BeginPass
    BY <1>1, Zenon DEF BeginPass, Nothing
<1>2. ASSUME NEW d \in Convs, Defer(d) \/ Full(d) \/ LoadFails(d) \/ Load(d)
      PROVE  pc = "collect" /\ UNCHANGED <<pc, todo, sent>>
    BY <1>2, Zenon DEF Defer, Full, LoadFails, Load, Admitted
<1>3. CASE EndCollect
    BY <1>0, <1>3, Zenon DEF EndCollect, NoDocs, Nothing
<1>4. ASSUME NEW d \in Convs, WriteRows(d)
      PROVE  /\ pc = "write" /\ pc' = "record" /\ UNCHANGED <<todo, docs, sent>>
             /\ c \in todo /\ (\A e \in todo : c <= e) => docs[c] \in rows'[c]
  <2>1. pc = "write" /\ pc' = "record" /\ UNCHANGED <<todo, docs, sent>> /\ docs[d] \in rows'[d]
    BY <1>4, Zenon DEF WriteRows, passVars, TypeEngine
  <2>2. c \in todo /\ (\A e \in todo : c <= e) => c = d
    BY <1>4, SemanticAssumption DEF WriteRows, Foremost
  <2>3. QED
    BY <2>1, <2>2, Zenon
<1>5. CASE UpsertFails
    BY <1>0, <1>5, Zenon DEF UpsertFails
<1>6. ASSUME NEW d \in Convs, Record(d)
      PROVE  /\ pc = "record" /\ UNCHANGED <<docs, rows>> /\ todo' = todo \ {d} /\ docs[d] \in rows[d]
             /\ \/ todo' # {} /\ pc' = "write" /\ UNCHANGED sent
                \/ todo' = {} /\ pc' = "logged" /\ sent' = {e \in Convs : docs[e] # None}
  <2>1. /\ pc = "record" /\ UNCHANGED <<docs, rows>> /\ todo' = todo \ {d}
        /\ \/ todo' # {} /\ pc' = "write" /\ UNCHANGED sent
           \/ todo' = {} /\ pc' = "logged" /\ sent' = {e \in Convs : docs[e] # None}
    BY <1>6, Zenon DEF Record, Accept
  <2>2. docs[d] \in rows[d]
    BY <1>6, Zenon DEF Record, InUpsert
  <2>3. QED
    BY <2>1, <2>2, Zenon
<1>7. CASE FinishPass \/ Restart
    BY <1>7, Zenon DEF FinishPass, Restart, FreshWorker
<1>8. CASE UNCHANGED <<pc, passVars>>
    BY <1>0, <1>8, Zenon DEF passVars
<1>9. QED
    BY <1>0, <1>1, <1>2, <1>3, <1>4, <1>5, <1>6, <1>7, <1>8, Frame, Zenon DEF Pass

-----------------------------------------------------------------------------
\* The inductive invariant holds of every behaviour of the feeder and the engine.
THEOREM Invariance == Spec => []IInv
<1>1. Init => IInv
  <2> SUFFICES ASSUME Init PROVE IInv
    BY Zenon
  <2> USE SemanticAssumption DEF Init, Stamps, Contents, Nothing, NoFailure
  <2>1. TypeEnv
    <3>1. held \in [Convs -> [1..MaxWrites + 1 -> Contents \cup {None}]]
      <4>1. \A c \in Convs : First[c] \in Contents
        BY Zenon
      <4>2. QED
        BY <4>1, Zenon
    <3>2. 1 \in 1..MaxWrites + 1 /\ 1 \in Stamps /\ 0 \in 0..MaxWrites /\ 0 \in 0..MaxFaults
      OBVIOUS
    <3>3. stamp \in [Convs -> 1..MaxWrites + 1] /\ cold \in [Convs -> Stamps]
      BY <3>2, Zenon
    <3>4. present \subseteq Convs /\ index \in [Convs -> Stamps \cup {None}]
      BY Zenon
    <3>5. QED
      BY <3>1, <3>2, <3>3, <3>4, Zenon DEF TypeEnv
  <2>2. Transcripts
    BY DEF Transcripts
  <2>3. TypePass /\ TypeEngine
    BY Zenon DEF TypePass, TypeEngine
  <2>4. TypeMemo
    BY DEF TypeMemo
  <2>5. Remembered /\ Collecting /\ DocsFresh /\ Settled /\ InUpsert
    BY Zenon DEF Remembered, Collecting, DocsFresh, Settled, InUpsert
  <2>6. QED
    BY <2>1, <2>2, <2>3, <2>4, <2>5, Zenon DEF IInv, TypeOK
<1>2. IInv /\ [Next]_vars => IInv'
  <2> SUFFICES ASSUME IInv, [Next]_vars PROVE IInv'
    BY Zenon
  <2>1. TypeOK /\ Transcripts /\ Remembered /\ Collecting /\ DocsFresh /\ Settled /\ InUpsert
    BY Zenon DEF IInv
  <2>2. TypeOK'
    BY <2>1, TypeEnvStep, TypePassStep, TypeMemoStep, TypeEngineStep, Zenon DEF TypeOK
  <2>3. QED
    BY <2>1, <2>2, TranscriptsStep, RememberedStep, CollectingStep, DocsFreshStep, SettledStep,
       InUpsertStep, Zenon DEF IInv
<1>3. QED
    BY <1>1, <1>2, PTL DEF Spec

\* Types, among them that no conversation is loaded once its loads have failed
\* failedLoadSuppressThreshold times (recordLoadFailure, buildManifest).
THEOREM TypeCorrect == Spec => []TypeOK
    BY Invariance, PTL DEF IInv

\* Neither a pin, a remembered empty delivery nor a checkpoint hides bytes that were
\* not delivered (buildManifest, collectNeededDocuments, checkpointStore.needed).
THEOREM HidesNothing == Spec => []NothingHidden
<1>1. IInv => NothingHidden
    BY NothingHiddenHolds, Zenon DEF IInv
<1>2. QED
    BY <1>1, Invariance, PTL

\* A pass that publishes no pending conversation has listed only stored and blank ones
\* (publish, runPass).
THEOREM PendingHonest == Spec => []PendingIsHonest
<1>1. IInv => PendingIsHonest
  <2> SUFFICES ASSUME IInv, pc = "logged", Pending = 0, NEW c \in Convs, listed[c] # None
               PROVE  Stored(c, listed[c]) \/ WasBlank(c, listed[c])
    BY Zenon DEF PendingIsHonest
  <2>1. IsFiniteSet(needed \ sent) /\ IsFiniteSet(suppressed)
    BY FS_Subset, SemanticAssumption, Zenon DEF IInv, TypeOK, TypePass
  <2>2. Cardinality(needed \ sent) \in Nat /\ Cardinality(suppressed) \in Nat
    BY <2>1, FS_CardinalityType, Zenon
  <2>3. Cardinality(needed \ sent) = 0 /\ Cardinality(suppressed) = 0
    BY <2>2 DEF Pending
  <2>4. needed \subseteq sent /\ suppressed = {}
    BY <2>1, <2>3, FS_EmptySet, Zenon
  <2>5. CASE c \in needed
    BY <2>4, <2>5, Zenon DEF IInv, InUpsert, DocsFresh, Fresh, Stored
  <2>6. CASE c \notin needed
    BY <2>4, <2>6, Zenon DEF IInv, Settled
  <2>7. QED
    BY <2>5, <2>6, Zenon
<1>2. QED
    BY <1>1, Invariance, PTL
=============================================================================
