--------------------------- MODULE RegistryProofs ---------------------------
(***************************************************************************)
(* Proofs about Registry, for any number of sessions, drains and           *)
(* ForceCloseMatching calls.  The inductive invariant has three parts      *)
(* besides the types: who holds the lock and which drain is active         *)
(* (ControlInv), when the maps are empty (EmptyInv), and who is            *)
(* responsible for each session (ClaimInv).                                *)
(***************************************************************************)
EXTENDS Registry, TLAPS

\* A drain between winning the election and storing Closed.
Polling == {"idle_snapshot", "idle_close", "wait", "empty", "deadline"}
Forced == {"force_snapshot", "force_close"}

\* The lock is held exactly by the Register call between re-check and insert.
\* At most one drain is active and the state names its stage.  An admitted
\* Register can outlive the compare-and-swap only until the drain's first
\* locked section.
ControlInv ==
    /\ \A s \in Sessions : owner[s] = "admitted" <=> mu = s
    /\ \A d \in Drainers : drain[d] \in Polling => state = "Draining"
    /\ \A d \in Drainers : drain[d] \in Forced => state = "Forcing"
    /\ \A d, e \in Drainers :
          drain[d] \in Polling \cup Forced /\ drain[e] \in Polling \cup Forced
             => d = e
    /\ \A d \in Drainers :
          drain[d] \in {"idle_close", "empty", "deadline"} \cup Forced
             => \A s \in Sessions : owner[s] # "admitted"
    /\ state = "Closed" => \A s \in Sessions : owner[s] # "admitted"

\* A drain that counted zero, or took everything, leaves nothing behind.
EmptyInv ==
    /\ \A d \in Drainers : drain[d] \in {"empty", "force_close"} => sessions = {}
    /\ state = "Closed" => sessions = {}

\* A session is tracked, queued in at most one batch, or closed, never two of
\* these; an owner that has not released is in one of them.
ClaimInv ==
    /\ \A s \in Sessions :
          owner[s] \in {"new", "checked", "admitted", "rejected"} =>
             /\ s \notin sessions
             /\ closes[s] = 0
             /\ \A p \in Closers : s \notin pending[p]
    /\ \A s \in sessions : closes[s] = 0 /\ \A p \in Closers : s \notin pending[p]
    /\ \A p \in Closers : \A s \in pending[p] :
          closes[s] = 0 /\ \A q \in Closers : s \in pending[q] => q = p
    /\ \A s \in Sessions : closes[s] <= 1
    /\ \A s \in Sessions : owner[s] = "registered" =>
          s \in sessions \/ closes[s] = 1 \/ \E p \in Closers : s \in pending[p]
    /\ \A d \in Drainers : pending[d] # {} => drain[d] \in {"idle_close", "force_close"}
    /\ \A f \in Forcers : pending[f] # {} => force[f] = "closing"

IInv == TypeOK /\ ControlInv /\ EmptyInv /\ ClaimInv

-----------------------------------------------------------------------------
\* Every step of Register, Release, the drain and ForceCloseMatching keeps the
\* types.
LEMMA TypeStep ==
    TypeOK /\ [Next]_vars => TypeOK'
<1> SUFFICES ASSUME TypeOK, [Next]_vars
             PROVE  TypeOK'
    BY Zenon
<1> USE RegistryAssumption DEF TypeOK, States, OwnerStates, DrainStates, ForceStates, Closers
<1>1. ASSUME NEW s \in Sessions, RegisterCheck(s) PROVE TypeOK'
    BY <1>1, Zenon DEF RegisterCheck, HasHandle, callVars
<1>2. ASSUME NEW s \in Sessions, RegisterLock(s) PROVE TypeOK'
    BY <1>2, Zenon DEF RegisterLock, callVars
<1>3. ASSUME NEW s \in Sessions, RegisterInsert(s) PROVE TypeOK'
    BY <1>3 DEF RegisterInsert, IndexEntry, callVars
<1>4. ASSUME NEW s \in Sessions, ReleaseClaim(s) PROVE TypeOK'
    BY <1>4, Zenon DEF ReleaseClaim, callVars
<1>5. ASSUME NEW s \in Sessions, ReleaseRemove(s) PROVE TypeOK'
    BY <1>5, Zenon DEF ReleaseRemove, WithoutChildren, callVars
<1>6. ASSUME NEW s \in Sessions, Touch(s) PROVE TypeOK'
    BY <1>6, Zenon DEF Touch, callVars
<1>7. ASSUME NEW s \in Sessions, GoIdle(s) PROVE TypeOK'
    BY <1>7, Zenon DEF GoIdle, callVars
<1>8. ASSUME NEW s \in Sessions, CloserFinish(s) PROVE TypeOK'
    BY <1>8, Zenon DEF CloserFinish, regVars
<1>9. ASSUME NEW p \in Closers, NEW s \in Sessions, CloserStart(p, s) PROVE TypeOK'
    BY <1>9 DEF CloserStart, regVars
<1>10. ASSUME NEW p \in Closers, NEW s \in Sessions, CloserReturn(p, s) PROVE TypeOK'
    BY <1>10, Zenon DEF CloserReturn
<1>11. ASSUME NEW d \in Drainers, DrainBegin(d) PROVE TypeOK'
    BY <1>11, Zenon DEF DrainBegin
<1>12. ASSUME NEW d \in Drainers, SnapshotIdle(d) PROVE TypeOK'
    BY <1>12, Zenon DEF SnapshotIdle, Take, WithoutChildren
<1>13. ASSUME NEW d \in Drainers, IdleClosed(d) PROVE TypeOK'
    BY <1>13, Zenon DEF IdleClosed, BatchDone
<1>14. ASSUME NEW d \in Drainers, WaitEmpty(d) PROVE TypeOK'
    BY <1>14, Zenon DEF WaitEmpty, regVars
<1>15. ASSUME NEW d \in Drainers, WaitDeadline(d) PROVE TypeOK'
    BY <1>15, Zenon DEF WaitDeadline, regVars
<1>16. ASSUME NEW d \in Drainers, DrainClose(d) PROVE TypeOK'
    BY <1>16, Zenon DEF DrainClose
<1>17. ASSUME NEW d \in Drainers, DrainForce(d) PROVE TypeOK'
    BY <1>17, Zenon DEF DrainForce
<1>18. ASSUME NEW d \in Drainers, SnapshotForce(d) PROVE TypeOK'
    BY <1>18, Zenon DEF SnapshotForce, Take, WithoutChildren
<1>19. ASSUME NEW d \in Drainers, ForceClosed(d) PROVE TypeOK'
    BY <1>19, Zenon DEF ForceClosed, BatchDone
<1>20. ASSUME NEW f \in Forcers, ForceMatch(f) PROVE TypeOK'
    BY <1>20 DEF ForceMatch, Take, WithoutChildren
<1>21. ASSUME NEW f \in Forcers, ForceReturn(f) PROVE TypeOK'
    BY <1>21, Zenon DEF ForceReturn, BatchDone, regVars
<1>22. CASE UNCHANGED vars
    BY <1>22, Zenon DEF vars
<1>23. QED
    BY <1>1, <1>2, <1>3, <1>4, <1>5, <1>6, <1>7, <1>8, <1>9, <1>10, <1>11,
       <1>12, <1>13, <1>14, <1>15, <1>16, <1>17, <1>18, <1>19, <1>20, <1>21,
       <1>22, Zenon DEF Next, OwnerNext, DrainNext

\* Every step keeps the lock discipline of Register and the single active
\* drain that the compare-and-swap in drainWith elects.
LEMMA ControlStep ==
    TypeOK /\ ControlInv /\ [Next]_vars => ControlInv'
<1> SUFFICES ASSUME TypeOK, ControlInv, [Next]_vars
             PROVE  ControlInv'
    BY Zenon
<1> USE RegistryAssumption DEF TypeOK, ControlInv, Polling, Forced, States, OwnerStates,
                DrainStates, ForceStates, Closers
<1>1. ASSUME NEW s \in Sessions, RegisterCheck(s) PROVE ControlInv'
    BY <1>1 DEF RegisterCheck, HasHandle, callVars
<1>2. ASSUME NEW s \in Sessions, RegisterLock(s) PROVE ControlInv'
    BY <1>2 DEF RegisterLock, callVars
<1>3. ASSUME NEW s \in Sessions, RegisterInsert(s) PROVE ControlInv'
    BY <1>3, Zenon DEF RegisterInsert, IndexEntry, callVars
<1>4. ASSUME NEW s \in Sessions, ReleaseClaim(s) PROVE ControlInv'
    BY <1>4, Zenon DEF ReleaseClaim, callVars
<1>5. ASSUME NEW s \in Sessions, ReleaseRemove(s) PROVE ControlInv'
    BY <1>5, Zenon DEF ReleaseRemove, WithoutChildren, callVars
<1>6. ASSUME NEW s \in Sessions, Touch(s) PROVE ControlInv'
    BY <1>6, Zenon DEF Touch, callVars
<1>7. ASSUME NEW s \in Sessions, GoIdle(s) PROVE ControlInv'
    BY <1>7, Zenon DEF GoIdle, callVars
<1>8. ASSUME NEW s \in Sessions, CloserFinish(s) PROVE ControlInv'
    BY <1>8, Zenon DEF CloserFinish, regVars
<1>9. ASSUME NEW p \in Closers, NEW s \in Sessions, CloserStart(p, s) PROVE ControlInv'
    BY <1>9, Zenon DEF CloserStart, regVars
<1>10. ASSUME NEW p \in Closers, NEW s \in Sessions, CloserReturn(p, s) PROVE ControlInv'
    BY <1>10, Zenon DEF CloserReturn
<1>11. ASSUME NEW d \in Drainers, DrainBegin(d) PROVE ControlInv'
    BY <1>11 DEF DrainBegin
<1>12. ASSUME NEW d \in Drainers, SnapshotIdle(d) PROVE ControlInv'
    BY <1>12 DEF SnapshotIdle, Take, WithoutChildren
<1>13. ASSUME NEW d \in Drainers, IdleClosed(d) PROVE ControlInv'
    BY <1>13 DEF IdleClosed, BatchDone
<1>14. ASSUME NEW d \in Drainers, WaitEmpty(d) PROVE ControlInv'
    BY <1>14 DEF WaitEmpty, regVars
<1>15. ASSUME NEW d \in Drainers, WaitDeadline(d) PROVE ControlInv'
    BY <1>15 DEF WaitDeadline, regVars
<1>16. ASSUME NEW d \in Drainers, DrainClose(d) PROVE ControlInv'
    BY <1>16 DEF DrainClose
<1>17. ASSUME NEW d \in Drainers, DrainForce(d) PROVE ControlInv'
    BY <1>17 DEF DrainForce
<1>18. ASSUME NEW d \in Drainers, SnapshotForce(d) PROVE ControlInv'
    BY <1>18 DEF SnapshotForce, Take, WithoutChildren
<1>19. ASSUME NEW d \in Drainers, ForceClosed(d) PROVE ControlInv'
    BY <1>19 DEF ForceClosed, BatchDone
<1>20. ASSUME NEW f \in Forcers, ForceMatch(f) PROVE ControlInv'
    BY <1>20, Zenon DEF ForceMatch, Take, WithoutChildren
<1>21. ASSUME NEW f \in Forcers, ForceReturn(f) PROVE ControlInv'
    BY <1>21, Zenon DEF ForceReturn, BatchDone, regVars
<1>22. CASE UNCHANGED vars
    BY <1>22, Zenon DEF vars
<1>23. QED
    BY <1>1, <1>2, <1>3, <1>4, <1>5, <1>6, <1>7, <1>8, <1>9, <1>10, <1>11,
       <1>12, <1>13, <1>14, <1>15, <1>16, <1>17, <1>18, <1>19, <1>20, <1>21,
       <1>22, Zenon DEF Next, OwnerNext, DrainNext

\* Every step keeps a registry empty once drainWith found or made it so.
LEMMA EmptyStep ==
    TypeOK /\ ControlInv /\ EmptyInv /\ [Next]_vars => EmptyInv'
<1> SUFFICES ASSUME TypeOK, ControlInv, EmptyInv, [Next]_vars
             PROVE  EmptyInv'
    BY Zenon
<1> USE RegistryAssumption DEF TypeOK, ControlInv, EmptyInv, Polling, Forced, States,
                OwnerStates, DrainStates, ForceStates, Closers
<1>1. ASSUME NEW s \in Sessions, RegisterCheck(s) PROVE EmptyInv'
    BY <1>1, Zenon DEF RegisterCheck, HasHandle, callVars
<1>2. ASSUME NEW s \in Sessions, RegisterLock(s) PROVE EmptyInv'
    BY <1>2, Zenon DEF RegisterLock, callVars
<1>3. ASSUME NEW s \in Sessions, RegisterInsert(s) PROVE EmptyInv'
    BY <1>3, Zenon DEF RegisterInsert, IndexEntry, callVars
<1>4. ASSUME NEW s \in Sessions, ReleaseClaim(s) PROVE EmptyInv'
    BY <1>4, Zenon DEF ReleaseClaim, callVars
<1>5. ASSUME NEW s \in Sessions, ReleaseRemove(s) PROVE EmptyInv'
    BY <1>5, Zenon DEF ReleaseRemove, WithoutChildren, callVars
<1>6. ASSUME NEW s \in Sessions, Touch(s) PROVE EmptyInv'
    BY <1>6, Zenon DEF Touch, callVars
<1>7. ASSUME NEW s \in Sessions, GoIdle(s) PROVE EmptyInv'
    BY <1>7, Zenon DEF GoIdle, callVars
<1>8. ASSUME NEW s \in Sessions, CloserFinish(s) PROVE EmptyInv'
    BY <1>8, Zenon DEF CloserFinish, regVars
<1>9. ASSUME NEW p \in Closers, NEW s \in Sessions, CloserStart(p, s) PROVE EmptyInv'
    BY <1>9, Zenon DEF CloserStart, regVars
<1>10. ASSUME NEW p \in Closers, NEW s \in Sessions, CloserReturn(p, s) PROVE EmptyInv'
    BY <1>10, Zenon DEF CloserReturn
<1>11. ASSUME NEW d \in Drainers, DrainBegin(d) PROVE EmptyInv'
    BY <1>11 DEF DrainBegin
<1>12. ASSUME NEW d \in Drainers, SnapshotIdle(d) PROVE EmptyInv'
    BY <1>12, Zenon DEF SnapshotIdle, Take, WithoutChildren
<1>13. ASSUME NEW d \in Drainers, IdleClosed(d) PROVE EmptyInv'
    BY <1>13, Zenon DEF IdleClosed, BatchDone
<1>14. ASSUME NEW d \in Drainers, WaitEmpty(d) PROVE EmptyInv'
    BY <1>14, Zenon DEF WaitEmpty, regVars
<1>15. ASSUME NEW d \in Drainers, WaitDeadline(d) PROVE EmptyInv'
    BY <1>15, Zenon DEF WaitDeadline, regVars
<1>16. ASSUME NEW d \in Drainers, DrainClose(d) PROVE EmptyInv'
    BY <1>16, Zenon DEF DrainClose
<1>17. ASSUME NEW d \in Drainers, DrainForce(d) PROVE EmptyInv'
    BY <1>17, Zenon DEF DrainForce
<1>18. ASSUME NEW d \in Drainers, SnapshotForce(d) PROVE EmptyInv'
    BY <1>18, Zenon DEF SnapshotForce, Take, WithoutChildren
<1>19. ASSUME NEW d \in Drainers, ForceClosed(d) PROVE EmptyInv'
    BY <1>19, Zenon DEF ForceClosed, BatchDone
<1>20. ASSUME NEW f \in Forcers, ForceMatch(f) PROVE EmptyInv'
    BY <1>20, Zenon DEF ForceMatch, Take, WithoutChildren
<1>21. ASSUME NEW f \in Forcers, ForceReturn(f) PROVE EmptyInv'
    BY <1>21, Zenon DEF ForceReturn, BatchDone, regVars
<1>22. CASE UNCHANGED vars
    BY <1>22, Zenon DEF vars
<1>23. QED
    BY <1>1, <1>2, <1>3, <1>4, <1>5, <1>6, <1>7, <1>8, <1>9, <1>10, <1>11,
       <1>12, <1>13, <1>14, <1>15, <1>16, <1>17, <1>18, <1>19, <1>20, <1>21,
       <1>22, Zenon DEF Next, OwnerNext, DrainNext

\* Every step keeps each session with one responsible party: the map, one
\* batch, or its closer.
LEMMA ClaimStep ==
    TypeOK /\ ControlInv /\ EmptyInv /\ ClaimInv /\ [Next]_vars => ClaimInv'
<1> SUFFICES ASSUME TypeOK, ControlInv, EmptyInv, ClaimInv, [Next]_vars
             PROVE  ClaimInv'
    BY Zenon
<1> USE RegistryAssumption DEF TypeOK, ClaimInv, States, OwnerStates, DrainStates,
                ForceStates, Closers
<1>1. ASSUME NEW s \in Sessions, RegisterCheck(s) PROVE ClaimInv'
    BY <1>1 DEF RegisterCheck, HasHandle, callVars
<1>2. ASSUME NEW s \in Sessions, RegisterLock(s) PROVE ClaimInv'
    BY <1>2 DEF RegisterLock, callVars
<1>3. ASSUME NEW s \in Sessions, RegisterInsert(s) PROVE ClaimInv'
    BY <1>3 DEF RegisterInsert, IndexEntry, callVars
<1>4. ASSUME NEW s \in Sessions, ReleaseClaim(s) PROVE ClaimInv'
    BY <1>4 DEF ReleaseClaim, callVars
<1>5. ASSUME NEW s \in Sessions, ReleaseRemove(s) PROVE ClaimInv'
    BY <1>5 DEF ReleaseRemove, WithoutChildren, callVars
<1>6. ASSUME NEW s \in Sessions, Touch(s) PROVE ClaimInv'
    BY <1>6, Zenon DEF Touch, callVars
<1>7. ASSUME NEW s \in Sessions, GoIdle(s) PROVE ClaimInv'
    BY <1>7, Zenon DEF GoIdle, callVars
<1>8. ASSUME NEW s \in Sessions, CloserFinish(s) PROVE ClaimInv'
    BY <1>8, Zenon DEF CloserFinish, regVars
<1>9. ASSUME NEW p \in Closers, NEW s \in Sessions, CloserStart(p, s) PROVE ClaimInv'
    BY <1>9 DEF CloserStart, regVars
<1>10. ASSUME NEW p \in Closers, NEW s \in Sessions, CloserReturn(p, s) PROVE ClaimInv'
    BY <1>10, Zenon DEF CloserReturn
<1>11. ASSUME NEW d \in Drainers, DrainBegin(d) PROVE ClaimInv'
    BY <1>11 DEF DrainBegin
<1>12. ASSUME NEW d \in Drainers, SnapshotIdle(d) PROVE ClaimInv'
    BY <1>12 DEF SnapshotIdle, Take, WithoutChildren
<1>13. ASSUME NEW d \in Drainers, IdleClosed(d) PROVE ClaimInv'
    BY <1>13 DEF IdleClosed, BatchDone
<1>14. ASSUME NEW d \in Drainers, WaitEmpty(d) PROVE ClaimInv'
    BY <1>14 DEF WaitEmpty, regVars
<1>15. ASSUME NEW d \in Drainers, WaitDeadline(d) PROVE ClaimInv'
    BY <1>15 DEF WaitDeadline, regVars
<1>16. ASSUME NEW d \in Drainers, DrainClose(d) PROVE ClaimInv'
    BY <1>16 DEF DrainClose
<1>17. ASSUME NEW d \in Drainers, DrainForce(d) PROVE ClaimInv'
    BY <1>17 DEF DrainForce
<1>18. ASSUME NEW d \in Drainers, SnapshotForce(d) PROVE ClaimInv'
    BY <1>18 DEF SnapshotForce, Take, WithoutChildren
<1>19. ASSUME NEW d \in Drainers, ForceClosed(d) PROVE ClaimInv'
    BY <1>19 DEF ForceClosed, BatchDone
<1>20. ASSUME NEW f \in Forcers, ForceMatch(f) PROVE ClaimInv'
    BY <1>20 DEF ForceMatch, Take, WithoutChildren
<1>21. ASSUME NEW f \in Forcers, ForceReturn(f) PROVE ClaimInv'
    BY <1>21 DEF ForceReturn, BatchDone, regVars
<1>22. CASE UNCHANGED vars
    BY <1>22, Zenon DEF vars
<1>23. QED
    BY <1>1, <1>2, <1>3, <1>4, <1>5, <1>6, <1>7, <1>8, <1>9, <1>10, <1>11,
       <1>12, <1>13, <1>14, <1>15, <1>16, <1>17, <1>18, <1>19, <1>20, <1>21,
       <1>22, Zenon DEF Next, OwnerNext, DrainNext

\* The inductive invariant holds in every reachable state of the registry.
THEOREM Invariance == Spec => []IInv
<1>1. Init => IInv
    BY RegistryAssumption
       DEF Init, IInv, TypeOK, ControlInv, EmptyInv, ClaimInv, Polling, Forced,
           States, OwnerStates, DrainStates, ForceStates, Closers
<1>2. IInv /\ [Next]_vars => IInv'
    BY TypeStep, ControlStep, EmptyStep, ClaimStep, Zenon DEF IInv
<1>3. QED
    BY <1>1, <1>2, PTL DEF Spec

\* Type correctness of the registry.
THEOREM TypeCorrect == Spec => []TypeOK
<1>1. IInv => TypeOK
    BY Zenon DEF IInv
<1>2. QED
    BY <1>1, Invariance, PTL

\* However Register, Release, drains and ForceCloseMatching interleave, a
\* registry that drainWith reported Closed tracks nothing and admits nobody.
THEOREM ClosedStaysEmpty == Spec => []ClosedIsEmpty
<1>1. IInv => ClosedIsEmpty
    BY Zenon DEF IInv, ControlInv, EmptyInv, ClosedIsEmpty
<1>2. QED
    BY <1>1, Invariance, PTL

\* The Closer contract: no session's Close is called twice.
THEOREM CloserCalledOnce == Spec => []CloserOnce
<1>1. IInv => CloserOnce
    BY Zenon DEF IInv, ClaimInv, CloserOnce
<1>2. QED
    BY <1>1, Invariance, PTL

\* No live owner of a Closed registry was forgotten by the force-close paths.
THEOREM OwnersTold == Spec => []ClosedOwnersTold
<1>1. IInv => ClosedOwnersTold
    BY DEF IInv, TypeOK, ControlInv, EmptyInv, ClaimInv, ClosedOwnersTold,
           Polling, Forced, Closers
<1>2. QED
    BY <1>1, Invariance, PTL

-----------------------------------------------------------------------------
\* Each removal takes a set of children out of the index, and each insert adds
\* the one entry of the new session.
LEMMA IndexRemove ==
    ASSUME TypeOK, IndexCoherent, NEW S \in SUBSET Sessions,
           sessions' = sessions \ S, parents' = WithoutChildren(parents, S)
    PROVE  IndexCoherent'
    BY RegistryAssumption DEF TypeOK, IndexCoherent, WithoutChildren

\* Every step keeps the parents index and the sessions map in agreement.
LEMMA IndexStep ==
    TypeOK /\ IndexCoherent /\ [Next]_vars => IndexCoherent'
<1> SUFFICES ASSUME TypeOK, IndexCoherent, [Next]_vars
             PROVE  IndexCoherent'
    BY Zenon
<1>1. CASE UNCHANGED <<sessions, parents>>
    BY <1>1, Zenon DEF IndexCoherent
<1>2. ASSUME NEW s \in Sessions, RegisterInsert(s) PROVE IndexCoherent'
    BY <1>2, RegistryAssumption, Zenon DEF RegisterInsert, IndexEntry, IndexCoherent, TypeOK
<1>3. ASSUME NEW s \in Sessions, ReleaseRemove(s) PROVE IndexCoherent'
    BY <1>3, IndexRemove, Zenon DEF ReleaseRemove
<1>4. ASSUME NEW p \in Closers, NEW batch \in SUBSET sessions, Take(p, batch)
      PROVE  IndexCoherent'
    BY <1>4, IndexRemove, Zenon DEF Take, TypeOK
<1>5. ASSUME NEW d \in Drainers, SnapshotIdle(d) \/ SnapshotForce(d)
      PROVE  IndexCoherent'
    BY <1>4, <1>5, Zenon DEF SnapshotIdle, SnapshotForce, Closers
<1>6. ASSUME NEW f \in Forcers, ForceMatch(f) PROVE IndexCoherent'
    BY <1>4, <1>6, Zenon DEF ForceMatch, Closers
<1>7. QED
    BY <1>1, <1>2, <1>3, <1>5, <1>6, Zenon
       DEF Next, OwnerNext, DrainNext, vars, regVars, RegisterCheck, RegisterLock,
           ReleaseClaim, Touch, GoIdle, CloserFinish, CloserStart, CloserReturn,
           DrainBegin, IdleClosed, WaitEmpty, WaitDeadline, DrainClose,
           DrainForce, ForceClosed, ForceReturn

\* ChildrenOf and DescendantsOf read an index that matches the sessions map.
THEOREM IndexAgrees == Spec => []IndexCoherent
<1>1. Init => IndexCoherent
    BY Zenon DEF Init, IndexCoherent
<1>2. QED
    BY <1>1, IndexStep, TypeCorrect, PTL DEF Spec

\* No call sequence moves the registry state backwards.
THEOREM StateMovesForward == Spec => StateForward
<1>1. IInv /\ [Next]_vars => [Rank[state'] >= Rank[state]]_state
  <2> SUFFICES ASSUME IInv, [Next]_vars, state' # state
               PROVE  Rank[state'] >= Rank[state]
    BY Zenon
  <2>1. PICK d \in Drainers : DrainBegin(d) \/ DrainClose(d) \/ DrainForce(d)
                              \/ ForceClosed(d)
    BY Zenon DEF Next, OwnerNext, DrainNext, vars, regVars, RegisterCheck,
           RegisterLock, RegisterInsert, ReleaseClaim, ReleaseRemove, Touch,
           GoIdle, CloserFinish, CloserStart, CloserReturn, SnapshotIdle,
           IdleClosed, WaitEmpty, WaitDeadline, SnapshotForce, ForceMatch,
           ForceReturn
  <2>2. DrainBegin(d) => state = "Open" /\ state' = "Draining"
    BY Zenon DEF DrainBegin
  <2>3. DrainClose(d) => state = "Draining" /\ state' = "Closed"
    BY Zenon DEF IInv, ControlInv, Polling, DrainClose
  <2>4. DrainForce(d) => state = "Draining" /\ state' = "Forcing"
    BY Zenon DEF IInv, ControlInv, Polling, DrainForce
  <2>5. ForceClosed(d) => state = "Forcing" /\ state' = "Closed"
    BY Zenon DEF IInv, ControlInv, Forced, ForceClosed
  <2>6. QED
    BY <2>1, <2>2, <2>3, <2>4, <2>5 DEF Rank
<1>2. QED
    BY <1>1, Invariance, PTL DEF Spec, StateForward

-----------------------------------------------------------------------------
(* The registry implements SessionGate. *)

\* Steps that change neither the gate's state nor who is inside stutter.
\* RegisterLock is Admit, the removals are Leave, the winning DrainBegin is
\* Shut, and DrainClose and ForceClosed are Finish.
LEMMA GateStep ==
    ASSUME IInv, [Next]_vars
    PROVE  [Gate!Next]_(Gate!gateVars)
<1> USE DEF Gate!gateVars, gateBar, insideBar
<1>1. CASE UNCHANGED <<state, sessions, owner>>
    BY <1>1, Zenon
<1>2. ASSUME NEW s \in Sessions, RegisterLock(s)
      PROVE  [Gate!Next]_(Gate!gateVars)
  <2>1. CASE state = "Open"
    <3>1. insideBar' = insideBar \cup {s}
      BY <1>2, <2>1, Zenon DEF RegisterLock, IInv, TypeOK
    <3>2. s \notin insideBar
      BY <1>2, Zenon DEF RegisterLock, IInv, TypeOK, ClaimInv
    <3>3. Gate!Admit(s)
      BY <1>2, <2>1, <3>1, <3>2, Zenon DEF RegisterLock, Gate!Admit
    <3>4. QED
      BY <3>3, Zenon DEF Gate!Next
  <2>2. CASE state # "Open"
    BY <1>2, <2>2, Zenon DEF RegisterLock, IInv, TypeOK
  <2>3. QED
    BY <2>1, <2>2, Zenon
<1>3. ASSUME NEW S \in SUBSET Sessions, insideBar' = insideBar \ S,
             UNCHANGED state
      PROVE  [Gate!Next]_(Gate!gateVars)
  <2>1. insideBar \subseteq Sessions
    BY Zenon DEF IInv, TypeOK
  <2>2. CASE S \cap insideBar = {}
    BY <1>3, <2>2, Zenon
  <2>3. CASE S \cap insideBar # {}
    <3>1. Gate!Leave(S \cap insideBar)
      BY <1>3, <2>1, <2>3, Zenon DEF Gate!Leave
    <3>2. S \cap insideBar \in SUBSET Sessions
      BY <2>1, Zenon
    <3> HIDE DEF gateBar, insideBar
    <3>3. QED
      BY <3>1, <3>2, Zenon DEF Gate!Next
  <2>4. QED
    BY <2>2, <2>3, Zenon
<1>4. ASSUME NEW s \in Sessions, RegisterCheck(s) \/ RegisterInsert(s) \/ ReleaseClaim(s)
      PROVE  [Gate!Next]_(Gate!gateVars)
    BY <1>4, Zenon DEF RegisterCheck, RegisterInsert, ReleaseClaim, IInv, TypeOK
<1>5. ASSUME NEW s \in Sessions, ReleaseRemove(s)
      PROVE  [Gate!Next]_(Gate!gateVars)
  <2>1. insideBar' = insideBar \ {s}
    BY <1>5, Zenon DEF ReleaseRemove, IInv, TypeOK
  <2>2. QED
    BY <1>3, <1>5, <2>1, Zenon DEF ReleaseRemove
<1>6. ASSUME NEW p \in Closers, NEW batch \in SUBSET sessions, Take(p, batch),
             UNCHANGED <<state, owner>>
      PROVE  [Gate!Next]_(Gate!gateVars)
  <2>1. insideBar' = insideBar \ batch
    BY <1>6, RegistryAssumption, Zenon DEF Take, IInv, TypeOK, ControlInv
  <2>2. QED
    BY <1>3, <1>6, <2>1, Zenon DEF IInv, TypeOK
<1>7. ASSUME NEW d \in Drainers, SnapshotIdle(d) \/ SnapshotForce(d)
      PROVE  [Gate!Next]_(Gate!gateVars)
    BY <1>6, <1>7, Zenon DEF SnapshotIdle, SnapshotForce, Closers
<1>8. ASSUME NEW f \in Forcers, ForceMatch(f)
      PROVE  [Gate!Next]_(Gate!gateVars)
    BY <1>6, <1>8, Zenon DEF ForceMatch, Closers
<1>9. ASSUME NEW d \in Drainers, DrainBegin(d) \/ DrainForce(d)
      PROVE  [Gate!Next]_(Gate!gateVars)
    BY <1>9, Zenon DEF DrainBegin, DrainForce, IInv, TypeOK, ControlInv, Polling,
                Forced, States, Gate!Next, Gate!Shut
<1>10. ASSUME NEW d \in Drainers, DrainClose(d) \/ ForceClosed(d)
       PROVE  [Gate!Next]_(Gate!gateVars)
    BY <1>10, Zenon DEF DrainClose, ForceClosed, IInv, TypeOK, ControlInv, EmptyInv,
                 Polling, Forced, States, Gate!Next, Gate!Finish
<1>11. QED
    BY <1>1, <1>2, <1>4, <1>5, <1>7, <1>8, <1>9, <1>10, Zenon
       DEF Next, OwnerNext, DrainNext, vars, regVars, Touch, GoIdle, CloserFinish,
           CloserStart, CloserReturn, IdleClosed, WaitEmpty, WaitDeadline,
           ForceReturn

\* Register, Release, the drain and ForceCloseMatching together are a
\* SessionGate: admission ends with the compare-and-swap, and Closed is
\* reported on an empty registry.
THEOREM ImplementsGate == Spec => GateSafe
<1>1. Init => Gate!Init
    BY Zenon DEF Init, Gate!Init, gateBar, insideBar
<1>2. IInv /\ [Next]_vars => [Gate!Next]_(Gate!gateVars)
    BY GateStep, Zenon
<1>3. QED
    BY <1>1, <1>2, Invariance, PTL DEF Spec, GateSafe, Gate!Safe

=============================================================================
