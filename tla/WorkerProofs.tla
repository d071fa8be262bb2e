---------------------------- MODULE WorkerProofs ----------------------------
(***************************************************************************)
(* Proofs about Worker, for any members, hooks, sessions and Quiesce       *)
(* calls: the phases are barriers, and the capture store is closed after   *)
(* every surface, unless shutdown overtakes a drain in progress.           *)
(*                                                                         *)
(* The argument: reloadMu and reloadDrain let only one of the reload and   *)
(* rebind drains run at a time (CallInv), so, without an overlap, the call *)
(* that meets a registry being drained is the one draining it, and its     *)
(* wg.Wait covers that drain (BarrierInv, OwnDrain).  The deferred Quiesce *)
(* starts when everything is attached, so the same holds of it for every   *)
(* item, late ones and hooks included (ExitInv), and the exit is clean.    *)
(***************************************************************************)
EXTENDS Worker, TLAPS

\* Which Quiesce calls can be in progress.
CallInv ==
    /\ \A q \in Quiescers : InProgress(q) <=> step[q] # "idle"
    /\ \A q \in Quiescers : draining[q] # {} => step[q] = "drain"
    /\ \A q \in Quiescers : step[q] \in {"before", "drain", "after"} =>
           \A i \in todo[q] : PhaseOf[i] = phase[q]
    /\ InProgress(Shutdown) => main = "quiescing"
    /\ rpc # "none" => reloadDrain = Nil
    /\ \A q \in Others : InProgress(q) =>
           reloadDrain = q \/ (rpc = "rebind_drain" /\ rebindCall = q)
    /\ ~overlapped /\ InProgress(Shutdown) => \A q \in Others : ~InProgress(q)

\* How far the call in progress has got with member m of its phase.
Reached(q, m) ==
    /\ phase[q] > PhaseOf[m] => gate[m] = "finished"
    /\ phase[q] = PhaseOf[m] =>
          /\ step[q] = "before" => m \in todo[q]
          /\ step[q] = "drain" => m \in todo[q] \/ m \in draining[q] \/ gate[m] = "finished"
          /\ step[q] = "after" => gate[m] = "finished"

BarrierInv ==
    /\ AttachedFirst \subseteq attached
    /\ \A m \in Members : gate[m] = "finished" => inside[m] = {}
    /\ \A m \in Members : gate[m] = "shut" => \E q \in Quiescers : m \in draining[q]
    /\ ~overlapped => \A q \in Quiescers, m \in Surfaces : Reached(q, m)
    /\ ~overlapped /\ StoreClose \in ran =>
           \A m \in Surfaces : PhaseOf[m] < 4 => gate[m] = "finished"

IInv == TypeOK /\ CallInv /\ BarrierInv

\* What the deferred Quiesce leaves of an item: a hook that ran, a drained
\* registry, a CancelNoWait registry that lost its sessions.
Done(i) ==
    /\ i \in Hooks => i \in ran
    /\ i \in Members \ CancelNoWait => gate[i] = "finished"
    /\ i \in CancelNoWait => inside[i] = {}

\* How far the deferred Quiesce has got with item i.
Settles(i) ==
    /\ phase[Shutdown] > PhaseOf[i] => Done(i)
    /\ phase[Shutdown] = PhaseOf[i] =>
          /\ step[Shutdown] = "before" => i \in todo[Shutdown] \/ Done(i)
          /\ step[Shutdown] = "drain" =>
                i \in (todo[Shutdown] \ BeforeHooks) \cup draining[Shutdown] \/ Done(i)
          /\ step[Shutdown] = "after" =>
                i \in todo[Shutdown] \ (BeforeHooks \cup Members) \/ Done(i)

\* The deferred Quiesce starts when everything is attached, and nobody joins
\* a CancelNoWait registry after that.
ExitInv ==
    /\ main # "attaching" => attached = Items
    /\ phase[Shutdown] # 0 => main \in {"quiescing", "exited"}
    /\ main = "exited" => Finished(Shutdown)
    /\ ~overlapped => \A i \in Items : Settles(i)

-----------------------------------------------------------------------------
\* Every step keeps the types.
LEMMA TypeStep == TypeOK /\ CallInv /\ [Next]_vars => TypeOK'
<1> SUFFICES ASSUME TypeOK /\ CallInv, [Next]_vars PROVE TypeOK' BY Zenon
<1> USE GroupAssumption, WorkerAssumption
<1>0. UNCHANGED groupVars => GroupTypeOK'
  BY Zenon DEF TypeOK, GroupTypeOK, groupVars
<1> USE DEF TypeOK, GroupTypeOK, Items, Phases, Others, CallInv, InProgress
<1>1. ASSUME NEW s \in Sessions, Admission(s) PROVE TypeOK'
  BY <1>1 DEF Admission, Register, callVars, mainVars
<1>2. ASSUME NEW s \in Sessions, Departure(s) PROVE TypeOK'
  BY <1>2 DEF Departure, Release, callVars, mainVars
<1>3. ASSUME NEW q \in Quiescers, CallStep(q) PROVE TypeOK'
  <2> USE <1>3 DEF CallStep, mainVars, gateVars
  <2>1. CASE PhaseSnapshot(q)
    BY <2>1 DEF PhaseSnapshot, BeforeTodo, DrainTodo, AfterTodo
  <2>2. CASE BeforeDone(q)
    BY <2>2 DEF BeforeDone, BeforeTodo, DrainTodo, AfterTodo
  <2>3. CASE DrainsDone(q)
    BY <2>3 DEF DrainsDone, BeforeTodo, DrainTodo, AfterTodo
  <2>4. CASE PhaseDone(q)
    BY <2>4 DEF PhaseDone, BeforeTodo, DrainTodo, AfterTodo
  <2>5. ASSUME NEW h \in Hooks, RunHook(q, h) PROVE TypeOK'
    BY <2>5 DEF RunHook, BeforeTodo, DrainTodo, AfterTodo
  <2>6. ASSUME NEW m \in Members, ForceCloseNow(q, m) PROVE TypeOK'
    BY <2>6 DEF ForceCloseNow, BeforeTodo, DrainTodo, AfterTodo
  <2>7. ASSUME NEW m \in Members, MemberDrain(q, m) PROVE TypeOK'
    <3>1. GroupTypeOK'
      BY <2>7 DEF MemberDrain
    <3> HIDE DEF GroupTypeOK, CallInv
    <3> QED BY <3>1
  <2>8. ASSUME NEW m \in Members, MemberDrained(q, m) PROVE TypeOK'
    BY <2>8 DEF MemberDrained, BeforeTodo, DrainTodo, AfterTodo
  <2> QED BY <2>1, <2>2, <2>3, <2>4, <2>5, <2>6, <2>7, <2>8, Zenon DEF QuiesceStep
<1>4. ASSUME NEW q \in Quiescers, CapExpires(q) PROVE TypeOK'
  BY <1>4 DEF CapExpires, Expire, mainVars, gateVars
<1>5. CASE ReloadBegin
  BY <1>5, Zenon DEF ReloadBegin, groupVars, MayReplace
<1>6. CASE ReloadFail
  BY <1>6, Zenon DEF ReloadFail, groupVars
<1>7. CASE ReloadReady
  BY <1>7 DEF ReloadReady, GracefulStop, groupVars, Quiesce, gateVars
<1>8. CASE RebindBegin
  BY <1>8 DEF RebindBegin, groupVars, MayReplace, Quiesce, gateVars
<1>9. CASE RebindDrained
  BY <1>9, Zenon DEF RebindDrained, groupVars
<1>10. CASE RebindFail
  BY <1>10, Zenon DEF RebindFail, groupVars
<1>11. CASE RebindReady
  <2>1. grpc' \in {"serving", "stopping", "stopped"} /\ stream' \in BOOLEAN
    BY <1>11 DEF RebindReady, GracefulStop
  <2> QED BY <1>11, <2>1, Zenon DEF RebindReady, groupVars
<1>12. CASE GrpcStopped
  BY <1>12, Zenon DEF GrpcStopped, groupVars
<1>13. CASE Signal
  <2> HIDE DEF GroupTypeOK, CallInv
  <2> QED BY <1>0, <1>13, Zenon DEF Signal
<1>14. CASE RuntimeFails
  BY <1>14 DEF RuntimeFails, groupVars
<1>15. CASE LateAttach
  BY <1>15 DEF LateAttach, groupVars, Attach, callVars, gateVars, mainVars
<1>16. CASE MainReady
  BY <1>16, Zenon DEF MainReady, groupVars, MainTo
<1>17. CASE MainCtxDone
  BY <1>17 DEF MainCtxDone, GracefulStop, groupVars, MainTo
<1>18. CASE MainGraceful
  BY <1>18, Zenon DEF MainGraceful, groupVars, MainTo
<1>19. CASE MainGrpcDone
  BY <1>19, Zenon DEF MainGrpcDone, groupVars, MainTo
<1>20. CASE MainWaitDrain
  BY <1>20, Zenon DEF MainWaitDrain, groupVars, MainTo
<1>21. CASE MainRuntimeErr
  BY <1>21, Zenon DEF MainRuntimeErr, groupVars, MainTo
<1>22. CASE MainShutdown
  BY <1>22 DEF MainShutdown, groupVars, Quiesce, gateVars
<1>23. CASE MainExit
  BY <1>23, Zenon DEF MainExit, groupVars, MainTo
<1>24. CASE StreamEnds
  <2> HIDE DEF GroupTypeOK, CallInv
  <2> QED BY <1>0, <1>24, Zenon DEF StreamEnds
<1>25. CASE UNCHANGED vars
  BY <1>25 DEF vars
<1> QED BY <1>1, <1>2, <1>3, <1>4, <1>5, <1>6, <1>7, <1>8, <1>9, <1>10, <1>11, <1>12, <1>13, <1>14, <1>15, <1>16, <1>17, <1>18, <1>19, <1>20, <1>21, <1>22, <1>23, <1>24, <1>25, Zenon DEF Next, RpcNext, MainNext, Terminated

\* Every step keeps the bookkeeping of Quiesce calls: only one reload or rebind
\* drain at a time, and shutdown alone unless it overlapped one.
LEMMA CallStepInv == TypeOK /\ CallInv /\ [Next]_vars => CallInv'
<1> SUFFICES ASSUME TypeOK /\ CallInv, [Next]_vars PROVE CallInv' BY Zenon
<1> USE GroupAssumption, WorkerAssumption
<1> USE DEF TypeOK, GroupTypeOK, Items, Phases, Others, CallInv, InProgress, Finished
<1>1. ASSUME NEW s \in Sessions, Admission(s) PROVE CallInv'
  BY <1>1, Zenon DEF Admission, Register, callVars, mainVars
<1>2. ASSUME NEW s \in Sessions, Departure(s) PROVE CallInv'
  BY <1>2, Zenon DEF Departure, Release, callVars, mainVars
<1>3. ASSUME NEW q \in Quiescers, CallStep(q) PROVE CallInv'
  <2> USE <1>3 DEF CallStep, mainVars, gateVars
  <2>1. CASE PhaseSnapshot(q)
    BY <2>1 DEF PhaseSnapshot, BeforeTodo, DrainTodo, AfterTodo
  <2>2. CASE BeforeDone(q)
    BY <2>2 DEF BeforeDone, BeforeTodo, DrainTodo, AfterTodo
  <2>3. CASE DrainsDone(q)
    BY <2>3 DEF DrainsDone, BeforeTodo, DrainTodo, AfterTodo
  <2>4. CASE PhaseDone(q)
    BY <2>4 DEF PhaseDone, BeforeTodo, DrainTodo, AfterTodo
  <2>5. ASSUME NEW h \in Hooks, RunHook(q, h) PROVE CallInv'
    BY <2>5 DEF RunHook, BeforeTodo, DrainTodo, AfterTodo
  <2>6. ASSUME NEW m \in Members, ForceCloseNow(q, m) PROVE CallInv'
    BY <2>6 DEF ForceCloseNow, BeforeTodo, DrainTodo, AfterTodo
  <2>7. ASSUME NEW m \in Members, MemberDrain(q, m) PROVE CallInv'
    BY <2>7 DEF MemberDrain, BeforeTodo, DrainTodo, AfterTodo
  <2>8. ASSUME NEW m \in Members, MemberDrained(q, m) PROVE CallInv'
    BY <2>8 DEF MemberDrained, BeforeTodo, DrainTodo, AfterTodo
  <2> QED BY <2>1, <2>2, <2>3, <2>4, <2>5, <2>6, <2>7, <2>8, Zenon DEF QuiesceStep
<1>4. ASSUME NEW q \in Quiescers, CapExpires(q) PROVE CallInv'
  BY <1>4, Zenon DEF CapExpires, Expire, mainVars, gateVars
<1>5. CASE ReloadBegin
  BY <1>5, Zenon DEF ReloadBegin, groupVars, MayReplace
<1>6. CASE ReloadFail
  BY <1>6, Zenon DEF ReloadFail, groupVars
<1>7. CASE ReloadReady
  <2>1. PICK q \in Others : Quiesce(q) /\ reloadDrain' = q
    BY <1>7, Zenon DEF ReloadReady
  <2>2. \A p \in Others : ~InProgress(p)
    BY <1>7 DEF ReloadReady, MayReplace
  <2>3. /\ phase' = [phase EXCEPT ![q] = 1] /\ step' = [step EXCEPT ![q] = "snapshot"]
        /\ UNCHANGED <<todo, draining>> /\ step[q] = "idle" /\ q # Shutdown
    BY <2>1 DEF Quiesce
  <2>a. ~overlapped' => main # "quiescing"
    BY <1>7, Zenon DEF ReloadReady
  <2>b. phase'[Shutdown] = phase[Shutdown]
    BY <2>3
  <2>4. ~overlapped' => ~InProgress(Shutdown)'
    BY <2>a, <2>b, Zenon
  <2>5. \A p \in Quiescers : p # q => phase'[p] = phase[p] /\ step'[p] = step[p]
    BY <2>3
  <2>6. main' = main
    BY <1>7, Zenon DEF ReloadReady
  <2>7. \A p \in Others : InProgress(p)' => p = q
    BY <2>2, <2>5, Zenon
  <2>8. rpc' = "none" /\ reloadDrain' = q
    BY <1>7, <2>1, Zenon DEF ReloadReady, MayReplace
  <2> QED BY <2>1, <2>2, <2>3, <2>4, <2>5, <2>6, <2>7, <2>8
<1>8. CASE RebindBegin
  <2>1. PICK q \in Others : Quiesce(q) /\ rebindCall' = q
    BY <1>8, Zenon DEF RebindBegin
  <2>2. \A p \in Others : ~InProgress(p)
    BY <1>8 DEF RebindBegin, MayReplace
  <2>3. /\ phase' = [phase EXCEPT ![q] = 1] /\ step' = [step EXCEPT ![q] = "snapshot"]
        /\ UNCHANGED <<todo, draining>> /\ step[q] = "idle" /\ q # Shutdown
    BY <2>1 DEF Quiesce
  <2>a. ~overlapped' => main # "quiescing"
    BY <1>8, Zenon DEF RebindBegin
  <2>b. phase'[Shutdown] = phase[Shutdown]
    BY <2>3
  <2>4. ~overlapped' => ~InProgress(Shutdown)'
    BY <2>a, <2>b, Zenon
  <2>5. \A p \in Quiescers : p # q => phase'[p] = phase[p] /\ step'[p] = step[p]
    BY <2>3
  <2>6. main' = main
    BY <1>8, Zenon DEF RebindBegin
  <2>7. \A p \in Others : InProgress(p)' => p = q
    BY <2>2, <2>5, Zenon
  <2>8. rpc' = "rebind_drain" /\ rebindCall' = q /\ reloadDrain' = Nil
    BY <1>8, <2>1, Zenon DEF RebindBegin, MayReplace
  <2> QED BY <2>1, <2>2, <2>3, <2>4, <2>5, <2>6, <2>7, <2>8
<1>9. CASE RebindDrained
  BY <1>9 DEF RebindDrained, groupVars
<1>10. CASE RebindFail
  BY <1>10, Zenon DEF RebindFail, groupVars
<1>11. CASE RebindReady
  BY <1>11 DEF RebindReady, groupVars
<1>12. CASE GrpcStopped
  BY <1>12, Zenon DEF GrpcStopped, groupVars
<1>13. CASE Signal
  BY <1>13, Zenon DEF Signal, groupVars
<1>14. CASE RuntimeFails
  BY <1>14, Zenon DEF RuntimeFails, groupVars
<1>15. CASE LateAttach
  BY <1>15 DEF LateAttach, groupVars, Attach, callVars, gateVars, mainVars
<1>16. CASE MainReady
  BY <1>16, Zenon DEF MainReady, groupVars, MainTo
<1>17. CASE MainCtxDone
  BY <1>17, Zenon DEF MainCtxDone, groupVars, MainTo
<1>18. CASE MainGraceful
  BY <1>18, Zenon DEF MainGraceful, groupVars, MainTo
<1>19. CASE MainGrpcDone
  BY <1>19, Zenon DEF MainGrpcDone, groupVars, MainTo
<1>20. CASE MainWaitDrain
  BY <1>20, Zenon DEF MainWaitDrain, groupVars, MainTo
<1>21. CASE MainRuntimeErr
  BY <1>21, Zenon DEF MainRuntimeErr, groupVars, MainTo
<1>22. CASE MainShutdown
  <2>1. /\ phase' = [phase EXCEPT ![Shutdown] = 1] /\ phase[Shutdown] = 0
        /\ step' = [step EXCEPT ![Shutdown] = "snapshot"]
        /\ UNCHANGED <<todo, draining, rpc, rebindCall, reloadDrain>> /\ main' = "quiescing"
    BY <1>22, Zenon DEF MainShutdown, Quiesce
  <2>2. \A p \in Others : phase'[p] = phase[p] /\ step'[p] = step[p]
    BY <2>1
  <2>3. ~overlapped' => \A p \in Others : ~InProgress(p)
    BY <1>22, Zenon DEF MainShutdown
  <2>4. ~overlapped' => \A p \in Others : ~InProgress(p)'
    BY <2>2, <2>3, Zenon
  <2> QED BY <2>1, <2>2, <2>4
<1>23. CASE MainExit
  BY <1>23 DEF MainExit, groupVars, MainTo
<1>24. CASE StreamEnds
  BY <1>24, Zenon DEF StreamEnds, groupVars
<1>25. CASE UNCHANGED vars
  BY <1>25, Zenon DEF vars
<1> QED BY <1>1, <1>2, <1>3, <1>4, <1>5, <1>6, <1>7, <1>8, <1>9, <1>10, <1>11, <1>12, <1>13, <1>14, <1>15, <1>16, <1>17, <1>18, <1>19, <1>20, <1>21, <1>22, <1>23, <1>24, <1>25, Zenon DEF Next, RpcNext, MainNext, Terminated

\* Without an overlap, a call that meets a registry being drained is the call
\* that drains it.
LEMMA OwnDrain ==
  ASSUME IInv, ~overlapped, NEW q \in Quiescers, InProgress(q), NEW m \in Members, gate[m] = "shut"
  PROVE  m \in draining[q]
<1>1. PICK r \in Quiescers : m \in draining[r]
  BY Zenon DEF IInv, BarrierInv
<1>2. InProgress(r)
  BY <1>1, Zenon DEF IInv, CallInv
<1>3. \A p \in Others : InProgress(p) => ~InProgress(Shutdown)
  BY Zenon DEF IInv, CallInv
<1>4. \A p1, p2 \in Others : InProgress(p1) /\ InProgress(p2) => p1 = p2
  BY WorkerAssumption DEF IInv, CallInv, Others
<1>5. r = q
  BY <1>2, <1>3, <1>4, Zenon DEF Others
<1> QED  BY <1>1, <1>5, Zenon

\* Every step keeps each registry at or before the point its call has reached.
LEMMA BarrierStep == IInv /\ [Next]_vars => BarrierInv'
<1> SUFFICES ASSUME IInv, [Next]_vars PROVE BarrierInv' BY Zenon
<1> USE GroupAssumption, WorkerAssumption
<1> USE DEF TypeOK, GroupTypeOK, Items, Phases, Others, IInv, CallInv, BarrierInv, InProgress, Finished, Reached, Surfaces
<1>1. ASSUME NEW s \in Sessions, Admission(s) PROVE BarrierInv'
  BY <1>1 DEF Admission, Register, callVars, mainVars
<1>2. ASSUME NEW s \in Sessions, Departure(s) PROVE BarrierInv'
  BY <1>2 DEF Departure, Release, callVars, mainVars
<1>3. ASSUME NEW q \in Quiescers, CallStep(q) PROVE BarrierInv'
  <2> USE <1>3 DEF CallStep, mainVars, gateVars
  <2>1. CASE PhaseSnapshot(q)
    BY <2>1 DEF PhaseSnapshot, BeforeTodo, DrainTodo, AfterTodo
  <2>2. CASE BeforeDone(q)
    BY <2>2 DEF BeforeDone, BeforeTodo, DrainTodo, AfterTodo
  <2>3. CASE DrainsDone(q)
    BY <2>3 DEF DrainsDone, BeforeTodo, DrainTodo, AfterTodo
  <2>4. CASE PhaseDone(q)
    BY <2>4 DEF PhaseDone, BeforeTodo, DrainTodo, AfterTodo
  <2>5. ASSUME NEW h \in Hooks, RunHook(q, h) PROVE BarrierInv'
    BY <2>5 DEF RunHook, BeforeTodo, DrainTodo, AfterTodo
  <2>6. ASSUME NEW m \in Members, ForceCloseNow(q, m) PROVE BarrierInv'
    BY <2>6 DEF ForceCloseNow, BeforeTodo, DrainTodo, AfterTodo
  <2>7. ASSUME NEW m \in Members, MemberDrain(q, m) PROVE BarrierInv'
    <3> USE <2>7 DEF MemberDrain, BeforeTodo, DrainTodo, AfterTodo
    <3>1. AttachedFirst \subseteq attached'
      BY Zenon
    <3>2. \A n \in Members : gate'[n] = "finished" => inside'[n] = {}
      OBVIOUS
    <3>3. \A n \in Members : gate'[n] = "shut" => \E r \in Quiescers : n \in draining'[r]
      OBVIOUS
    <3>4. ASSUME ~overlapped', NEW r \in Quiescers, NEW n \in Surfaces PROVE Reached(r, n)'
      <4>1. /\ UNCHANGED <<phase, step>> /\ Reached(r, n) /\ n \in Members
            /\ gate[n] = "finished" => gate'[n] = "finished"
            /\ draining[r] \subseteq draining'[r]
            /\ todo'[r] = todo[r] \/ (r = q /\ todo'[r] = todo[r] \ {m})
        BY <3>4
      <4>2. r = q /\ n = m => n \in draining'[r] \/ gate'[n] = "finished"
        BY <3>4, OwnDrain
      <4> HIDE <2>7, <1>3 DEF TypeOK, GroupTypeOK, IInv, CallInv, BarrierInv, CallStep, MemberDrain
      <4> QED  BY <2>7, <4>1, <4>2, Zenon DEF MemberDrain
    <3>5. ~overlapped' /\ StoreClose \in ran' =>
              \A n \in Surfaces : PhaseOf[n] < 4 => gate'[n] = "finished"
      OBVIOUS
    <3> QED BY <3>1, <3>2, <3>3, <3>4, <3>5, Zenon
  <2>8. ASSUME NEW m \in Members, MemberDrained(q, m) PROVE BarrierInv'
    <3> USE <2>8 DEF MemberDrained, BeforeTodo, DrainTodo, AfterTodo
    <3>1. AttachedFirst \subseteq attached'
      BY Zenon
    <3>2. \A n \in Members : gate'[n] = "finished" => inside'[n] = {}
      OBVIOUS
    <3>3. \A n \in Members : gate'[n] = "shut" => \E r \in Quiescers : n \in draining'[r]
      OBVIOUS
    <3>4. ASSUME ~overlapped', NEW r \in Quiescers, NEW n \in Surfaces PROVE Reached(r, n)'
      BY <3>4
    <3>5. ~overlapped' /\ StoreClose \in ran' =>
              \A n \in Surfaces : PhaseOf[n] < 4 => gate'[n] = "finished"
      OBVIOUS
    <3> QED BY <3>1, <3>2, <3>3, <3>4, <3>5, Zenon
  <2> QED BY <2>1, <2>2, <2>3, <2>4, <2>5, <2>6, <2>7, <2>8, Zenon DEF QuiesceStep
<1>4. ASSUME NEW q \in Quiescers, CapExpires(q) PROVE BarrierInv'
  <2>1. UNCHANGED <<attached, gate, inside, ran, phase, step, todo, draining, overlapped>>
    BY <1>4, Zenon DEF CapExpires, Expire, mainVars, gateVars
  <2> QED BY <2>1
<1>5. CASE ReloadBegin
  BY <1>5 DEF ReloadBegin, groupVars, MayReplace
<1>6. CASE ReloadFail
  BY <1>6 DEF ReloadFail, groupVars
<1>7. CASE ReloadReady
  BY <1>7 DEF ReloadReady, groupVars, Quiesce, gateVars
<1>8. CASE RebindBegin
  BY <1>8 DEF RebindBegin, groupVars, MayReplace, Quiesce, gateVars
<1>9. CASE RebindDrained
  BY <1>9 DEF RebindDrained, groupVars
<1>10. CASE RebindFail
  BY <1>10 DEF RebindFail, groupVars
<1>11. CASE RebindReady
  BY <1>11 DEF RebindReady, groupVars
<1>12. CASE GrpcStopped
  BY <1>12 DEF GrpcStopped, groupVars
<1>13. CASE Signal
  BY <1>13 DEF Signal, groupVars
<1>14. CASE RuntimeFails
  BY <1>14 DEF RuntimeFails, groupVars
<1>15. CASE LateAttach
  BY <1>15 DEF LateAttach, groupVars, Attach, callVars, gateVars, mainVars
<1>16. CASE MainReady
  BY <1>16 DEF MainReady, groupVars, MainTo
<1>17. CASE MainCtxDone
  BY <1>17 DEF MainCtxDone, groupVars, MainTo
<1>18. CASE MainGraceful
  BY <1>18 DEF MainGraceful, groupVars, MainTo
<1>19. CASE MainGrpcDone
  BY <1>19 DEF MainGrpcDone, groupVars, MainTo
<1>20. CASE MainWaitDrain
  BY <1>20 DEF MainWaitDrain, groupVars, MainTo
<1>21. CASE MainRuntimeErr
  BY <1>21 DEF MainRuntimeErr, groupVars, MainTo
<1>22. CASE MainShutdown
  BY <1>22 DEF MainShutdown, groupVars, Quiesce, gateVars
<1>23. CASE MainExit
  BY <1>23 DEF MainExit, groupVars, MainTo
<1>24. CASE StreamEnds
  BY <1>24 DEF StreamEnds, groupVars
<1>25. CASE UNCHANGED vars
  BY <1>25 DEF vars
<1> QED BY <1>1, <1>2, <1>3, <1>4, <1>5, <1>6, <1>7, <1>8, <1>9, <1>10, <1>11, <1>12, <1>13, <1>14, <1>15, <1>16, <1>17, <1>18, <1>19, <1>20, <1>21, <1>22, <1>23, <1>24, <1>25, Zenon DEF Next, RpcNext, MainNext, Terminated

\* Every step keeps each item at or before the point the deferred Quiesce has
\* reached.
LEMMA ExitStep == IInv /\ ExitInv /\ [Next]_vars => ExitInv'
<1> SUFFICES ASSUME IInv, ExitInv, [Next]_vars PROVE ExitInv'  BY Zenon
<1> USE GroupAssumption, WorkerAssumption
<1> DEFINE Kept == UNCHANGED <<phase[Shutdown], step[Shutdown], todo[Shutdown], draining[Shutdown]>>
<1>a. ASSUME NEW i \in Items, Kept, Settles(i), Done(i) => Done(i)' PROVE Settles(i)'
  BY <1>a, Zenon DEF Settles
<1>1. ASSUME NEW s \in Sessions, Admission(s) PROVE ExitInv'
  <2>1. /\ UNCHANGED <<attached, gate, ran, phase, step, todo, draining, main, overlapped>>
        /\ inside' = [inside EXCEPT ![MemberOf[s]] = @ \cup {s}]
        /\ MemberOf[s] \in AttachedFirst \/ main = "attaching"
    BY <1>1, Zenon DEF Admission, Register, callVars, mainVars
  <2>2. CASE main = "attaching"
    <3>1. phase[Shutdown] = 0
      BY <2>2, Zenon DEF ExitInv
    <3>2. \A i \in Items : Settles(i)'
      BY <2>1, <3>1 DEF Settles, Phases
    <3> QED  BY <2>1, <3>2, Zenon DEF ExitInv, Finished
  <2>3. CASE main # "attaching"
    <3>1. \A i \in Items : Done(i) => Done(i)'
      BY <2>1, <2>3, Zenon DEF Done, IInv, TypeOK, GroupTypeOK
    <3>2. \A i \in Items : Settles(i) => Settles(i)'
      BY <1>a, <2>1, <3>1, Zenon
    <3> QED  BY <2>1, <3>2, Zenon DEF ExitInv, Finished
  <2> QED  BY <2>2, <2>3, Zenon
<1>2. ASSUME NEW s \in Sessions, Departure(s) PROVE ExitInv'
  <2>1. /\ UNCHANGED <<attached, gate, ran, phase, step, todo, draining, main, overlapped>>
        /\ inside' = [inside EXCEPT ![MemberOf[s]] = @ \ {s}]
    BY <1>2, Zenon DEF Departure, Release, callVars, mainVars
  <2>2. \A i \in Items : Done(i) => Done(i)'
    BY <2>1, Zenon DEF Done, IInv, TypeOK, GroupTypeOK
  <2>3. \A i \in Items : Settles(i) => Settles(i)'
    BY <1>a, <2>1, <2>2, Zenon
  <2> QED  BY <2>1, <2>3, Zenon DEF ExitInv, Finished
<1>3. ASSUME NEW q \in Quiescers, CallStep(q) PROVE ExitInv'
  <2>0. UNCHANGED <<attached, main, overlapped>> /\ main # "exited"
    BY <1>3, Zenon DEF CallStep, mainVars, Alive, QuiesceStep, PhaseSnapshot, BeforeDone, DrainsDone,
       PhaseDone, RunHook, ForceCloseNow, MemberDrain, MemberDrained
  <2>1. \A i \in Items : Done(i) => Done(i)'
    <3>1. \/ UNCHANGED <<ran, gate, inside>>
          \/ \E h \in Hooks : RunHook(q, h)
          \/ \E m \in Members : ForceCloseNow(q, m) \/ MemberDrain(q, m) \/ MemberDrained(q, m)
      BY <1>3, Zenon DEF CallStep, QuiesceStep, PhaseSnapshot, BeforeDone, DrainsDone, PhaseDone, gateVars
    <3> USE DEF Done, IInv, TypeOK, GroupTypeOK
    <3>2. CASE UNCHANGED <<ran, gate, inside>>
      BY <3>2, Zenon
    <3>3. ASSUME NEW h \in Hooks, RunHook(q, h) PROVE \A i \in Items : Done(i) => Done(i)'
      BY <3>3, Zenon DEF RunHook, gateVars
    <3>4. ASSUME NEW m \in Members, ForceCloseNow(q, m) PROVE \A i \in Items : Done(i) => Done(i)'
      BY <3>4, Zenon DEF ForceCloseNow
    <3>5. ASSUME NEW m \in Members, MemberDrain(q, m) PROVE \A i \in Items : Done(i) => Done(i)'
      BY <3>5 DEF MemberDrain, DrainTodo
    <3>6. ASSUME NEW m \in Members, MemberDrained(q, m) PROVE \A i \in Items : Done(i) => Done(i)'
      BY <3>6, Zenon DEF MemberDrained
    <3> QED  BY <3>1, <3>2, <3>3, <3>4, <3>5, <3>6, Zenon
  <2>2. phase'[Shutdown] # 0 => phase[Shutdown] # 0
    BY <1>3 DEF CallStep, QuiesceStep, PhaseSnapshot, BeforeDone, DrainsDone, PhaseDone, RunHook,
       ForceCloseNow, MemberDrain, MemberDrained, IInv, CallInv, InProgress, Phases, TypeOK, GroupTypeOK
  <2>3. ~overlapped => \A i \in Items : Settles(i)'
    <3>1. CASE q # Shutdown
      <4>1. Kept
        BY <1>3, <3>1 DEF CallStep, QuiesceStep, PhaseSnapshot, BeforeDone, DrainsDone, PhaseDone,
           RunHook, ForceCloseNow, MemberDrain, MemberDrained, IInv, TypeOK, GroupTypeOK
      <4> QED  BY <1>a, <2>1, <4>1, Zenon DEF ExitInv
    <3>2. CASE q = Shutdown
      <4> USE <3>2
      <4> SUFFICES ASSUME NEW i \in Items, ~overlapped, Settles(i) PROVE Settles(i)'
        BY Zenon DEF ExitInv
      <4>p. step[Shutdown] # "idle" /\ phase[Shutdown] \in Phases /\ attached = Items
        BY <1>3, Zenon DEF CallStep, QuiesceStep, PhaseSnapshot, BeforeDone, DrainsDone, PhaseDone, RunHook,
           ForceCloseNow, MemberDrain, MemberDrained, IInv, CallInv, InProgress, ExitInv
      <4> USE DEF IInv, TypeOK, GroupTypeOK
      <4>1. CASE PhaseSnapshot(q)
        BY <2>1, <4>1, <4>p, Zenon DEF PhaseSnapshot, Settles, Phases
      <4>2. CASE BeforeDone(q)
        BY <2>1, <4>2, <4>p, Zenon DEF BeforeDone, BeforeTodo, Settles, Phases
      <4>3. CASE DrainsDone(q)
        BY <2>1, <4>3, <4>p, Zenon DEF DrainsDone, DrainTodo, Settles, Phases
      <4>4. CASE PhaseDone(q)
        BY <2>1, <4>4, <4>p DEF PhaseDone, AfterTodo, Settles, Phases, Items
      <4>5. ASSUME NEW h \in Hooks, RunHook(q, h) PROVE Settles(i)'
        <5>1. i = h => Done(i)'
          BY <4>5, Zenon DEF RunHook, Done
        <5> QED  BY <2>1, <4>5, <4>p, <5>1, Zenon DEF RunHook, Settles
      <4>6. ASSUME NEW m \in Members, ForceCloseNow(q, m) PROVE Settles(i)'
        <5>1. i = m => Done(i)'
          BY <4>6, Zenon DEF ForceCloseNow, Done
        <5> QED  BY <2>1, <4>6, <4>p, <5>1, Zenon DEF ForceCloseNow, Settles
      <4>7. ASSUME NEW m \in Members, MemberDrain(q, m) PROVE Settles(i)'
        <5>1. i = m => i \in draining'[Shutdown] \/ Done(i)'
          <6>1. CASE gate[m] = "open"
            BY <4>7, <6>1 DEF MemberDrain
          <6>2. CASE gate[m] = "shut"
            BY <4>7, <4>p, <6>2, OwnDrain DEF MemberDrain, InProgress
          <6>3. CASE gate[m] = "finished"
            BY <4>7, <6>3, Zenon DEF MemberDrain, Done, DrainTodo
          <6> QED  BY <6>1, <6>2, <6>3, Zenon
        <5>2. draining[Shutdown] \subseteq draining'[Shutdown]
          BY <4>7 DEF MemberDrain
        <5> QED  BY <2>1, <4>7, <4>p, <5>1, <5>2, Zenon DEF MemberDrain, Settles
      <4>8. ASSUME NEW m \in Members, MemberDrained(q, m) PROVE Settles(i)'
        <5>1. i = m => Done(i)'
          BY <4>8, Zenon DEF MemberDrained, Done
        <5> QED  BY <2>1, <4>8, <4>p, <5>1, Zenon DEF MemberDrained, Settles
      <4> QED  BY <1>3, <4>1, <4>2, <4>3, <4>4, <4>5, <4>6, <4>7, <4>8, Zenon
               DEF CallStep, QuiesceStep
    <3> QED  BY <3>1, <3>2, Zenon
  <2> QED  BY <2>0, <2>2, <2>3, Zenon DEF ExitInv
<1>4. ASSUME UNCHANGED <<attached, gate, inside, ran, todo, draining, main>>,
             Kept, overlapped => overlapped'
      PROVE  ExitInv'
  <2>1. \A i \in Items : Done(i)' <=> Done(i)
    BY <1>4, Zenon DEF Done
  <2> QED  BY <1>4, <1>a, <2>1, Zenon DEF ExitInv, Finished
<1>5. ASSUME NEW q \in Quiescers, CapExpires(q) PROVE ExitInv'
  BY <1>4, <1>5, Zenon DEF CapExpires, Expire, mainVars, gateVars
<1>6. CASE \/ ReloadBegin \/ ReloadFail \/ RebindDrained \/ RebindFail \/ RebindReady
           \/ GrpcStopped \/ StreamEnds \/ Signal \/ RuntimeFails \/ UNCHANGED vars
  <2>1. UNCHANGED <<attached, gate, inside, ran, phase, step, todo, draining, main, overlapped>>
    BY <1>6, Zenon DEF ReloadBegin, ReloadFail, RebindDrained, RebindFail, RebindReady, GrpcStopped,
       StreamEnds, Signal, RuntimeFails, vars, groupVars
  <2> QED  BY <1>4, <2>1, Zenon
<1>7. CASE ReloadReady \/ RebindBegin
  <2>1. PICK q \in Others : Quiesce(q)
    BY <1>7, Zenon DEF ReloadReady, RebindBegin
  <2>2. Kept
    BY <2>1, Zenon DEF Quiesce, Others, IInv, TypeOK, GroupTypeOK
  <2> QED  BY <1>4, <1>7, <2>1, <2>2, Zenon DEF ReloadReady, RebindBegin, Quiesce, gateVars
<1>8. CASE LateAttach
  <2>1. /\ UNCHANGED <<main, phase, overlapped>> /\ main = "attaching"
    BY <1>8, Zenon DEF LateAttach, Attach, mainVars, callVars
  <2>2. phase[Shutdown] = 0
    BY <2>1, Zenon DEF ExitInv
  <2>3. \A i \in Items : Settles(i)'
    BY <2>1, <2>2 DEF Settles, Phases
  <2> QED  BY <2>1, <2>2, <2>3, Zenon DEF ExitInv
<1>9. ASSUME NEW next, MainTo(next), next # "exited" \/ Finished(Shutdown), next # "attaching",
             main \in {"quiescing", "exited"} => next = "exited", main = "attaching" => attached = Items
      PROVE  ExitInv'
  <2>1. /\ UNCHANGED <<attached, gate, inside, ran, phase, step, todo, draining, overlapped>>
        /\ main' = next
    BY <1>9, Zenon DEF MainTo, groupVars
  <2>2. \A i \in Items : Settles(i)' <=> Settles(i)
    BY <2>1, Zenon DEF Settles, Done
  <2> QED  BY <1>9, <2>1, <2>2, Zenon DEF ExitInv, Finished
<1>10. CASE \/ MainReady \/ MainCtxDone \/ MainGraceful \/ MainGrpcDone
            \/ MainWaitDrain \/ MainRuntimeErr \/ MainExit
  BY <1>9, <1>10, Zenon DEF MainReady, MainCtxDone, MainGraceful, MainGrpcDone, MainWaitDrain,
     MainRuntimeErr, MainExit
<1>11. CASE MainShutdown
  <2>1. /\ phase' = [phase EXCEPT ![Shutdown] = 1] /\ step' = [step EXCEPT ![Shutdown] = "snapshot"]
        /\ main' = "quiescing" /\ main = "shutdown" /\ attached' = attached
    BY <1>11, Zenon DEF MainShutdown, Quiesce
  <2>2. phase'[Shutdown] = 1 /\ step'[Shutdown] = "snapshot"
    BY <2>1, Zenon DEF IInv, TypeOK, GroupTypeOK
  <2>3. \A i \in Items : Settles(i)'
    BY <2>2 DEF Settles, Phases
  <2> QED  BY <2>1, <2>3, Zenon DEF ExitInv
<1> QED  BY <1>1, <1>2, <1>3, <1>5, <1>6, <1>7, <1>8, <1>10, <1>11, Zenon
         DEF Next, RpcNext, MainNext, Terminated

-----------------------------------------------------------------------------

\* IInv holds in every reachable state.
THEOREM Invariance == Spec => []IInv
<1>1. Init => IInv
  <2> SUFFICES ASSUME Init PROVE IInv BY Zenon
  <2> USE GroupAssumption, WorkerAssumption DEF Init, GroupInit
  <2>0. GroupTypeOK
    BY DEF GroupTypeOK, Items
  <2>1. TypeOK
    BY <2>0, Zenon DEF TypeOK
  <2>2. CallInv
    BY DEF CallInv, InProgress, Phases, Others
  <2>3. \A q \in Quiescers, m \in Surfaces : Reached(q, m)
    BY DEF Reached, Surfaces, Items, Phases
  <2>4. BarrierInv
    BY <2>3, Zenon DEF BarrierInv
  <2> QED BY <2>1, <2>2, <2>4, Zenon DEF IInv
<1>2. IInv /\ [Next]_vars => IInv'
  BY TypeStep, CallStepInv, BarrierStep, Zenon DEF IInv
<1> QED BY <1>1, <1>2, PTL DEF Spec

\* The worker's state keeps its types; in particular no Quiesce call runs past
\* the storage phase.
THEOREM TypeCorrect == Spec => []TypeOK
<1>1. IInv => TypeOK BY Zenon DEF IInv
<1> QED BY <1>1, Invariance, PTL

\* Phases are barriers for any number of registries, sessions, reloads and
\* rebinds, unless shutdown overtakes a drain in progress.
THEOREM PhasesAreBarriers == Spec => []PhaseBarrier
<1>1. IInv => PhaseBarrier
  BY Zenon DEF IInv, BarrierInv, PhaseBarrier, Reached, Surfaces
<1> QED BY <1>1, Invariance, PTL

\* Without such an overlap the capture store is closed only when no ingress,
\* egress or worker registry has a session left.
THEOREM StoreClosesLast == Spec => [](~overlapped => StoreClosedLast)
<1>1. IInv => (~overlapped => StoreClosedLast)
  BY Zenon DEF IInv, BarrierInv, StoreClosedLast, Surfaces
<1> QED BY <1>1, Invariance, PTL

\* A worker that exits without overtaking a drain leaves no session behind and
\* has run every hook, for any registries, hooks, reloads and rebinds.
THEOREM ExitsClean == Spec => []CleanExit
<1>1. Init => ExitInv
  BY GroupAssumption, WorkerAssumption DEF Init, GroupInit, ExitInv, Settles, Phases
<1>2. IInv /\ ExitInv => CleanExit
  <2> SUFFICES ASSUME IInv, ExitInv, main = "exited", ~overlapped
               PROVE  CleanExit!2
    BY Zenon DEF CleanExit
  <2>1. \A i \in Items : Done(i)
    BY GroupAssumption DEF ExitInv, Settles, Finished, Phases
  <2> QED  BY <2>1, GroupAssumption, Zenon DEF Done, Items, ExitInv, IInv, BarrierInv, TypeOK, GroupTypeOK
<1> QED  BY <1>1, <1>2, Invariance, ExitStep, PTL DEF Spec
=============================================================================
