------------------------------- MODULE Worker -------------------------------
(***************************************************************************)
(* One daemon worker process from serving to exit: RunContext's final      *)
(* select and deferred shutdown (internal/daemon/run.go, runtime.go), the  *)
(* reload and rebind RPCs (internal/daemon/reload.go), and the lifecycle   *)
(* group they all quiesce.  The handover to the replacement is a           *)
(* nondeterministic outcome here; Supervisor models it.                    *)
(*                                                                         *)
(* Quiesce can be called from three places: the reload RPC starts it in    *)
(* the background, the rebind RPC waits for it, and the deferred shutdown  *)
(* always runs it last.                                                    *)
(***************************************************************************)
EXTENDS Group

CONSTANTS
    Shutdown,   \* the Quiesce call of runtimeServices.shutdown
    StoreClose, \* the capture_store.close hook
    Nil

ASSUME WorkerAssumption ==
    /\ Shutdown \in Quiescers
    /\ Nil \notin Quiescers
    /\ StoreClose \in Hooks \ BeforeHooks
    /\ PhaseOf[StoreClose] = 4
    \* The config watcher, the one such member, is attached by the main goroutine.
    /\ CancelNoWait \cap AttachedFirst = {}

VARIABLES
    main,           \* RunContext's goroutine
    grpc,           \* the control server
    rpc,            \* the reload or rebind RPC holding reloadMu
    rebindCall,     \* the Quiesce call a rebind RPC waits for
    reloadDrain,    \* runtimeServices.reloadDrain: whose completion it signals
    ctxDone,        \* SIGTERM, SIGINT or parent cancellation
    failed,         \* an error waits in runtime.errors
    overlapped,     \* history: shutdown quiesced while another call was running
    stream          \* GracefulStop waits for a client of SubscribeProviderStats

mainVars == <<main, grpc, rpc, rebindCall, reloadDrain, ctxDone, failed, overlapped, stream>>
vars == <<attached, gate, inside, fresh, ran, phase, step, todo, draining, expired,
          main, grpc, rpc, rebindCall, reloadDrain, ctxDone, failed, overlapped,
          stream>>

TypeOK ==
    /\ GroupTypeOK
    /\ main \in {"attaching", "select", "graceful", "waitdrain", "shutdown",
                 "quiescing", "exited"}
    /\ grpc \in {"serving", "stopping", "stopped"}
    /\ rpc \in {"none", "reload", "rebind_drain", "rebind_handover"}
    /\ rebindCall \in Quiescers \cup {Nil}
    /\ reloadDrain \in Quiescers \cup {Nil}
    /\ ctxDone \in BOOLEAN
    /\ failed \in BOOLEAN
    /\ overlapped \in BOOLEAN
    /\ stream \in BOOLEAN

Init ==
    /\ GroupInit
    /\ main = "attaching"
    /\ grpc = "serving"
    /\ rpc = "none"
    /\ rebindCall = Nil
    /\ reloadDrain = Nil
    /\ ctxDone = FALSE
    /\ failed = FALSE
    /\ overlapped = FALSE
    /\ stream = FALSE

Others == Quiescers \ {Shutdown}
Alive == main # "exited"

-----------------------------------------------------------------------------
(* The group, driven while the process lives *)

\* The config watcher registers its one session in start, on the main
\* goroutine; cancelLoop only cancels a context, so that session, too, leaves
\* by Release or by force.
Admission(s) ==
    /\ Alive
    /\ MemberOf[s] \in AttachedFirst \/ main = "attaching"
    /\ Register(s)
    /\ UNCHANGED mainVars

Departure(s) ==
    /\ Alive
    /\ Release(s)
    /\ UNCHANGED mainVars

CallStep(q) ==
    /\ Alive
    /\ QuiesceStep(q)
    /\ UNCHANGED mainVars

CapExpires(q) ==
    /\ Alive
    /\ Expire(q)
    /\ UNCHANGED mainVars

-----------------------------------------------------------------------------
(* Reload and rebind RPCs *)

\* grpcServer.GracefulStop refuses new RPCs and waits for those in flight.  A call ends
\* by itself; SubscribeProviderStats sends until its client is gone, and a stream that
\* is open at this moment is one that counts.
GracefulStop ==
    /\ grpc' = IF grpc = "stopped" THEN grpc ELSE "stopping"
    /\ stream' \in IF grpc = "serving" THEN BOOLEAN ELSE {stream}

\* Both RPCs need reloadMu and refuse a worker that was already replaced.
MayReplace ==
    /\ Alive
    /\ grpc = "serving"
    /\ rpc = "none"
    /\ reloadDrain = Nil

ReloadBegin ==
    /\ MayReplace
    /\ rpc' = "reload"
    /\ UNCHANGED <<main, grpc, rebindCall, reloadDrain, ctxDone, failed, overlapped, stream>>
    /\ UNCHANGED groupVars

\* The request was rejected or the replacement never became ready.
ReloadFail ==
    /\ Alive
    /\ rpc = "reload"
    /\ rpc' = "none"
    /\ UNCHANGED <<main, grpc, rebindCall, reloadDrain, ctxDone, failed, overlapped, stream>>
    /\ UNCHANGED groupVars

\* The replacement is ready: drain in the background, stop the control server.
ReloadReady ==
    /\ Alive
    /\ rpc = "reload"
    /\ \E q \in Others : Quiesce(q) /\ reloadDrain' = q
    /\ rpc' = "none"
    /\ GracefulStop
    /\ overlapped' = (overlapped \/ main = "quiescing")
    /\ UNCHANGED <<main, rebindCall, ctxDone, failed>>

\* Rebind drains every surface before it asks for a replacement.
RebindBegin ==
    /\ MayReplace
    /\ \E q \in Others : Quiesce(q) /\ rebindCall' = q
    /\ rpc' = "rebind_drain"
    /\ overlapped' = (overlapped \/ main = "quiescing")
    /\ UNCHANGED <<main, grpc, reloadDrain, ctxDone, failed, stream>>

RebindDrained ==
    /\ Alive
    /\ rpc = "rebind_drain"
    /\ Finished(rebindCall)
    /\ rpc' = "rebind_handover"
    /\ UNCHANGED <<main, grpc, rebindCall, reloadDrain, ctxDone, failed, overlapped, stream>>
    /\ UNCHANGED groupVars

\* A failed rebind leaves reloadDrain unset and the group drained.
RebindFail ==
    /\ Alive
    /\ rpc = "rebind_handover"
    /\ rpc' = "none"
    /\ rebindCall' = Nil
    /\ UNCHANGED <<main, grpc, reloadDrain, ctxDone, failed, overlapped, stream>>
    /\ UNCHANGED groupVars

RebindReady ==
    /\ Alive
    /\ rpc = "rebind_handover"
    /\ rpc' = "none"
    /\ reloadDrain' = rebindCall
    /\ rebindCall' = Nil
    /\ GracefulStop
    /\ UNCHANGED <<main, ctxDone, failed, overlapped>>
    /\ UNCHANGED groupVars

\* The client leaves, or a Send to it fails.
StreamEnds ==
    /\ stream /\ stream' = FALSE
    /\ UNCHANGED <<main, grpc, rpc, rebindCall, reloadDrain, ctxDone, failed, overlapped>>
    /\ UNCHANGED groupVars

\* GracefulStop completes, and Serve returns, once no RPC is in flight.
GrpcStopped ==
    /\ Alive
    /\ grpc = "stopping"
    /\ rpc = "none" /\ ~stream
    /\ grpc' = "stopped"
    /\ UNCHANGED <<main, rpc, rebindCall, reloadDrain, ctxDone, failed, overlapped, stream>>
    /\ UNCHANGED groupVars

-----------------------------------------------------------------------------
(* RunContext *)

Signal ==
    /\ Alive
    /\ ~ctxDone
    /\ ctxDone' = TRUE
    /\ UNCHANGED <<main, grpc, rpc, rebindCall, reloadDrain, failed, overlapped, stream>>
    /\ UNCHANGED groupVars

\* The adapter or a proxy reports a serve error.
RuntimeFails ==
    /\ Alive
    /\ ~failed
    /\ failed' = TRUE
    /\ UNCHANGED <<main, grpc, rpc, rebindCall, reloadDrain, ctxDone, overlapped, stream>>
    /\ UNCHANGED groupVars

\* The control server already serves while the config watcher's registry and
\* the retention hook are being attached.
LateAttach ==
    /\ main = "attaching"
    /\ \E i \in Items : Attach(i)
    /\ UNCHANGED mainVars

MainTo(next) ==
    /\ main' = next
    /\ UNCHANGED <<rpc, rebindCall, reloadDrain, ctxDone, failed, overlapped>>
    /\ UNCHANGED groupVars

MainReady ==
    /\ main = "attaching"
    /\ attached = Items
    /\ MainTo("select")
    /\ UNCHANGED <<grpc, stream>>

MainCtxDone ==
    /\ main = "select"
    /\ ctxDone
    /\ MainTo("graceful")
    /\ GracefulStop

MainGraceful ==
    /\ main = "graceful"
    /\ grpc = "stopped"
    /\ MainTo("shutdown")
    /\ UNCHANGED <<grpc, stream>>

MainGrpcDone ==
    /\ main = "select"
    /\ grpc = "stopped"
    /\ MainTo("waitdrain")
    /\ UNCHANGED <<grpc, stream>>

\* waitReloadDrain, which takes reloadMu.
MainWaitDrain ==
    /\ main = "waitdrain"
    /\ rpc = "none"
    /\ reloadDrain # Nil => Finished(reloadDrain)
    /\ MainTo("shutdown")
    /\ UNCHANGED <<grpc, stream>>

MainRuntimeErr ==
    /\ main = "select"
    /\ failed
    /\ MainTo("shutdown")
    /\ UNCHANGED <<grpc, stream>>

\* The deferred shutdown closes the control listener and quiesces the group.
MainShutdown ==
    /\ main = "shutdown"
    /\ main' = "quiescing"
    /\ grpc' = "stopped"
    /\ Quiesce(Shutdown)
    /\ overlapped' = (overlapped \/ \E q \in Others : InProgress(q))
    /\ UNCHANGED <<rpc, rebindCall, reloadDrain, ctxDone, failed, stream>>

MainExit ==
    /\ main = "quiescing"
    /\ Finished(Shutdown)
    /\ MainTo("exited")
    /\ UNCHANGED <<grpc, stream>>

-----------------------------------------------------------------------------

MainNext ==
    \/ MainReady \/ MainCtxDone \/ MainGraceful \/ MainGrpcDone
    \/ MainWaitDrain \/ MainRuntimeErr \/ MainShutdown \/ MainExit

RpcNext ==
    \/ ReloadFail \/ ReloadReady \/ RebindDrained \/ RebindFail \/ RebindReady
    \/ GrpcStopped

Terminated == main = "exited" /\ UNCHANGED vars

Next ==
    \/ \E s \in Sessions : Admission(s) \/ Departure(s)
    \/ \E q \in Quiescers : CallStep(q) \/ CapExpires(q)
    \/ ReloadBegin \/ RebindBegin \/ StreamEnds \/ RpcNext
    \/ Signal \/ RuntimeFails \/ LateAttach \/ MainNext
    \/ Terminated

Spec == Init /\ [][Next]_vars

(***************************************************************************)
(* Goroutines that can run do run, the Cap timer fires, an RPC's handover  *)
(* ends (it is bounded by the request and readiness timeouts).  Sessions   *)
(* and stats streams may last for ever, and nobody has to call reload or   *)
(* send a signal.                                                          *)
(***************************************************************************)
Fairness ==
    /\ \A q \in Quiescers : WF_vars(CallStep(q)) /\ WF_vars(CapExpires(q))
    /\ WF_vars(RpcNext)
    /\ WF_vars(LateAttach)
    /\ WF_vars(MainNext)

FairSpec == Spec /\ Fairness

-----------------------------------------------------------------------------
(* Properties *)

\* Registries whose sessions the daemon waits for.
Surfaces == {m \in Members \cap AttachedFirst : m \notin CancelNoWait}

\* As long as shutdown does not overtake a drain in progress, a Quiesce call
\* that is past a phase left every registry of that phase finished and empty:
\* egress drains only after ingress, workers after egress, stores last.
PhaseBarrier ==
    ~overlapped =>
        \A q \in Quiescers, m \in Surfaces :
            phase[q] > PhaseOf[m] => gate[m] = "finished" /\ inside[m] = {}

\* The capture store is closed only when no surface has a session left, as
\* runtimeServices.shutdown and addCaptureStoreCloseHook say.
StoreClosedLast ==
    StoreClose \in ran => \A m \in Surfaces : PhaseOf[m] < 4 => inside[m] = {}

\* A worker that exits without overtaking a drain leaves no session behind in
\* any registry, also in those attached while a reload was already draining,
\* and has run every hook: the deferred Quiesce picks up what an earlier one
\* missed.
CleanExit ==
    main = "exited" /\ ~overlapped =>
        /\ attached = Items
        /\ ran = Hooks
        /\ \A m \in Members : inside[m] = {} /\ (m \notin CancelNoWait => gate[m] = "finished")

\* A worker told to stop exits, whatever its sessions, reloads and rebinds do, unless a
\* client never leaves its stats stream: RunContext waits in GracefulStop for it, without
\* a deadline.
StopExits == []<>~stream => (ctxDone ~> main = "exited")
=============================================================================
