----------------------------- MODULE Supervisor -----------------------------
(***************************************************************************)
(* internal/daemonsupervisor/supervisor.go and the workers' side of a      *)
(* handover (internal/daemon/reload.go).                                   *)
(*                                                                         *)
(* The supervisor starts one worker, waits for its readiness and then      *)
(* loops over signals, replacements, aborts and the exit of the current    *)
(* worker.  Every control request has a handler goroutine of its own.  A   *)
(* worker that is asked to reload requests a replacement, waits for its    *)
(* readiness and then drains, or has it aborted.  A rebind drains before   *)
(* the request and never aborts.                                           *)
(*                                                                         *)
(* A worker's exit status is sent once, on a channel with one slot: whoever*)
(* receives it takes it away from everybody else.                          *)
(***************************************************************************)
EXTENDS Naturals, Sequences

CONSTANTS
    Workers,    \* worker processes that can be started
    First,      \* the one the supervisor boots with
    None

ASSUME SupervisorAssumption == First \in Workers /\ None \notin Workers

VARIABLES
    proc,       \* worker processes
    exitCh,     \* each workerHandle's waitCh
    announced,  \* workers that wrote "ready\n" to their readiness pipe
    signalled,  \* workers that were sent a stop signal
    drained,    \* workers whose surfaces a rebind has drained
    duty,       \* what each worker's reload or rebind RPC is doing
    child,      \* the replacement that RPC is about
    rebinding,  \* workers whose RPC is a rebind
    sup,        \* the supervisor's main goroutine
    target,     \* the worker its stopWorker call is stopping
    current, superseded,    \* runSupervisorLoop's variables, the slice as a set
    rank,       \* orders superseded: a worker that becomes current ranks highest
    waiter,     \* waitForWorkerReady's goroutine: its result once it has one
    handler,    \* the control handler that started each worker
    offers,     \* handles that handlers wait to send on replacementCh
    aborts,     \* replacements that abort handlers offer on abortCh
    stop,       \* a signal arrived or ctx was cancelled
    controlFailed,  \* serveControl's accept failed
    crashed     \* history: states in which some worker exited unasked

procVars == <<proc, exitCh, announced, signalled, drained, crashed>>
rpcVars == <<duty, child, rebinding>>
supVars == <<sup, target, current, superseded, rank, waiter, offers>>
envVars == <<stop, controlFailed>>
vars == <<proc, exitCh, announced, signalled, drained, crashed, duty, child, rebinding,
          sup, target, current, superseded, rank, waiter, offers, handler, aborts, stop,
          controlFailed>>

\* Program points inside stopWorker, by caller.
Stopping == {"bootstop", "stopcurrent", "abortstop", "unwindstop"}

TypeOK ==
    /\ proc \in [Workers -> {"none", "starting", "ready", "dead"}]
    /\ exitCh \in [Workers -> {"empty", "full", "taken"}]
    /\ announced \subseteq Workers
    /\ signalled \subseteq Workers
    /\ drained \subseteq Workers
    /\ duty \in [Workers -> {"idle", "requesting", "waiting", "aborting", "replaced"}]
    /\ child \in [Workers -> Workers \cup {None}]
    /\ rebinding \subseteq Workers
    /\ sup \in Stopping \cup {"boot", "loop", "unwinding", "returned", "exited"}
    /\ target \in Workers \cup {None}
    /\ current \in Workers
    /\ superseded \subseteq Workers
    /\ rank \in [Workers -> Nat]
    /\ waiter \in {"waiting", "ready", "exited", "failed", "consumed"}
    /\ handler \in [Workers -> {"none", "offering", "accepted", "stopping", "done"}]
    /\ offers \in Seq(Workers)
    /\ aborts \subseteq Workers
    /\ stop \in BOOLEAN
    /\ controlFailed \in BOOLEAN
    /\ crashed \subseteq {"starting", "ready"}

Init ==
    /\ proc = [w \in Workers |-> IF w = First THEN "starting" ELSE "none"]
    /\ exitCh = [w \in Workers |-> "empty"]
    /\ announced = {}
    /\ signalled = {}
    /\ drained = {}
    /\ duty = [w \in Workers |-> "idle"]
    /\ child = [w \in Workers |-> None]
    /\ rebinding = {}
    /\ sup = "boot"
    /\ target = None
    /\ current = First
    /\ superseded = {}
    /\ rank = [w \in Workers |-> 0]
    /\ waiter = "waiting"
    /\ handler = [w \in Workers |-> "none"]
    /\ offers = <<>>
    /\ aborts = {}
    /\ stop = FALSE
    /\ controlFailed = FALSE
    /\ crashed = {}

Up == sup # "exited"
Alive(w) == proc[w] \in {"starting", "ready"}

-----------------------------------------------------------------------------
(* Worker processes *)

\* The RPC of a worker ends; so does the interest in its replacement.
EndRpc(w, outcome) ==
    /\ duty' = [duty EXCEPT ![w] = outcome]
    /\ child' = [child EXCEPT ![w] = None]
    /\ rebinding' = rebinding \ {w}

\* The process ends and cmd.Wait's goroutine posts its exit status.  A request
\* it sent but nobody has read yet stays in the socket.
Dies(w) ==
    /\ Alive(w)
    /\ proc' = [proc EXCEPT ![w] = "dead"]
    /\ exitCh' = [exitCh EXCEPT ![w] = "full"]
    /\ IF duty[w] = "requesting" /\ child[w] = None
       THEN UNCHANGED rpcVars
       ELSE EndRpc(w, "idle")

\* The read end of a worker's readiness pipe is open: the supervisor keeps that of the
\* first worker, the RPC that asked for any other one closes it when it returns.
Heard(w) == w = First \/ \E u \in Workers : child[u] = w /\ Alive(u)

\* signalReady.
BecomeReady(w) ==
    /\ Up
    /\ proc[w] = "starting"
    /\ Heard(w)
    /\ proc' = [proc EXCEPT ![w] = "ready"]
    /\ announced' = announced \cup {w}
    /\ UNCHANGED <<exitCh, signalled, drained, crashed, handler, aborts>>
    /\ UNCHANGED <<rpcVars, supVars, envVars>>

\* It comes too late: the write fails, RunContext returns the error and the worker exits.
ReadyTooLate(w) ==
    /\ Up
    /\ proc[w] = "starting"
    /\ ~Heard(w)
    /\ Dies(w)
    /\ UNCHANGED <<announced, signalled, drained, crashed, handler, aborts>>
    /\ UNCHANGED <<supVars, envVars>>

\* A worker exits after a stop signal, or after its drain once replaced.
ExitAsked(w) ==
    /\ Up
    /\ w \in signalled \/ duty[w] = "replaced"
    /\ Dies(w)
    /\ UNCHANGED <<announced, signalled, drained, crashed, handler, aborts>>
    /\ UNCHANGED <<supVars, envVars>>

\* A worker fails to start, crashes or ends with a runtime error; one such
\* exit per behaviour is the bound here.
Crash(w) ==
    /\ Up
    /\ Dies(w)
    /\ crashed = {}
    /\ crashed' = {proc[w]}
    /\ UNCHANGED <<announced, signalled, drained, handler, aborts>>
    /\ UNCHANGED <<supVars, envVars>>

-----------------------------------------------------------------------------
(* Reload and rebind RPCs in a worker *)

\* RequestReplacement, or RequestRebind once the surfaces have drained.
Request(w, rebind) ==
    /\ Up
    /\ proc[w] = "ready"
    /\ duty[w] = "idle"
    /\ duty' = [duty EXCEPT ![w] = "requesting"]
    /\ drained' = IF rebind THEN drained \cup {w} ELSE drained
    /\ rebinding' = IF rebind THEN rebinding \cup {w} ELSE rebinding
    /\ UNCHANGED <<proc, exitCh, announced, signalled, crashed, child, handler, aborts>>
    /\ UNCHANGED <<supVars, envVars>>

\* requestTimeout, a refused connection or a failed start: no abort is sent,
\* whether or not the supervisor goes on with the request.
RequestFails(w) ==
    /\ Up
    /\ proc[w] = "ready"
    /\ duty[w] = "requesting"
    /\ EndRpc(w, "idle")
    /\ UNCHANGED <<procVars, supVars, envVars, handler, aborts>>

\* Mutant: the worker drains as soon as the replacement was started.
HandOver_Early(w) ==
    /\ Up
    /\ proc[w] = "ready"
    /\ duty[w] = "waiting"
    /\ EndRpc(w, "replaced")
    /\ UNCHANGED <<procVars, supVars, envVars, handler, aborts>>

\* waitForReplacementDaemon reads "ready\n": this generation drains from now on.
HandOver(w) ==
    /\ Up
    /\ proc[w] = "ready"
    /\ duty[w] = "waiting"
    /\ child[w] \in announced
    /\ EndRpc(w, "replaced")
    /\ UNCHANGED <<procVars, supVars, envVars, handler, aborts>>

\* Mutant: the abort request is sent without the replacement's pid.
NotReady_NoPid(w) ==
    /\ Up
    /\ proc[w] = "ready"
    /\ duty[w] = "waiting"
    /\ aborts' = aborts \cup {None}
    /\ duty' = [duty EXCEPT ![w] = "aborting"]
    /\ UNCHANGED <<procVars, supVars, envVars, child, rebinding, handler>>

\* Mutant: the failure to become ready aborts the replacement and then hands over to it
\* all the same.
NotReady_Proceed(w) ==
    /\ Up
    /\ proc[w] = "ready"
    /\ duty[w] = "waiting"
    /\ aborts' = aborts \cup {child[w]}
    /\ EndRpc(w, "replaced")
    /\ UNCHANGED <<procVars, supVars, envVars, handler>>

\* It times out or reads end of file; only a reload aborts the replacement.
NotReady(w) ==
    /\ Up
    /\ proc[w] = "ready"
    /\ duty[w] = "waiting"
    /\ \/ /\ w \in rebinding
          /\ EndRpc(w, "idle")
          /\ UNCHANGED aborts
       \/ /\ w \notin rebinding
          /\ duty' = [duty EXCEPT ![w] = "aborting"]
          /\ aborts' = aborts \cup {child[w]}
          /\ UNCHANGED <<child, rebinding>>
    /\ UNCHANGED <<procVars, supVars, envVars, handler>>

\* The abort request itself times out; its handler keeps offering it.
AbortFails(w) ==
    /\ Up
    /\ proc[w] = "ready"
    /\ duty[w] = "aborting"
    /\ EndRpc(w, "idle")
    /\ UNCHANGED <<procVars, supVars, envVars, handler, aborts>>

-----------------------------------------------------------------------------
(* Control handlers *)

\* serveControl is started once the first worker is ready.
ControlServed == waiter = "consumed"

\* handleControl starts the replacement and then offers it to the loop.  The
\* channel serves waiting senders in order, and a handler waits on it before
\* the worker it just started can be ready and be asked for a reload itself.
Spawn(w, v) ==
    /\ Up
    /\ ControlServed
    /\ ~controlFailed
    /\ duty[w] = "requesting"
    /\ child[w] = None
    /\ proc[v] = "none"
    /\ proc' = [proc EXCEPT ![v] = "starting"]
    /\ child' = [child EXCEPT ![w] = v]
    /\ handler' = [handler EXCEPT ![v] = "offering"]
    /\ offers' = Append(offers, v)
    /\ UNCHANGED <<exitCh, announced, signalled, drained, crashed, duty, rebinding, aborts>>
    /\ UNCHANGED <<sup, target, current, superseded, rank, waiter, envVars>>

\* The response reaches a client that still waits for it, or nobody.
Answer(v) ==
    /\ Up
    /\ handler[v] = "accepted"
    /\ handler' = [handler EXCEPT ![v] = "done"]
    /\ duty' = [w \in Workers |-> IF child[w] = v /\ duty[w] = "requesting"
                                  THEN "waiting" ELSE duty[w]]
    /\ UNCHANGED <<procVars, supVars, envVars, child, rebinding, aborts>>

\* loopDone is closed: the handler stops the worker it started.
HandlerStop(v) ==
    /\ sup = "returned"
    /\ handler[v] = "offering"
    /\ handler' = [handler EXCEPT ![v] = "stopping"]
    /\ signalled' = signalled \cup {v}
    /\ UNCHANGED <<proc, exitCh, announced, drained, crashed, aborts>>
    /\ UNCHANGED <<rpcVars, supVars, envVars>>

HandlerKill(v) ==
    /\ sup = "returned"
    /\ handler[v] = "stopping"
    /\ Dies(v)
    /\ UNCHANGED <<announced, signalled, drained, crashed, handler, aborts>>
    /\ UNCHANGED <<supVars, envVars>>

HandlerStopped(v) ==
    /\ sup = "returned"
    /\ handler[v] = "stopping"
    /\ exitCh[v] = "full"
    /\ exitCh' = [exitCh EXCEPT ![v] = "taken"]
    /\ handler' = [handler EXCEPT ![v] = "done"]
    /\ UNCHANGED <<proc, announced, signalled, drained, crashed, aborts>>
    /\ UNCHANGED <<rpcVars, supVars, envVars>>

-----------------------------------------------------------------------------
(* The supervisor's main goroutine *)

\* stopWorker signals w, then waits for its exit at program point pc.
StopWorker(w, pc) ==
    /\ signalled' = signalled \cup {w}
    /\ target' = w
    /\ sup' = pc

\* Mutant: the timeout is logged and the worker is not killed.
StopTimeout_Warn ==
    /\ sup \in Stopping
    /\ UNCHANGED vars

\* workerStopTimeout: kill the worker.
StopTimeout ==
    /\ sup \in Stopping
    /\ Dies(target)
    /\ UNCHANGED <<announced, signalled, drained, crashed, handler, aborts>>
    /\ UNCHANGED <<supVars, envVars>>

\* stopWorker receives the exit status and its caller goes on at pc.
StopReceives(pc) ==
    /\ exitCh[target] = "full"
    /\ exitCh' = [exitCh EXCEPT ![target] = "taken"]
    /\ sup' = pc
    /\ target' = None
    /\ UNCHANGED <<proc, announced, signalled, drained, crashed>>

\* waitForWorkerReady: whichever of readiness, exit and timeout it selects.
WaiterReturns ==
    /\ Up
    /\ waiter = "waiting"
    /\ \/ /\ First \in announced
          /\ waiter' = "ready"
          /\ UNCHANGED exitCh
       \/ /\ exitCh[First] = "full"
          /\ exitCh' = [exitCh EXCEPT ![First] = "taken"]
          /\ waiter' = "exited"
       \/ /\ waiter' = "failed"
          /\ UNCHANGED exitCh
    /\ UNCHANGED <<proc, announced, signalled, drained, crashed, sup, target, current,
                   superseded, rank>>
    /\ UNCHANGED <<rpcVars, envVars, handler, offers, aborts>>

BootReady ==
    /\ sup = "boot"
    /\ waiter = "ready"
    /\ waiter' = "consumed"
    /\ sup' = "loop"
    /\ UNCHANGED <<procVars, rpcVars, envVars, target, current, superseded, rank, handler,
                   offers, aborts>>

\* errWorkerExitedBeforeReady: nothing is left to stop.
BootExited ==
    /\ sup = "boot"
    /\ waiter = "exited"
    /\ sup' = "returned"
    /\ UNCHANGED <<procVars, rpcVars, envVars, target, current, superseded, rank, waiter,
                   handler, offers, aborts>>

BootFailed ==
    /\ sup = "boot"
    /\ waiter = "failed"
    /\ StopWorker(First, "bootstop")
    /\ UNCHANGED <<proc, exitCh, announced, drained, crashed, current, superseded, rank,
                   waiter, handler, offers, aborts>>
    /\ UNCHANGED <<rpcVars, envVars>>

\* A signal or ctx.Done while waitForWorkerReady's goroutine may still run.
BootStop ==
    /\ sup = "boot"
    /\ stop
    /\ StopWorker(First, "bootstop")
    /\ UNCHANGED <<proc, exitCh, announced, drained, crashed, current, superseded, rank,
                   waiter>>
    /\ UNCHANGED <<rpcVars, envVars, handler, offers, aborts>>

BootStopped ==
    /\ sup = "bootstop"
    /\ StopReceives("returned")
    /\ UNCHANGED <<current, superseded, rank, waiter, handler, offers, aborts>>
    /\ UNCHANGED <<rpcVars, envVars>>

\* Mutant: exited workers stay in the list after their status was taken.
Running_Keep(ws) == ws

\* runningWorkers drops, and takes the status of, the workers that exited.
Running(ws) == {w \in ws : exitCh[w] # "full"}
Reaped(ws) == [w \in Workers |-> IF w \in ws /\ exitCh[w] = "full"
                                 THEN "taken" ELSE exitCh[w]]

\* Mutant: the replaced worker is forgotten instead of kept as superseded.
Replace_Forget(v) ==
    /\ sup = "loop"
    /\ offers # <<>> /\ v = Head(offers)
    /\ offers' = Tail(offers)
    /\ superseded' = Running(superseded)
    /\ rank' = [rank EXCEPT ![v] = rank[current] + 1]
    /\ exitCh' = Reaped(superseded)
    /\ current' = v
    /\ handler' = [handler EXCEPT ![v] = "accepted"]
    /\ UNCHANGED <<proc, announced, signalled, drained, crashed, sup, target, waiter, aborts>>
    /\ UNCHANGED <<rpcVars, envVars>>

\* The loop receives a replacement from its handler.
Replace(v) ==
    /\ sup = "loop"
    /\ offers # <<>> /\ v = Head(offers)
    /\ offers' = Tail(offers)
    /\ superseded' = Running(superseded) \cup {current}
    /\ rank' = [rank EXCEPT ![v] = rank[current] + 1]
    /\ exitCh' = Reaped(superseded)
    /\ current' = v
    /\ handler' = [handler EXCEPT ![v] = "accepted"]
    /\ UNCHANGED <<proc, announced, signalled, drained, crashed, sup, target, waiter, aborts>>
    /\ UNCHANGED <<rpcVars, envVars>>

\* The abort handler answers a worker that still waits for it.
AbortAnswered(v) ==
    LET asking(w) == child[w] = v /\ duty[w] = "aborting" IN
    /\ duty' = [w \in Workers |-> IF asking(w) THEN "idle" ELSE duty[w]]
    /\ child' = [w \in Workers |-> IF asking(w) THEN None ELSE child[w]]
    /\ UNCHANGED rebinding

\* An abort for a worker that is not current or has no predecessor is refused.
AbortRefused(v) ==
    /\ sup = "loop"
    /\ v \in aborts
    /\ current # v \/ Running(superseded) = {}
    /\ superseded' = Running(superseded)
    /\ exitCh' = Reaped(superseded)
    /\ aborts' = aborts \ {v}
    /\ AbortAnswered(v)
    /\ UNCHANGED <<proc, announced, signalled, drained, crashed, sup, target, current,
                   rank, waiter>>
    /\ UNCHANGED <<envVars, handler, offers>>

\* Otherwise the predecessor is current again and the replacement is stopped.
AbortTaken(v) ==
    /\ sup = "loop"
    /\ v \in aborts
    /\ current = v
    /\ \E p \in Running(superseded) :
          /\ \A q \in Running(superseded) : rank[q] <= rank[p]
          /\ current' = p
          /\ superseded' = Running(superseded) \ {p}
    /\ exitCh' = Reaped(superseded)
    /\ aborts' = aborts \ {v}
    /\ StopWorker(v, "abortstop")
    /\ UNCHANGED <<proc, announced, drained, crashed, rank, waiter, handler, offers>>
    /\ UNCHANGED <<rpcVars, envVars>>

\* request.done <- nil.
AbortStopped ==
    /\ sup = "abortstop"
    /\ AbortAnswered(target)
    /\ StopReceives("loop")
    /\ UNCHANGED <<current, superseded, rank, waiter, handler, offers, aborts>>
    /\ UNCHANGED envVars

LoopStop ==
    /\ sup = "loop"
    /\ stop
    /\ StopWorker(current, "stopcurrent")
    /\ UNCHANGED <<proc, exitCh, announced, drained, crashed, current, superseded, rank,
                   waiter>>
    /\ UNCHANGED <<rpcVars, envVars, handler, offers, aborts>>

CurrentStopped ==
    /\ sup = "stopcurrent"
    /\ StopReceives("unwinding")
    /\ UNCHANGED <<current, superseded, rank, waiter, handler, offers, aborts>>
    /\ UNCHANGED <<rpcVars, envVars>>

\* The current worker exited: the loop returns its error.
CurrentExited ==
    /\ sup = "loop"
    /\ exitCh[current] = "full"
    /\ exitCh' = [exitCh EXCEPT ![current] = "taken"]
    /\ sup' = "unwinding"
    /\ UNCHANGED <<proc, announced, signalled, drained, crashed, target, current,
                   superseded, rank, waiter>>
    /\ UNCHANGED <<rpcVars, envVars, handler, offers, aborts>>

\* The control socket broke: the loop returns and leaves the current worker.
LoopControlFailed ==
    /\ sup = "loop"
    /\ controlFailed
    /\ sup' = "unwinding"
    /\ UNCHANGED <<target, current, superseded, rank, waiter, handler, offers, aborts>>
    /\ UNCHANGED <<procVars, rpcVars, envVars>>

\* The loop's deferred function stops every superseded worker in turn.
Unwind ==
    /\ sup = "unwinding"
    /\ \E w \in superseded :
          /\ \A q \in superseded : rank[w] <= rank[q]
          /\ StopWorker(w, "unwindstop")
    /\ UNCHANGED <<proc, exitCh, announced, drained, crashed, current, superseded, rank,
                   waiter>>
    /\ UNCHANGED <<rpcVars, envVars, handler, offers, aborts>>

UnwindStopped ==
    /\ sup = "unwindstop"
    /\ StopReceives("unwinding")
    /\ superseded' = superseded \ {target}
    /\ UNCHANGED <<current, rank, waiter, handler, offers, aborts>>
    /\ UNCHANGED <<rpcVars, envVars>>

\* SuperviseContext returns and closes loopDone.
Unwound ==
    /\ sup = "unwinding"
    /\ superseded = {}
    /\ sup' = "returned"
    /\ UNCHANGED <<target, current, superseded, rank, waiter, handler, offers, aborts>>
    /\ UNCHANGED <<procVars, rpcVars, envVars>>

\* RunCommandContext returns and the process ends with all its goroutines.
Exit ==
    /\ sup = "returned"
    /\ sup' = "exited"
    /\ UNCHANGED <<target, current, superseded, rank, waiter, handler, offers, aborts>>
    /\ UNCHANGED <<procVars, rpcVars, envVars>>

-----------------------------------------------------------------------------

StopRequested ==
    /\ Up
    /\ ~stop
    /\ stop' = TRUE
    /\ UNCHANGED <<procVars, rpcVars, supVars, handler, aborts, controlFailed>>

ControlFails ==
    /\ Up
    /\ ControlServed
    /\ ~controlFailed
    /\ controlFailed' = TRUE
    /\ UNCHANGED <<procVars, rpcVars, supVars, handler, aborts, stop>>

SupNext ==
    \/ StopTimeout \/ BootReady \/ BootExited \/ BootFailed \/ BootStop \/ BootStopped
    \/ \E v \in Workers : Replace(v) \/ AbortRefused(v) \/ AbortTaken(v)
    \/ AbortStopped \/ LoopStop \/ CurrentStopped \/ CurrentExited \/ LoopControlFailed
    \/ Unwind \/ UnwindStopped \/ Unwound \/ Exit

WorkerNext(w) ==
    \/ BecomeReady(w) \/ ReadyTooLate(w) \/ ExitAsked(w) \/ Crash(w)
    \/ \E rebind \in BOOLEAN : Request(w, rebind)
    \/ RequestFails(w) \/ HandOver(w) \/ NotReady(w) \/ AbortFails(w)

HandlerNext(v) ==
    \/ \E w \in Workers : Spawn(w, v)
    \/ Answer(v) \/ HandlerStop(v) \/ HandlerKill(v) \/ HandlerStopped(v)

\* stopWorker waits for an exit status that somebody else received.
Hung == sup \in Stopping /\ exitCh[target] = "taken"

Terminated == (sup = "exited" \/ Hung) /\ UNCHANGED vars

Next ==
    \/ SupNext
    \/ \E w \in Workers : WorkerNext(w) \/ HandlerNext(w)
    \/ WaiterReturns \/ StopRequested \/ ControlFails
    \/ Terminated

Spec == Init /\ [][Next]_vars

(***************************************************************************)
(* The supervisor's goroutines run and its timers fire.  Once asked to     *)
(* stop, its select picks that case sooner or later although replacements  *)
(* and aborts stay available: strong fairness, as Go's select chooses at   *)
(* random.  Nothing is assumed of the workers.                             *)
(***************************************************************************)
Fairness ==
    /\ WF_vars(SupNext)
    /\ WF_vars(WaiterReturns)
    /\ SF_vars(LoopStop)
    /\ SF_vars(BootStop)

FairSpec == Spec /\ Fairness

-----------------------------------------------------------------------------
(* Properties *)

\* A worker that accepts new requests on its surfaces.
Serving(w) ==
    /\ proc[w] = "ready"
    /\ w \notin drained
    /\ w \notin signalled
    /\ duty[w] # "replaced"

\* The loop has started and has not been asked to end.
InService ==
    /\ sup \notin {"boot", "bootstop", "returned", "exited"}
    /\ ~stop
    /\ ~controlFailed

\* Reloads never leave the daemon without a serving worker, whatever times out on the
\* way (requests, readiness, aborts) and whatever a replacement that is not ready yet does:
\* crash, or come too late.  Excepted is a loop that has returned because such a
\* replacement was its current worker when it ended.
ReloadKeepsService ==
    InService /\ "ready" \notin crashed /\ drained = {} =>
        \/ \E w \in Workers : Serving(w)
        \/ sup \in {"unwinding", "unwindstop"} /\ current \notin announced

\* Without that exception: the comment on superseded says that a worker "stays in
\* service when its replacement never became ready".
KeepsPredecessor ==
    InService /\ "ready" \notin crashed /\ drained = {} => \E w \in Workers : Serving(w)

\* A supervisor that ends for any reason but a broken control socket leaves no
\* worker running, unless a handler had started one that the loop never took.
StopLeavesNoWorker ==
    sup = "exited" /\ ~controlFailed =>
        \A w \in Workers : Alive(w) => handler[w] \in {"offering", "stopping"}

\* Past boot, stopWorker never waits for an exit status that runningWorkers or
\* the loop has already received.
HangsOnlyAtBoot == Hung => sup = "bootstop"

\* An abort, however late, never makes a worker current again that has already
\* handed its surfaces over and is draining, as long as no ready worker crashed.
AbortRestoresServing ==
    [][\A v \in Workers : AbortTaken(v) /\ "ready" \notin crashed =>
          duty[current'] # "replaced"]_vars

\* Past boot, a supervisor asked to stop exits although workers ignore signals
\* and keep asking for replacements.
StopCompletes == (stop /\ sup = "loop") ~> sup = "exited"
=============================================================================
