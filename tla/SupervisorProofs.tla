-------------------------- MODULE SupervisorProofs --------------------------
(***************************************************************************)
(* Proofs about Supervisor for any number of workers.                      *)
(*                                                                         *)
(* The inductive invariant follows a worker through its life: started by a *)
(* handler and offered to the loop (Births, Queue), accepted and listed    *)
(* until its exit status is received (Lists, Listed), waiting for its own  *)
(* replacement (Requests), and succeeded by a worker that serves once it   *)
(* has handed over (Succession).                                           *)
(***************************************************************************)
EXTENDS Supervisor, TLAPS

\* The loop took the worker from its handler, or booted with it.
Accepted(w) == w = First \/ handler[w] \in {"accepted", "done"}

\* runSupervisorLoop has returned.
Ended == sup \in {"returned", "exited"}

\* It runs and has not begun to end.
InLoop == sup \in {"loop", "abortstop"}

\* Processes, their exit statuses, their readiness and their RPCs.
Processes ==
    /\ proc[First] # "none"
    /\ \A w \in Workers :
        /\ proc[w] = "dead" <=> exitCh[w] # "empty"
        /\ proc[w] = "ready" => w \in announced
        /\ w \in announced => proc[w] \in {"ready", "dead"}
        /\ duty[w] # "idle" => w \in announced
        /\ child[w] # None => duty[w] # "idle"

\* What handlers have started: nothing names a worker before that, and nobody but its
\* handler knows one that is still offered.
Births ==
    /\ handler[First] = "none"
    /\ \A w \in Workers :
        /\ handler[w] = "none" <=> w = First \/ proc[w] = "none"
        /\ proc[w] = "none" =>
              /\ w \notin superseded \cup aborts \cup signalled \cup {current}
              /\ \A u \in Workers : child[u] # w
        /\ handler[w] = "offering" =>
              /\ w \notin superseded \cup aborts \cup signalled \cup {current}
              /\ exitCh[w] # "taken"
        /\ handler[w] = "stopping" => Ended /\ w \in signalled

\* The handlers waiting on replacementCh, each once.
Queue ==
    ~Ended => /\ \A i, j \in 1..Len(offers) : offers[i] = offers[j] => i = j
              /\ \A i \in 1..Len(offers) : handler[offers[i]] = "offering"
              /\ \A w \in Workers : handler[w] = "offering" =>
                    \E i \in 1..Len(offers) : offers[i] = w

\* Until the first worker is ready there are no handlers and no replacements.
Boot ==
    /\ waiter = "consumed" => sup \notin {"boot", "bootstop"}
    /\ waiter # "consumed" =>
          /\ sup \in {"boot", "bootstop"} \/ Ended
          /\ superseded = {} /\ current = First /\ offers = <<>> /\ aborts = {}
          /\ \A w \in Workers :
                /\ w # First => proc[w] = "none"
                /\ duty[w] \in {"idle", "requesting"}
                /\ child[w] = None
    /\ sup = "boot" =>
          /\ waiter \in {"waiting", "ready"} => exitCh[First] # "taken"
          /\ signalled = {}
          /\ ~(First \in announced /\ proc[First] = "dead" /\ "ready" \notin crashed)
    /\ waiter \in {"ready", "consumed"} => First \in announced
    /\ waiter = "exited" => exitCh[First] = "taken"

\* Whom the loop may stop: never a worker whose exit status somebody received, and in the
\* loop never one that was signalled.  rank orders superseded, below current.
Lists ==
    /\ sup \in Stopping => target \in signalled
    /\ sup = "bootstop" => target = First
    /\ sup \in {"loop", "abortstop", "stopcurrent"} =>
          exitCh[current] # "taken" /\ Accepted(current)
    /\ sup = "abortstop" => /\ target \notin superseded \cup {current}
                            /\ exitCh[target] # "taken"
                            /\ Accepted(target)
    /\ sup = "stopcurrent" => target = current
    /\ sup = "unwindstop" => target \in superseded
    /\ current \notin superseded
    /\ \A w \in superseded : Accepted(w) /\ exitCh[w] # "taken"
    /\ InLoop =>
          /\ \A w \in superseded : rank[w] < rank[current]
          /\ \A w, u \in superseded : rank[w] = rank[u] => w = u
          /\ (superseded \cup {current}) \cap signalled = {}

\* The loop knows every worker it accepted whose exit status nobody has received.
Listed ==
    \A w \in Workers : Accepted(w) /\ exitCh[w] # "taken" =>
        /\ sup \in {"loop", "stopcurrent"} => w \in superseded \cup {current}
        /\ sup = "abortstop" => w \in superseded \cup {current, target}
        /\ sup \in {"unwinding", "unwindstop"} /\ ~controlFailed => w \in superseded
        /\ ~(Ended /\ ~controlFailed)

\* u comes before x in the sequence.
Precedes(seq, u, x) == \E i, j \in 1..Len(seq) : i < j /\ seq[i] = u /\ seq[j] = x

\* v is the replacement the RPC of w is about.  The loop accepts w first: its handler
\* queued earlier.
Claim(w, v) ==
    /\ v # First
    /\ \A u \in Workers : child[u] = v => u = w
    /\ duty[w] \in {"waiting", "aborting"} => Accepted(v)
    /\ duty[w] \in {"requesting", "waiting"} =>
          v \notin aborts /\ (InLoop => v \notin signalled)
    /\ Alive(w) /\ ~Ended /\ Accepted(v) => Accepted(w) /\ rank[w] < rank[v]
    /\ Alive(w) /\ ~Ended /\ handler[v] = "offering" => Accepted(w) \/ Precedes(offers, w, v)

\* Every RPC that waits or aborts has a replacement.
Requests ==
    \A w \in Workers :
        /\ duty[w] \in {"waiting", "aborting"} => child[w] # None
        /\ duty[w] = "replaced" => child[w] = None
        /\ \A v \in Workers : child[w] = v => Claim(w, v)

\* An accepted, ready worker that nobody will abort: the first, or one whose predecessor
\* has handed over to it.
Settled(w) ==
    /\ Accepted(w)
    /\ w \in announced
    /\ w \notin aborts \cup signalled
    /\ \A u \in Workers : child[u] # w

\* A settled worker that has not handed over itself.
Fresh(w) == Settled(w) /\ proc[w] = "ready" /\ duty[w] # "replaced"

\* A ready worker that has handed over or ended without a signal.
Spent(w) == w \in announced \ signalled /\ (duty[w] = "replaced" \/ proc[w] = "dead")

\* As long as no ready worker crashed, every spent worker has a fresh one after it.
Succession ==
    "ready" \notin crashed /\ ~Ended =>
        /\ \A w \in Workers : Spent(w) => Accepted(w)
        /\ InLoop => /\ Settled(First)
                     /\ \A w \in Workers : Spent(w) =>
                          \E h \in Workers : Fresh(h) /\ rank[w] < rank[h]

\* Unless asked to, the loop ends only because its current worker did, before it was ready.
Calm == "ready" \notin crashed /\ ~stop /\ ~controlFailed =>
            /\ sup # "stopcurrent"
            /\ sup \in {"unwinding", "unwindstop"} =>
                  current \notin announced /\ proc[current] = "dead"

IInv ==
    /\ TypeOK /\ Processes /\ Births /\ Queue /\ Boot /\ Lists /\ Listed
    /\ Requests /\ Succession /\ Calm

-----------------------------------------------------------------------------
(* Each part is preserved by every action *)

\* A handler that begins to wait comes after those that wait already.
LEMMA OfferedLast ==
  ASSUME NEW seq \in Seq(Workers), NEW v \in Workers, NEW u \in Workers
  PROVE  /\ \A x \in Workers : Precedes(seq, u, x) => Precedes(Append(seq, v), u, x)
         /\ (\E i \in 1..Len(seq) : seq[i] = u) => Precedes(Append(seq, v), u, v)
<1>1. /\ Len(seq) \in Nat /\ Len(Append(seq, v)) = Len(seq) + 1
      /\ Append(seq, v)[Len(seq) + 1] = v
      /\ \A i \in 1..Len(seq) : Append(seq, v)[i] = seq[i]
  OBVIOUS
<1> QED  BY <1>1 DEF Precedes

\* The handler that is served was the first to wait; the order of the others remains.
LEMMA ServedFirst ==
  ASSUME NEW seq \in Seq(Workers), seq # <<>>, NEW u \in Workers
  PROVE  /\ (\A i, j \in 1..Len(seq) : seq[i] = seq[j] => i = j) => ~Precedes(seq, u, Head(seq))
         /\ \A x \in Workers : u # Head(seq) /\ Precedes(seq, u, x) => Precedes(Tail(seq), u, x)
<1>1. /\ Len(seq) \in Nat \ {0} /\ Head(seq) = seq[1] /\ Len(Tail(seq)) = Len(seq) - 1
      /\ \A i \in 1..Len(Tail(seq)) : Tail(seq)[i] = seq[i + 1]
  OBVIOUS
<1>2. ASSUME NEW x \in Workers, NEW i \in 1..Len(seq), NEW j \in 1..Len(seq), i < j,
             seq[i] = u, seq[j] = x, u # Head(seq)
      PROVE  Precedes(Tail(seq), u, x)
  <2>1. /\ i - 1 \in 1..Len(Tail(seq)) /\ j - 1 \in 1..Len(Tail(seq)) /\ i - 1 < j - 1
        /\ Tail(seq)[i - 1] = u /\ Tail(seq)[j - 1] = x
    BY <1>1, <1>2
  <2> QED  BY <2>1, Zenon DEF Precedes
<1>3. ASSUME NEW i \in 1..Len(seq), NEW j \in 1..Len(seq), i < j, seq[j] = Head(seq),
             \A k, l \in 1..Len(seq) : seq[k] = seq[l] => k = l
      PROVE  FALSE
  BY <1>1, <1>3
<1> QED  BY <1>2, <1>3, Zenon DEF Precedes

\* The variables a process's end changes keep their types.
LEMMA DiesTyped ==
  ASSUME TypeOK, NEW w, Dies(w)
  PROVE  /\ proc' \in [Workers -> {"none", "starting", "ready", "dead"}]
         /\ exitCh' \in [Workers -> {"empty", "full", "taken"}]
         /\ duty' \in [Workers -> {"idle", "requesting", "waiting", "aborting", "replaced"}]
         /\ child' \in [Workers -> Workers \cup {None}]
         /\ rebinding' \subseteq Workers
<1>1. /\ proc' = [proc EXCEPT ![w] = "dead"] /\ exitCh' = [exitCh EXCEPT ![w] = "full"]
      /\ UNCHANGED <<duty, child, rebinding>> \/ EndRpc(w, "idle")
  BY Zenon DEF Dies, rpcVars
<1>2. CASE UNCHANGED <<duty, child, rebinding>>
  BY <1>1, <1>2, Zenon DEF TypeOK
<1>3. CASE EndRpc(w, "idle")
  BY <1>1, <1>3, Zenon DEF TypeOK, EndRpc
<1> QED  BY <1>1, <1>2, <1>3, Zenon

\* Every action keeps the types.  NotReady aborts a worker because a waiting RPC has one.
LEMMA TypeStep == IInv /\ [Next]_vars => TypeOK'
<1> SUFFICES ASSUME TypeOK, Requests, [Next]_vars PROVE TypeOK'
  BY Zenon DEF IInv
<1> USE SupervisorAssumption DEF procVars, rpcVars, supVars, envVars
<1>1. UNCHANGED <<proc, exitCh, announced, signalled, drained, crashed, duty, child, rebinding,
                  sup, target, current, superseded, rank, waiter, offers, handler, aborts, stop,
                  controlFailed>> => TypeOK'
  BY Zenon DEF TypeOK
<1>2. ASSUME NEW w \in Workers, BecomeReady(w) PROVE TypeOK'
  BY <1>2, Zenon DEF TypeOK, BecomeReady
<1>3. ASSUME NEW w \in Workers, ExitAsked(w) \/ ReadyTooLate(w) PROVE TypeOK'
  <2>1. /\ Dies(w)
        /\ UNCHANGED <<announced, signalled, drained, crashed, handler, aborts, supVars, envVars>>
    BY <1>3, Zenon DEF ExitAsked, ReadyTooLate
  <2> QED  BY <2>1, DiesTyped, Zenon DEF TypeOK
<1>4. ASSUME NEW w \in Workers, Crash(w) PROVE TypeOK'
  <2>1. /\ Dies(w) /\ crashed' \subseteq {"starting", "ready"}
        /\ UNCHANGED <<announced, signalled, drained, handler, aborts, supVars, envVars>>
    BY <1>4, Zenon DEF Crash, Dies, Alive
  <2> QED  BY <2>1, DiesTyped, Zenon DEF TypeOK
<1>5. ASSUME NEW w \in Workers, NEW rebind \in BOOLEAN, Request(w, rebind) PROVE TypeOK'
  BY <1>5 DEF TypeOK, Request
<1>6. ASSUME NEW w \in Workers, RequestFails(w) PROVE TypeOK'
  BY <1>6, Zenon DEF TypeOK, RequestFails, EndRpc
<1>7. ASSUME NEW w \in Workers, HandOver(w) PROVE TypeOK'
  BY <1>7, Zenon DEF TypeOK, HandOver, EndRpc
<1>8. ASSUME NEW w \in Workers, NotReady(w) PROVE TypeOK'
  <2>1. child[w] \in Workers
    BY <1>8, Zenon DEF TypeOK, Requests, NotReady
  <2>2. \/ duty' = [duty EXCEPT ![w] = "idle"] /\ child' = [child EXCEPT ![w] = None]
        \/ duty' = [duty EXCEPT ![w] = "aborting"] /\ child' = child
    BY <1>8, Zenon DEF NotReady, EndRpc
  <2>3. rebinding' \in {rebinding, rebinding \ {w}} /\ aborts' \in {aborts, aborts \cup {child[w]}}
    BY <1>8, Zenon DEF NotReady, EndRpc
  <2>4. duty' \in [Workers -> {"idle", "requesting", "waiting", "aborting", "replaced"}]
    BY <2>2, Zenon DEF TypeOK
  <2>5. child' \in [Workers -> Workers \cup {None}]
    BY <2>2, Zenon DEF TypeOK
  <2>6. UNCHANGED <<procVars, supVars, envVars, handler>>
    BY <1>8, Zenon DEF NotReady
  <2> QED  BY <2>1, <2>3, <2>4, <2>5, <2>6 DEF TypeOK
<1>9. ASSUME NEW w \in Workers, AbortFails(w) PROVE TypeOK'
  BY <1>9, Zenon DEF TypeOK, AbortFails, EndRpc
<1>10. ASSUME NEW w \in Workers, NEW v \in Workers, Spawn(w, v) PROVE TypeOK'
  BY <1>10 DEF TypeOK, Spawn, ControlServed
<1>11. ASSUME NEW v \in Workers, Answer(v) PROVE TypeOK'
  BY <1>11, Zenon DEF TypeOK, Answer
<1>12. ASSUME NEW v \in Workers, HandlerStop(v) PROVE TypeOK'
  BY <1>12, Zenon DEF TypeOK, HandlerStop
<1>13. ASSUME NEW v \in Workers, HandlerKill(v) PROVE TypeOK'
  <2>1. /\ Dies(v)
        /\ UNCHANGED <<announced, signalled, drained, crashed, handler, aborts, supVars, envVars>>
    BY <1>13, Zenon DEF HandlerKill
  <2> QED  BY <2>1, DiesTyped, Zenon DEF TypeOK
<1>14. ASSUME NEW v \in Workers, HandlerStopped(v) PROVE TypeOK'
  BY <1>14, Zenon DEF TypeOK, HandlerStopped
<1>15. ASSUME StopTimeout PROVE TypeOK'
  <2>1. /\ Dies(target)
        /\ UNCHANGED <<announced, signalled, drained, crashed, handler, aborts, supVars, envVars>>
    BY <1>15, Zenon DEF StopTimeout
  <2> QED  BY <2>1, DiesTyped, Zenon DEF TypeOK
<1>16. ASSUME BootReady PROVE TypeOK'
  BY <1>16, Zenon DEF TypeOK, BootReady
<1>17. ASSUME BootExited PROVE TypeOK'
  BY <1>17, Zenon DEF TypeOK, BootExited
<1>18. ASSUME BootFailed PROVE TypeOK'
  BY <1>18, Zenon DEF TypeOK, Stopping, BootFailed, StopWorker
<1>19. ASSUME BootStop PROVE TypeOK'
  BY <1>19, Zenon DEF TypeOK, Stopping, BootStop, StopWorker
<1>20. ASSUME BootStopped PROVE TypeOK'
  BY <1>20, Zenon DEF TypeOK, BootStopped, StopReceives
<1>21. ASSUME NEW v \in Workers, Replace(v) PROVE TypeOK'
  BY <1>21 DEF TypeOK, Stopping, Replace, Running, Reaped
<1>22. ASSUME NEW v \in Workers, AbortRefused(v) PROVE TypeOK'
  BY <1>22, Zenon DEF TypeOK, AbortRefused, Running, Reaped, AbortAnswered
<1>23. ASSUME NEW v \in Workers, AbortTaken(v) PROVE TypeOK'
  BY <1>23, Zenon DEF TypeOK, Stopping, AbortTaken, Running, Reaped, StopWorker
<1>24. ASSUME AbortStopped PROVE TypeOK'
  BY <1>24, Zenon DEF TypeOK, AbortStopped, AbortAnswered, StopReceives
<1>25. ASSUME LoopStop PROVE TypeOK'
  BY <1>25, Zenon DEF TypeOK, Stopping, LoopStop, StopWorker
<1>26. ASSUME CurrentStopped PROVE TypeOK'
  BY <1>26, Zenon DEF TypeOK, CurrentStopped, StopReceives
<1>27. ASSUME CurrentExited PROVE TypeOK'
  BY <1>27, Zenon DEF TypeOK, CurrentExited
<1>28. ASSUME LoopControlFailed PROVE TypeOK'
  BY <1>28, Zenon DEF TypeOK, LoopControlFailed
<1>29. ASSUME Unwind PROVE TypeOK'
  BY <1>29, Zenon DEF TypeOK, Stopping, Unwind, StopWorker
<1>30. ASSUME UnwindStopped PROVE TypeOK'
  BY <1>30, Zenon DEF TypeOK, UnwindStopped, StopReceives
<1>31. ASSUME Unwound PROVE TypeOK'
  BY <1>31, Zenon DEF TypeOK, Unwound
<1>32. ASSUME Exit PROVE TypeOK'
  BY <1>32, Zenon DEF TypeOK, Exit
<1>33. ASSUME WaiterReturns PROVE TypeOK'
  <2>0. exitCh' = exitCh \/ exitCh' = [exitCh EXCEPT ![First] = "taken"]
    BY <1>33, Zenon DEF WaiterReturns
  <2>1. exitCh' \in [Workers -> {"empty", "full", "taken"}]
    BY <2>0, Zenon DEF TypeOK
  <2>2. waiter' \in {"ready", "exited", "failed"}
    BY <1>33, Zenon DEF WaiterReturns
  <2>3. UNCHANGED <<proc, announced, signalled, drained, crashed, sup, target, current,
                    superseded, rank, rpcVars, envVars, handler, offers, aborts>>
    BY <1>33, Zenon DEF WaiterReturns
  <2> QED  BY <2>1, <2>2, <2>3, Zenon DEF TypeOK
<1>34. ASSUME StopRequested PROVE TypeOK'
  BY <1>34, Zenon DEF TypeOK, StopRequested
<1>35. ASSUME ControlFails PROVE TypeOK'
  BY <1>35, Zenon DEF TypeOK, ControlFails, ControlServed
<1>36. CASE UNCHANGED vars
  BY <1>36, <1>1, Zenon DEF vars
<1> HIDE DEF procVars, rpcVars, supVars, envVars
<1> QED
  BY <1>1, <1>2, <1>3, <1>4, <1>5, <1>6, <1>7, <1>8, <1>9, <1>10, <1>11, <1>12, <1>13, <1>14,
    <1>15, <1>16, <1>17, <1>18, <1>19, <1>20, <1>21, <1>22, <1>23, <1>24, <1>25, <1>26, <1>27,
      <1>28, <1>29, <1>30, <1>31, <1>32, <1>33, <1>34, <1>35, <1>36, Zenon
  DEF Next, SupNext, WorkerNext, HandlerNext, Terminated

\* A worker is dead exactly when its exit status was posted, and only a ready one announces
\* itself or has an RPC.
LEMMA ProcessStep == IInv /\ [Next]_vars => Processes'
<1> SUFFICES ASSUME TypeOK, Processes, Lists, Births, [Next]_vars PROVE Processes'
  BY Zenon DEF IInv
<1> USE SupervisorAssumption DEF procVars, rpcVars, supVars, envVars
<1>1. UNCHANGED <<proc, exitCh, announced, signalled, crashed, duty, child>> => Processes'
  BY Zenon DEF Processes
<1>2. ASSUME BootReady \/ BootExited \/ LoopControlFailed \/ Unwound \/ Exit
             \/ StopRequested \/ ControlFails
      PROVE  UNCHANGED <<proc, exitCh, announced, signalled, crashed, duty, child>>
  BY <1>2, Zenon DEF BootReady, BootExited, LoopControlFailed, Unwound, Exit, StopRequested,
    ControlFails, ControlServed
<1>3. ASSUME NEW w \in Workers, BecomeReady(w) PROVE Processes'
  BY <1>3, Zenon DEF TypeOK, Processes, BecomeReady
<1>4. ASSUME NEW w \in Workers, ExitAsked(w) \/ ReadyTooLate(w) PROVE Processes'
  BY <1>4 DEF TypeOK, Processes, ExitAsked, ReadyTooLate, Dies, EndRpc
<1>5. ASSUME NEW w \in Workers, Crash(w) PROVE Processes'
  BY <1>5 DEF TypeOK, Processes, Crash, Dies, EndRpc
<1>6. ASSUME NEW w \in Workers, NEW rebind \in BOOLEAN, Request(w, rebind) PROVE Processes'
  BY <1>6, Zenon DEF Processes, Request, TypeOK
<1>7. ASSUME NEW w \in Workers, RequestFails(w) PROVE Processes'
  BY <1>7, Zenon DEF TypeOK, Processes, RequestFails, EndRpc
<1>8. ASSUME NEW w \in Workers, HandOver(w) PROVE Processes'
  BY <1>8, Zenon DEF Processes, HandOver, EndRpc, TypeOK
<1>9. ASSUME NEW w \in Workers, NotReady(w) PROVE Processes'
  BY <1>9 DEF TypeOK, Processes, NotReady, EndRpc
<1>10. ASSUME NEW w \in Workers, AbortFails(w) PROVE Processes'
  BY <1>10, Zenon DEF TypeOK, Processes, AbortFails, EndRpc
<1>11. ASSUME NEW w \in Workers, NEW v \in Workers, Spawn(w, v) PROVE Processes'
  BY <1>11, Zenon DEF Processes, Spawn, ControlServed, TypeOK
<1>12. ASSUME NEW v \in Workers, Answer(v) PROVE Processes'
  BY <1>12, Zenon DEF Processes, Answer
<1>13. ASSUME NEW v \in Workers, HandlerStop(v) PROVE Processes'
  BY <1>13, Zenon DEF Processes, HandlerStop
<1>14. ASSUME NEW v \in Workers, HandlerKill(v) PROVE Processes'
  BY <1>14 DEF TypeOK, Processes, Births, HandlerKill, Dies, EndRpc
<1>15. ASSUME NEW v \in Workers, HandlerStopped(v) PROVE Processes'
  BY <1>15, Zenon DEF Processes, HandlerStopped, TypeOK
<1>16. ASSUME StopTimeout PROVE Processes'
  BY <1>16 DEF TypeOK, Processes, Lists, StopTimeout, Dies, EndRpc
<1>17. ASSUME BootFailed PROVE Processes'
  BY <1>17, Zenon DEF Processes, BootFailed, StopWorker
<1>18. ASSUME BootStop PROVE Processes'
  BY <1>18, Zenon DEF Processes, BootStop, StopWorker
<1>19. ASSUME BootStopped PROVE Processes'
  BY <1>19, Zenon DEF Processes, BootStopped, StopReceives, TypeOK
<1>20. ASSUME NEW v \in Workers, Replace(v) PROVE Processes'
  BY <1>20, Zenon DEF Processes, Replace, Running, Reaped
<1>21. ASSUME NEW v \in Workers, AbortRefused(v) PROVE Processes'
  BY <1>21, Zenon DEF Processes, AbortRefused, Running, Reaped, AbortAnswered
<1>22. ASSUME NEW v \in Workers, AbortTaken(v) PROVE Processes'
  BY <1>22, Zenon DEF Processes, AbortTaken, Running, Reaped, StopWorker
<1>23. ASSUME AbortStopped PROVE Processes'
  BY <1>23, Zenon DEF Processes, AbortStopped, AbortAnswered, StopReceives, TypeOK
<1>24. ASSUME LoopStop PROVE Processes'
  BY <1>24, Zenon DEF Processes, LoopStop, StopWorker
<1>25. ASSUME CurrentStopped PROVE Processes'
  BY <1>25, Zenon DEF Processes, CurrentStopped, StopReceives, TypeOK
<1>26. ASSUME CurrentExited PROVE Processes'
  BY <1>26, Zenon DEF Processes, CurrentExited, TypeOK
<1>27. ASSUME Unwind PROVE Processes'
  BY <1>27, Zenon DEF Processes, Unwind, StopWorker
<1>28. ASSUME UnwindStopped PROVE Processes'
  BY <1>28, Zenon DEF Processes, UnwindStopped, StopReceives, TypeOK
<1>29. ASSUME WaiterReturns PROVE Processes'
  BY <1>29, Zenon DEF TypeOK, Processes, WaiterReturns
<1>30. CASE UNCHANGED vars
  BY <1>30, <1>1, Zenon DEF vars
<1> HIDE DEF procVars, rpcVars, supVars, envVars
<1> QED
  BY <1>1, <1>2, <1>3, <1>4, <1>5, <1>6, <1>7, <1>8, <1>9, <1>10, <1>11, <1>12, <1>13, <1>14,
    <1>15, <1>16, <1>17, <1>18, <1>19, <1>20, <1>21, <1>22, <1>23, <1>24, <1>25, <1>26, <1>27,
      <1>28, <1>29, <1>30, Zenon
  DEF Next, SupNext, WorkerNext, HandlerNext, Terminated

\* A worker that was not started is nowhere; one that a handler still offers is not the
\* loop's business yet.
LEMMA BirthStep == IInv /\ [Next]_vars => Births'
<1> SUFFICES ASSUME TypeOK, Births, Processes, Lists, Queue, Requests, Boot, [Next]_vars
             PROVE  Births'
  BY Zenon DEF IInv
<1> USE SupervisorAssumption DEF procVars, rpcVars, supVars, envVars
<1>1. UNCHANGED <<proc, handler, superseded, aborts, signalled, current, child, sup,
                  exitCh>> => Births'
  BY DEF Births, Ended
<1>2. ASSUME NEW w \in Workers, NEW rebind \in BOOLEAN, Request(w, rebind)
      PROVE  UNCHANGED <<proc, handler, superseded, aborts, signalled, current, child, sup, exitCh>>
  BY <1>2, Zenon DEF Request
<1>3. ASSUME StopRequested \/ ControlFails
      PROVE  UNCHANGED <<proc, handler, superseded, aborts, signalled, current, child, sup, exitCh>>
  BY <1>3, Zenon DEF StopRequested, ControlFails, ControlServed
<1>4. ASSUME BootReady \/ BootExited \/ LoopControlFailed \/ Unwound \/ Exit
      PROVE  Births'
  <2>1. /\ UNCHANGED <<proc, handler, superseded, aborts, signalled, current, child, exitCh>>
        /\ Ended => Ended'
    BY <1>4, Zenon DEF BootReady, BootExited, LoopControlFailed, Unwound, Exit, Ended
  <2> QED  BY <2>1, Zenon DEF Births
<1>5. ASSUME NEW w \in Workers, BecomeReady(w) PROVE Births'
  BY <1>5 DEF Births, Ended, BecomeReady
<1>6. ASSUME NEW w \in Workers, ExitAsked(w) \/ ReadyTooLate(w) PROVE Births'
  BY <1>6 DEF TypeOK, Births, Alive, Ended, ExitAsked, ReadyTooLate, Dies, EndRpc
<1>7. ASSUME NEW w \in Workers, Crash(w) PROVE Births'
  BY <1>7 DEF TypeOK, Births, Alive, Ended, Crash, Dies, EndRpc
<1>8. ASSUME NEW w \in Workers, RequestFails(w) PROVE Births'
  BY <1>8 DEF Births, Ended, RequestFails, EndRpc
<1>9. ASSUME NEW w \in Workers, HandOver(w) PROVE Births'
  BY <1>9 DEF Births, Ended, HandOver, EndRpc
<1>10. ASSUME NEW w \in Workers, NotReady(w) PROVE Births'
  <2>1. child[w] \in Workers /\ Accepted(child[w])
    BY <1>10, Zenon DEF TypeOK, Requests, Claim, NotReady
  <2>2. /\ aborts' \subseteq aborts \cup {child[w]}
        /\ UNCHANGED <<proc, handler, superseded, signalled, current, sup, exitCh>>
        /\ \A u \in Workers : child'[u] \in {child[u], None}
    BY <1>10, Zenon DEF TypeOK, NotReady, EndRpc
  <2> QED  BY <2>1, <2>2 DEF Births, Accepted, Ended
<1>11. ASSUME NEW w \in Workers, AbortFails(w) PROVE Births'
  BY <1>11 DEF Births, Ended, AbortFails, EndRpc
<1>12. ASSUME NEW w \in Workers, NEW v \in Workers, Spawn(w, v) PROVE Births'
  <2>1. /\ handler' = [handler EXCEPT ![v] = "offering"] /\ proc' = [proc EXCEPT ![v] = "starting"]
        /\ child' = [child EXCEPT ![w] = v] /\ proc[v] = "none"
        /\ UNCHANGED <<superseded, aborts, signalled, current, sup, exitCh>>
    BY <1>12, Zenon DEF Spawn
  <2>2. /\ v # First /\ v \notin superseded \cup aborts \cup signalled \cup {current}
        /\ exitCh[v] = "empty"
    BY <2>1, Zenon DEF Births, Processes
  <2> QED  BY <2>1, <2>2 DEF TypeOK, Births, Ended
<1>13. ASSUME NEW v \in Workers, Answer(v) PROVE Births'
  BY <1>13 DEF Births, Ended, Answer
<1>14. ASSUME NEW v \in Workers, HandlerStop(v) PROVE Births'
  BY <1>14 DEF TypeOK, Births, Ended, HandlerStop
<1>15. ASSUME NEW v \in Workers, HandlerKill(v) PROVE Births'
  BY <1>15 DEF TypeOK, Births, Ended, HandlerKill, Dies, EndRpc
<1>16. ASSUME NEW v \in Workers, HandlerStopped(v) PROVE Births'
  BY <1>16 DEF Births, Ended, HandlerStopped
<1>17. ASSUME StopTimeout PROVE Births'
  BY <1>17 DEF TypeOK, Births, Alive, Ended, StopTimeout, Dies, EndRpc
<1>18. ASSUME BootFailed PROVE Births'
  BY <1>18, Zenon DEF Births, Boot, BootFailed, StopWorker
<1>19. ASSUME BootStop PROVE Births'
  BY <1>19, Zenon DEF Births, Boot, BootStop, StopWorker
<1>20. ASSUME BootStopped PROVE Births'
  BY <1>20 DEF Births, Lists, Ended, BootStopped, StopReceives
<1>21. ASSUME NEW v \in Workers, Replace(v) PROVE Births'
  BY <1>21 DEF TypeOK, Births, Processes, Lists, Queue, Accepted, Ended, Replace, Running,
    Reaped
<1>22. ASSUME NEW v \in Workers, AbortRefused(v) PROVE Births'
  BY <1>22, Zenon DEF Births, Ended, AbortRefused, Running, Reaped, AbortAnswered
<1>23. ASSUME NEW v \in Workers, AbortTaken(v) PROVE Births'
  BY <1>23 DEF Births, Ended, AbortTaken, Running, Reaped, StopWorker
<1>24. ASSUME AbortStopped PROVE Births'
  BY <1>24 DEF Births, Lists, Ended, Stopping, AbortStopped, AbortAnswered, StopReceives
<1>25. ASSUME LoopStop PROVE Births'
  BY <1>25, Zenon DEF Births, Ended, LoopStop, StopWorker
<1>26. ASSUME CurrentStopped PROVE Births'
  BY <1>26 DEF Births, Lists, Ended, CurrentStopped, StopReceives
<1>27. ASSUME CurrentExited PROVE Births'
  BY <1>27 DEF Births, Ended, CurrentExited
<1>28. ASSUME Unwind PROVE Births'
  BY <1>28, Zenon DEF Births, Ended, Unwind, StopWorker
<1>29. ASSUME UnwindStopped PROVE Births'
  BY <1>29 DEF Births, Lists, Ended, UnwindStopped, StopReceives
<1>30. ASSUME WaiterReturns PROVE Births'
  BY <1>30, Zenon DEF Births, Boot, WaiterReturns
<1>31. CASE UNCHANGED vars
  BY <1>31, <1>1, Zenon DEF vars
<1> HIDE DEF procVars, rpcVars, supVars, envVars
<1> QED
  BY <1>1, <1>2, <1>3, <1>4, <1>5, <1>6, <1>7, <1>8, <1>9, <1>10, <1>11, <1>12, <1>13, <1>14,
    <1>15, <1>16, <1>17, <1>18, <1>19, <1>20, <1>21, <1>22, <1>23, <1>24, <1>25, <1>26, <1>27,
      <1>28, <1>29, <1>30, <1>31, Zenon
  DEF Next, SupNext, WorkerNext, HandlerNext, Terminated

\* The handlers that offer a replacement are the ones waiting on replacementCh.
LEMMA QueueStep == IInv /\ [Next]_vars => Queue'
<1> SUFFICES ASSUME TypeOK, Queue, Births, [Next]_vars PROVE Queue'
  BY Zenon DEF IInv
<1> USE SupervisorAssumption DEF procVars, rpcVars, supVars, envVars
<1>1. UNCHANGED <<offers, handler, sup>> => Queue'
  BY Zenon DEF Queue, Ended
<1>2. ASSUME NEW w \in Workers, BecomeReady(w) \/ ExitAsked(w) \/ ReadyTooLate(w) \/ Crash(w)
                                \/ RequestFails(w) \/ HandOver(w) \/ NotReady(w)
                                \/ AbortFails(w)
      PROVE  UNCHANGED <<offers, handler, sup>>
  BY <1>2, Zenon DEF BecomeReady, ExitAsked, ReadyTooLate, Dies, EndRpc, Crash, RequestFails,
    HandOver,
    NotReady, AbortFails
<1>3. ASSUME NEW w \in Workers, NEW rebind \in BOOLEAN, Request(w, rebind)
      PROVE  UNCHANGED <<offers, handler, sup>>
  BY <1>3, Zenon DEF Request
<1>4. ASSUME NEW v \in Workers, HandlerKill(v) \/ AbortRefused(v)
      PROVE  UNCHANGED <<offers, handler, sup>>
  BY <1>4, Zenon DEF HandlerKill, Dies, EndRpc, AbortRefused, Running, Reaped, AbortAnswered
<1>5. ASSUME StopTimeout \/ WaiterReturns \/ StopRequested \/ ControlFails
      PROVE  UNCHANGED <<offers, handler, sup>>
  BY <1>5, Zenon DEF StopTimeout, Dies, EndRpc, WaiterReturns, StopRequested, ControlFails,
    ControlServed
<1>6. ASSUME BootReady \/ BootExited \/ BootFailed \/ BootStop \/ BootStopped
             \/ AbortStopped \/ LoopStop \/ CurrentStopped \/ CurrentExited
             \/ LoopControlFailed \/ Unwind \/ UnwindStopped \/ Unwound \/ Exit
      PROVE  Queue'
  <2>1. UNCHANGED <<offers, handler>> /\ (Ended => Ended')
    BY <1>6, Zenon DEF BootReady, BootExited, BootFailed, StopWorker, BootStop, BootStopped,
      StopReceives, AbortStopped, AbortAnswered, LoopStop, CurrentStopped, CurrentExited,
        LoopControlFailed, Unwind, UnwindStopped, Unwound, Exit, Ended
  <2> QED  BY <2>1, Zenon DEF Queue
<1>7. ASSUME NEW v \in Workers, AbortTaken(v)
      PROVE  Queue'
  <2>1. UNCHANGED <<offers, handler>> /\ (Ended => Ended')
    BY <1>7, Zenon DEF AbortTaken, Running, Reaped, StopWorker, Ended
  <2> QED  BY <2>1, Zenon DEF Queue
<1>8. ASSUME NEW v \in Workers, HandlerStop(v) \/ HandlerStopped(v)
      PROVE  Queue'
  <2>1. Ended'
    BY <1>8, Zenon DEF HandlerStop, HandlerStopped, Ended
  <2> QED  BY <2>1, Zenon DEF Queue
<1>9. ASSUME NEW w \in Workers, NEW v \in Workers, Spawn(w, v) PROVE Queue'
  <2>1. /\ Len(offers) \in Nat /\ Len(offers') = Len(offers) + 1
        /\ offers'[Len(offers) + 1] = v
        /\ \A i \in 1..Len(offers) : offers'[i] = offers[i] /\ offers[i] \in Workers
    BY <1>9 DEF TypeOK, Spawn
  <2>2. handler[v] = "none" /\ sup' = sup /\ handler' = [handler EXCEPT ![v] = "offering"]
    BY <1>9, Zenon DEF Births, Spawn
  <2> SUFFICES ASSUME ~Ended PROVE Queue'
    BY <2>2, Zenon DEF Queue, Ended
  <2>3. \A i \in 1..Len(offers') :
           IF i = Len(offers) + 1 THEN offers'[i] = v
           ELSE i \in 1..Len(offers) /\ offers'[i] = offers[i] /\ offers[i] # v
    BY <2>1, <2>2 DEF Queue
  <2>4. \A i, j \in 1..Len(offers') : offers'[i] = offers'[j] => i = j
    BY <2>1, <2>3, Zenon DEF Queue
  <2>5. ASSUME NEW i \in 1..Len(offers') PROVE handler'[offers'[i]] = "offering"
    <3>1. CASE offers'[i] = v
      BY <2>2, <3>1, Zenon DEF TypeOK
    <3>2. CASE offers'[i] # v
      <4>1. i \in 1..Len(offers) /\ offers'[i] = offers[i] /\ offers[i] \in Workers
        BY <2>1, <2>3, <3>2, Zenon
      <4> QED  BY <2>2, <3>2, <4>1 DEF Queue
    <3> QED  BY <3>1, <3>2, Zenon
  <2>6. ASSUME NEW u \in Workers, handler'[u] = "offering"
        PROVE  \E i \in 1..Len(offers') : offers'[i] = u
    <3>1. CASE u = v
      BY <2>1, <3>1
    <3>2. CASE u # v
      <4>1. PICK i \in 1..Len(offers) : offers[i] = u
        BY <2>2, <2>6, <3>2 DEF Queue
      <4> QED  BY <2>1, <4>1
    <3> QED  BY <3>1, <3>2, Zenon
  <2> QED  BY <2>4, <2>5, <2>6, Zenon DEF Queue
<1>10. ASSUME NEW v \in Workers, Answer(v) PROVE Queue'
  BY <1>10 DEF Queue, Ended, Answer
<1>11. ASSUME NEW v \in Workers, Replace(v) PROVE Queue'
  <2>1. /\ Len(offers) \in Nat \ {0} /\ v = offers[1] /\ Len(offers') = Len(offers) - 1
        /\ \A i \in 1..Len(offers') : offers'[i] = offers[i + 1]
        /\ \A i \in 1..Len(offers) : offers[i] \in Workers
    BY <1>11 DEF TypeOK, Replace
  <2>2. sup' = sup /\ handler' = [handler EXCEPT ![v] = "accepted"]
    BY <1>11, Zenon DEF Replace
  <2>3. ASSUME ~Ended, NEW u \in Workers, handler'[u] = "offering"
        PROVE  \E i \in 1..Len(offers') : offers'[i] = u
    <3>1. PICK i \in 1..Len(offers) : offers[i] = u
      BY <2>2, <2>3 DEF Queue
    <3>2. u # v
      BY <2>2, <2>3, Zenon DEF TypeOK
    <3>3. i - 1 \in 1..Len(offers') /\ offers'[i - 1] = u
      BY <2>1, <3>1, <3>2
    <3> QED  BY <3>3, Zenon
  <2>4. ASSUME ~Ended, NEW i \in 1..Len(offers')
        PROVE  /\ handler'[offers'[i]] = "offering"
               /\ \A j \in 1..Len(offers') : offers'[i] = offers'[j] => i = j
    <3>1. i + 1 \in 1..Len(offers) /\ 1 \in 1..Len(offers) /\ i + 1 # 1
      BY <2>1
    <3>2. offers[i + 1] # v /\ handler[offers[i + 1]] = "offering" /\ offers[i + 1] \in Workers
      BY <2>1, <2>4, <3>1, Zenon DEF Queue
    <3>3. ASSUME NEW j \in 1..Len(offers'), offers'[i] = offers'[j] PROVE i = j
      <4>1. j + 1 \in 1..Len(offers) /\ offers[i + 1] = offers[j + 1]
        BY <2>1, <3>3
      <4>2. i + 1 = j + 1
        BY <2>4, <3>1, <4>1, Zenon DEF Queue
      <4> QED  BY <2>1, <4>2
    <3>4. offers'[i] = offers[i + 1]
      BY <2>1, Zenon
    <3>5. handler'[offers'[i]] = "offering"
      BY <2>2, <3>2, <3>4, Zenon DEF TypeOK
    <3> QED  BY <3>3, <3>5, Zenon
  <2> QED  BY <2>2, <2>3, <2>4, Zenon DEF Queue, Ended
<1>12. CASE UNCHANGED vars
  BY <1>12, <1>1, Zenon DEF vars
<1> HIDE DEF procVars, rpcVars, supVars, envVars
<1> QED
  BY <1>1, <1>2, <1>3, <1>4, <1>5, <1>6, <1>7, <1>8, <1>9, <1>10, <1>11, <1>12, Zenon
  DEF Next, SupNext, WorkerNext, HandlerNext, Terminated

\* Before the first readiness there is the first worker and nothing else.
LEMMA BootStep == IInv /\ [Next]_vars => Boot'
<1> SUFFICES ASSUME TypeOK, Boot, Processes, Births, Requests, Lists, [Next]_vars PROVE Boot'
  BY Zenon DEF IInv
<1> USE SupervisorAssumption DEF procVars, rpcVars, supVars, envVars
<1>1. UNCHANGED <<waiter, sup, superseded, current, offers, aborts, proc, duty, child, exitCh,
                  signalled, announced, crashed>> => Boot'
  BY Zenon DEF Boot, Ended
<1>2. ASSUME StopRequested \/ ControlFails
      PROVE  UNCHANGED <<waiter, sup, superseded, current, offers, aborts, proc, duty, child,
                         exitCh, signalled, announced, crashed>>
  BY <1>2, Zenon DEF StopRequested, ControlFails, ControlServed
<1>3. ASSUME NEW w \in Workers, BecomeReady(w) PROVE Boot'
  BY <1>3 DEF Boot, Ended, BecomeReady
<1>4. ASSUME NEW w \in Workers, ExitAsked(w) \/ ReadyTooLate(w) PROVE Boot'
  BY <1>4 DEF TypeOK, Boot, Processes, Alive, Ended, ExitAsked, ReadyTooLate, Heard, Dies, EndRpc
<1>5. ASSUME NEW w \in Workers, Crash(w) PROVE Boot'
  BY <1>5 DEF TypeOK, Boot, Processes, Alive, Ended, Crash, Dies, EndRpc
<1>6. ASSUME NEW w \in Workers, NEW rebind \in BOOLEAN, Request(w, rebind) PROVE Boot'
  BY <1>6 DEF Boot, Ended, Request
<1>7. ASSUME NEW w \in Workers, RequestFails(w) PROVE Boot'
  BY <1>7 DEF Boot, Ended, RequestFails, EndRpc
<1>8. ASSUME NEW w \in Workers, HandOver(w) PROVE Boot'
  BY <1>8, Zenon DEF Boot, HandOver, EndRpc
<1>9. ASSUME NEW w \in Workers, NotReady(w) PROVE Boot'
  BY <1>9, Zenon DEF Boot, NotReady, EndRpc
<1>10. ASSUME NEW w \in Workers, AbortFails(w) PROVE Boot'
  BY <1>10, Zenon DEF Boot, AbortFails, EndRpc
<1>11. ASSUME NEW w \in Workers, NEW v \in Workers, Spawn(w, v) PROVE Boot'
  BY <1>11, Zenon DEF Boot, Spawn, ControlServed
<1>12. ASSUME NEW v \in Workers, Answer(v) PROVE Boot'
  BY <1>12, Zenon DEF Boot, Ended, Answer
<1>13. ASSUME NEW v \in Workers, HandlerStop(v) PROVE Boot'
  BY <1>13, Zenon DEF Boot, Ended, HandlerStop
<1>14. ASSUME NEW v \in Workers, HandlerKill(v) PROVE Boot'
  BY <1>14, Zenon DEF Boot, Births, HandlerKill, Dies, EndRpc
<1>15. ASSUME NEW v \in Workers, HandlerStopped(v) PROVE Boot'
  BY <1>15 DEF Boot, Ended, HandlerStopped
<1>16. ASSUME StopTimeout PROVE Boot'
  BY <1>16 DEF TypeOK, Boot, Processes, Alive, Ended, Stopping, StopTimeout, Dies, EndRpc
<1>17. ASSUME BootReady PROVE Boot'
  BY <1>17, Zenon DEF Boot, BootReady
<1>18. ASSUME BootExited PROVE Boot'
  BY <1>18, Zenon DEF Boot, Ended, BootExited
<1>19. ASSUME BootFailed PROVE Boot'
  BY <1>19, Zenon DEF Boot, BootFailed, StopWorker
<1>20. ASSUME BootStop PROVE Boot'
  BY <1>20, Zenon DEF Boot, BootStop, StopWorker
<1>21. ASSUME BootStopped PROVE Boot'
  BY <1>21 DEF Boot, Ended, BootStopped, StopReceives
<1>22. ASSUME NEW v \in Workers, Replace(v) PROVE Boot'
  BY <1>22, Zenon DEF Boot, Replace, Running, Reaped
<1>23. ASSUME NEW v \in Workers, AbortRefused(v) PROVE Boot'
  BY <1>23, Zenon DEF Boot, AbortRefused, Running, Reaped, AbortAnswered
<1>24. ASSUME NEW v \in Workers, AbortTaken(v) PROVE Boot'
  BY <1>24, Zenon DEF Boot, AbortTaken, Running, Reaped, StopWorker
<1>25. ASSUME AbortStopped PROVE Boot'
  BY <1>25, Zenon DEF Boot, Ended, AbortStopped, AbortAnswered, StopReceives
<1>26. ASSUME LoopStop PROVE Boot'
  BY <1>26, Zenon DEF Boot, Ended, LoopStop, StopWorker
<1>27. ASSUME CurrentStopped PROVE Boot'
  BY <1>27, Zenon DEF Boot, Ended, CurrentStopped, StopReceives
<1>28. ASSUME CurrentExited PROVE Boot'
  BY <1>28, Zenon DEF Boot, Ended, CurrentExited
<1>29. ASSUME LoopControlFailed PROVE Boot'
  BY <1>29, Zenon DEF Boot, Ended, LoopControlFailed
<1>30. ASSUME Unwind PROVE Boot'
  BY <1>30, Zenon DEF Boot, Unwind, StopWorker
<1>31. ASSUME UnwindStopped PROVE Boot'
  BY <1>31, Zenon DEF Boot, Ended, UnwindStopped, StopReceives
<1>32. ASSUME Unwound PROVE Boot'
  BY <1>32, Zenon DEF Boot, Ended, Unwound
<1>33. ASSUME Exit PROVE Boot'
  BY <1>33, Zenon DEF Boot, Ended, Exit
<1>34. ASSUME WaiterReturns PROVE Boot'
  BY <1>34 DEF TypeOK, Boot, Ended, WaiterReturns
<1>35. CASE UNCHANGED vars
  BY <1>35, <1>1, Zenon DEF vars
<1> HIDE DEF procVars, rpcVars, supVars, envVars
<1> QED
  BY <1>1, <1>2, <1>3, <1>4, <1>5, <1>6, <1>7, <1>8, <1>9, <1>10, <1>11, <1>12, <1>13, <1>14,
    <1>15, <1>16, <1>17, <1>18, <1>19, <1>20, <1>21, <1>22, <1>23, <1>24, <1>25, <1>26, <1>27,
      <1>28, <1>29, <1>30, <1>31, <1>32, <1>33, <1>34, <1>35, Zenon
  DEF Next, SupNext, WorkerNext, HandlerNext, Terminated

\* runSupervisorLoop's variables never name a worker whose exit status was received.
LEMMA ListStep == IInv /\ [Next]_vars => Lists'
<1> SUFFICES ASSUME TypeOK, Lists, Births, Queue, Boot, Processes, [Next]_vars PROVE Lists'
  BY Zenon DEF IInv
<1> USE SupervisorAssumption DEF procVars, rpcVars, supVars, envVars
<1>1. UNCHANGED <<sup, target, signalled, exitCh, current, handler, superseded, rank>> => Lists'
  BY Zenon DEF Lists, Accepted, InLoop
<1>2. ASSUME NEW w \in Workers, BecomeReady(w) \/ RequestFails(w) \/ HandOver(w)
                                \/ NotReady(w) \/ AbortFails(w)
      PROVE  UNCHANGED <<sup, target, signalled, exitCh, current, handler, superseded, rank>>
  BY <1>2, Zenon DEF BecomeReady, RequestFails, EndRpc, HandOver, NotReady, AbortFails
<1>3. ASSUME NEW w \in Workers, NEW rebind \in BOOLEAN, Request(w, rebind)
      PROVE  UNCHANGED <<sup, target, signalled, exitCh, current, handler, superseded, rank>>
  BY <1>3, Zenon DEF Request
<1>4. ASSUME StopRequested \/ ControlFails
      PROVE  UNCHANGED <<sup, target, signalled, exitCh, current, handler, superseded, rank>>
  BY <1>4, Zenon DEF StopRequested, ControlFails, ControlServed
<1>5. ASSUME NEW w \in Workers, ExitAsked(w) \/ ReadyTooLate(w) PROVE Lists'
  <2>1. Dies(w) /\ UNCHANGED <<sup, target, signalled, current, handler, superseded, rank>>
    BY <1>5, Zenon DEF ExitAsked, ReadyTooLate
  <2> QED  BY <2>1 DEF Lists, Accepted, InLoop, Dies
<1>6. ASSUME NEW w \in Workers, Crash(w) PROVE Lists'
  BY <1>6 DEF Lists, Accepted, InLoop, Crash, Dies, EndRpc
<1>7. ASSUME NEW w \in Workers, NEW v \in Workers, Spawn(w, v) PROVE Lists'
  BY <1>7 DEF Lists, Births, Accepted, InLoop, Spawn, ControlServed
<1>8. ASSUME NEW v \in Workers, Answer(v) PROVE Lists'
  BY <1>8 DEF Lists, Accepted, InLoop, Answer
<1>9. ASSUME NEW v \in Workers, HandlerStop(v) PROVE Lists'
  BY <1>9, Zenon DEF Lists, Accepted, InLoop, HandlerStop, TypeOK
<1>10. ASSUME NEW v \in Workers, HandlerKill(v) PROVE Lists'
  BY <1>10, Zenon DEF Lists, Accepted, InLoop, HandlerKill, Dies, EndRpc, TypeOK
<1>11. ASSUME NEW v \in Workers, HandlerStopped(v) PROVE Lists'
  BY <1>11 DEF Lists, Births, Accepted, InLoop, HandlerStopped
<1>12. ASSUME StopTimeout PROVE Lists'
  BY <1>12 DEF Lists, Accepted, InLoop, StopTimeout, Dies, EndRpc
<1>13. ASSUME BootReady PROVE Lists'
  BY <1>13, Zenon DEF Lists, Boot, Accepted, Stopping, BootReady
<1>14. ASSUME BootExited PROVE Lists'
  BY <1>14, Zenon DEF Lists, Accepted, InLoop, Stopping, BootExited
<1>15. ASSUME BootFailed PROVE Lists'
  BY <1>15, Zenon DEF Lists, Accepted, InLoop, BootFailed, StopWorker
<1>16. ASSUME BootStop PROVE Lists'
  BY <1>16, Zenon DEF Lists, Accepted, InLoop, BootStop, StopWorker
<1>17. ASSUME BootStopped PROVE Lists'
  BY <1>17, Zenon DEF Lists, Boot, InLoop, Stopping, BootStopped, StopReceives
<1>18. ASSUME NEW v \in Workers, Replace(v) PROVE Lists'
  <2>1. /\ handler[v] = "offering" /\ exitCh[v] # "taken" /\ v # First
        /\ v \notin superseded \cup signalled \cup {current}
    BY <1>18 DEF Queue, Births, Ended, Replace
  <2>2. /\ superseded' = Running(superseded) \cup {current} /\ current' = v
        /\ exitCh' = Reaped(superseded) /\ rank' = [rank EXCEPT ![v] = rank[current] + 1]
        /\ handler' = [handler EXCEPT ![v] = "accepted"] /\ sup = "loop"
        /\ UNCHANGED <<sup, target, signalled>>
    BY <1>18, Zenon DEF Replace
  <2>3. /\ \A w \in superseded' : w \in superseded \cup {current} /\ rank'[w] = rank[w]
        /\ \A w \in superseded' : Accepted(w)' /\ exitCh'[w] # "taken"
        /\ rank'[v] = rank[current] + 1 /\ exitCh'[v] # "taken" /\ Accepted(v)'
    BY <2>1, <2>2 DEF TypeOK, Lists, Accepted, Running, Reaped
  <2> QED  BY <2>1, <2>2, <2>3 DEF TypeOK, Lists, InLoop
<1>19. ASSUME NEW v \in Workers, AbortRefused(v) PROVE Lists'
  BY <1>19 DEF TypeOK, Lists, Accepted, InLoop, AbortRefused, Running, Reaped, AbortAnswered
<1>20. ASSUME NEW v \in Workers, AbortTaken(v) PROVE Lists'
  BY <1>20 DEF TypeOK, Lists, Accepted, InLoop, AbortTaken, Running, Reaped, StopWorker
<1>21. ASSUME AbortStopped PROVE Lists'
  BY <1>21 DEF Lists, Accepted, InLoop, Stopping, AbortStopped, AbortAnswered, StopReceives
<1>22. ASSUME LoopStop PROVE Lists'
  BY <1>22, Zenon DEF Lists, Accepted, InLoop, LoopStop, StopWorker
<1>23. ASSUME CurrentStopped PROVE Lists'
  BY <1>23, Zenon DEF Lists, Accepted, InLoop, Stopping, CurrentStopped, StopReceives, TypeOK
<1>24. ASSUME CurrentExited PROVE Lists'
  BY <1>24, Zenon DEF Lists, Accepted, InLoop, Stopping, CurrentExited, TypeOK
<1>25. ASSUME LoopControlFailed PROVE Lists'
  BY <1>25, Zenon DEF Lists, Accepted, InLoop, Stopping, LoopControlFailed
<1>26. ASSUME Unwind PROVE Lists'
  BY <1>26, Zenon DEF Lists, Accepted, InLoop, Unwind, StopWorker
<1>27. ASSUME UnwindStopped PROVE Lists'
  BY <1>27, Zenon DEF Lists, Accepted, InLoop, Stopping, UnwindStopped, StopReceives, TypeOK
<1>28. ASSUME Unwound PROVE Lists'
  BY <1>28, Zenon DEF Lists, InLoop, Stopping, Unwound
<1>29. ASSUME Exit PROVE Lists'
  BY <1>29, Zenon DEF Lists, Accepted, InLoop, Stopping, Exit
<1>30. ASSUME WaiterReturns PROVE Lists'
  BY <1>30, Zenon DEF Lists, Boot, Ended, InLoop, WaiterReturns
<1>31. CASE UNCHANGED vars
  BY <1>31, <1>1, Zenon DEF vars
<1> HIDE DEF procVars, rpcVars, supVars, envVars
<1> QED
  BY <1>1, <1>2, <1>3, <1>4, <1>5, <1>6, <1>7, <1>8, <1>9, <1>10, <1>11, <1>12, <1>13, <1>14,
    <1>15, <1>16, <1>17, <1>18, <1>19, <1>20, <1>21, <1>22, <1>23, <1>24, <1>25, <1>26, <1>27,
      <1>28, <1>29, <1>30, <1>31, Zenon
  DEF Next, SupNext, WorkerNext, HandlerNext, Terminated

\* The loop loses no worker it accepted: one is listed until its exit status is received.
LEMMA ListedStep == IInv /\ [Next]_vars => Listed'
<1> SUFFICES ASSUME TypeOK, Listed, Lists, Births, Boot, Processes, [Next]_vars PROVE Listed'
  BY Zenon DEF IInv
<1> USE SupervisorAssumption DEF procVars, rpcVars, supVars, envVars
<1>1. UNCHANGED <<sup, target, exitCh, current, handler, superseded, controlFailed>> => Listed'
  BY DEF Listed, Accepted, Ended
<1>2. ASSUME NEW w \in Workers, BecomeReady(w) \/ RequestFails(w) \/ HandOver(w)
                                \/ NotReady(w) \/ AbortFails(w)
      PROVE  UNCHANGED <<sup, target, exitCh, current, handler, superseded, controlFailed>>
  BY <1>2, Zenon DEF BecomeReady, RequestFails, EndRpc, HandOver, NotReady, AbortFails
<1>3. ASSUME NEW w \in Workers, NEW rebind \in BOOLEAN, Request(w, rebind)
      PROVE  UNCHANGED <<sup, target, exitCh, current, handler, superseded, controlFailed>>
  BY <1>3, Zenon DEF Request
<1>4. ASSUME StopRequested
      PROVE  UNCHANGED <<sup, target, exitCh, current, handler, superseded, controlFailed>>
  BY <1>4, Zenon DEF StopRequested
<1>5. ASSUME NEW w \in Workers, ExitAsked(w) \/ ReadyTooLate(w) PROVE Listed'
  <2>1. Dies(w) /\ UNCHANGED <<sup, target, current, handler, superseded, controlFailed>>
    BY <1>5, Zenon DEF ExitAsked, ReadyTooLate
  <2> QED  BY <2>1, Zenon DEF Listed, Processes, Accepted, Alive, Ended, Dies, TypeOK
<1>6. ASSUME NEW w \in Workers, Crash(w) PROVE Listed'
  BY <1>6, Zenon DEF Listed, Processes, Accepted, Alive, Ended, Crash, Dies, EndRpc, TypeOK
<1>7. ASSUME NEW w \in Workers, NEW v \in Workers, Spawn(w, v) PROVE Listed'
  BY <1>7, Zenon DEF Listed, Accepted, Ended, Spawn, ControlServed, TypeOK
<1>8. ASSUME NEW v \in Workers, Answer(v) PROVE Listed'
  BY <1>8, Zenon DEF Listed, Accepted, Ended, Answer, TypeOK
<1>9. ASSUME NEW v \in Workers, HandlerStop(v) PROVE Listed'
  BY <1>9, Zenon DEF Listed, Accepted, Ended, HandlerStop, TypeOK
<1>10. ASSUME NEW v \in Workers, HandlerKill(v) PROVE Listed'
  BY <1>10 DEF Listed, Births, Accepted, HandlerKill, Dies, EndRpc
<1>11. ASSUME NEW v \in Workers, HandlerStopped(v) PROVE Listed'
  BY <1>11, Zenon DEF TypeOK, Listed, Accepted, Ended, HandlerStopped
<1>12. ASSUME StopTimeout PROVE Listed'
  BY <1>12 DEF Listed, Lists, Accepted, Ended, Stopping, StopTimeout, Dies, EndRpc
<1>13. ASSUME BootReady PROVE Listed'
  BY <1>13, Zenon DEF Listed, Births, Boot, Accepted, Ended, BootReady
<1>14. ASSUME BootExited PROVE Listed'
  BY <1>14, Zenon DEF Listed, Births, Boot, Accepted, BootExited
<1>15. ASSUME BootFailed PROVE Listed'
  BY <1>15, Zenon DEF Listed, Ended, BootFailed, StopWorker
<1>16. ASSUME BootStop PROVE Listed'
  BY <1>16, Zenon DEF Listed, Ended, BootStop, StopWorker
<1>17. ASSUME BootStopped PROVE Listed'
  BY <1>17 DEF TypeOK, Listed, Lists, Births, Boot, Accepted, BootStopped, StopReceives
<1>18. ASSUME NEW v \in Workers, Replace(v) PROVE Listed'
  BY <1>18, Zenon DEF Listed, Accepted, Ended, Replace, Running, Reaped, TypeOK
<1>19. ASSUME NEW v \in Workers, AbortRefused(v) PROVE Listed'
  BY <1>19, Zenon DEF Listed, Accepted, Ended, AbortRefused, Running, Reaped, AbortAnswered
<1>20. ASSUME NEW v \in Workers, AbortTaken(v) PROVE Listed'
  BY <1>20, Zenon DEF Listed, Accepted, Ended, AbortTaken, Running, Reaped, StopWorker
<1>21. ASSUME AbortStopped PROVE Listed'
  BY <1>21, Zenon DEF TypeOK, Listed, Accepted, Ended, AbortStopped, AbortAnswered, StopReceives
<1>22. ASSUME LoopStop PROVE Listed'
  BY <1>22, Zenon DEF Listed, Accepted, Ended, LoopStop, StopWorker
<1>23. ASSUME CurrentStopped PROVE Listed'
  BY <1>23 DEF TypeOK, Listed, Lists, Accepted, Ended, CurrentStopped, StopReceives
<1>24. ASSUME CurrentExited PROVE Listed'
  BY <1>24, Zenon DEF TypeOK, Listed, Accepted, Ended, CurrentExited
<1>25. ASSUME LoopControlFailed PROVE Listed'
  BY <1>25, Zenon DEF Listed, LoopControlFailed
<1>26. ASSUME Unwind PROVE Listed'
  BY <1>26, Zenon DEF Listed, Accepted, Ended, Unwind, StopWorker
<1>27. ASSUME UnwindStopped PROVE Listed'
  BY <1>27, Zenon DEF TypeOK, Listed, Accepted, Ended, UnwindStopped, StopReceives
<1>28. ASSUME Unwound PROVE Listed'
  BY <1>28, Zenon DEF Listed, Accepted, Unwound
<1>29. ASSUME Exit PROVE Listed'
  BY <1>29, Zenon DEF Listed, Accepted, Ended, Exit
<1>30. ASSUME WaiterReturns PROVE Listed'
  BY <1>30, Zenon DEF Listed, Boot, Accepted, Ended, WaiterReturns
<1>31. ASSUME ControlFails PROVE Listed'
  BY <1>31, Zenon DEF Listed, Accepted, ControlFails, ControlServed
<1>32. CASE UNCHANGED vars
  BY <1>32, <1>1, Zenon DEF vars
<1> HIDE DEF procVars, rpcVars, supVars, envVars
<1> QED
  BY <1>1, <1>2, <1>3, <1>4, <1>5, <1>6, <1>7, <1>8, <1>9, <1>10, <1>11, <1>12, <1>13, <1>14,
    <1>15, <1>16, <1>17, <1>18, <1>19, <1>20, <1>21, <1>22, <1>23, <1>24, <1>25, <1>26, <1>27,
      <1>28, <1>29, <1>30, <1>31, <1>32, Zenon
  DEF Next, SupNext, WorkerNext, HandlerNext, Terminated

\* Worker u goes on as before, its RPC ends, or its process does.
Ceases(u) ==
    /\ \/ child'[u] = child[u] /\ duty'[u] = duty[u]
       \/ child'[u] = None /\ duty'[u] = "idle"
    /\ \/ proc'[u] = proc[u] /\ (duty[u] = "replaced" => duty'[u] = "replaced")
       \/ /\ proc[u] \in {"starting", "ready"} /\ proc'[u] = "dead"
          /\ \/ u \in signalled \cup (Workers \ announced)
             \/ duty[u] = "replaced" \/ "ready" \in crashed'

\* RPCs end, processes die, abort requests are answered; nothing else happens.
Ends ==
    /\ UNCHANGED <<handler, rank, announced, signalled, offers>>
    /\ aborts' \subseteq aborts
    /\ InLoop' => InLoop
    /\ Ended' <=> Ended
    /\ "ready" \in crashed => "ready" \in crashed'
    /\ \A u \in Workers : Ceases(u)

\* The actions that end RPCs or processes: the dead were signalled, had handed over, were not
\* ready, or crashed.
LEMMA EndsStep ==
  ASSUME TypeOK, Processes, Births, Lists,
         \/ StopTimeout \/ AbortStopped
         \/ \E w \in Workers : \/ ExitAsked(w) \/ ReadyTooLate(w) \/ Crash(w) \/ RequestFails(w)
                               \/ AbortFails(w) \/ HandlerKill(w) \/ AbortRefused(w)
  PROVE  Ends
<1> USE SupervisorAssumption DEF procVars, rpcVars, supVars, envVars
<1>1. ASSUME StopTimeout PROVE Ends
  <2>1. /\ UNCHANGED <<handler, rank, announced, signalled, offers>> /\ aborts' \subseteq aborts
        /\ (InLoop' => InLoop) /\ (Ended' <=> Ended)
        /\ ("ready" \in crashed => "ready" \in crashed')
    BY <1>1, Zenon DEF StopTimeout, Dies, EndRpc, InLoop, Ended
  <2>2. \A u \in Workers : Ceases(u)
    BY <1>1 DEF TypeOK, Ceases, Lists, Alive, StopTimeout, Dies, EndRpc
  <2> QED  BY <2>1, <2>2, Zenon DEF Ends
<1>2. ASSUME AbortStopped PROVE Ends
  <2>1. /\ UNCHANGED <<handler, rank, announced, signalled, offers>> /\ aborts' \subseteq aborts
        /\ (InLoop' => InLoop) /\ (Ended' <=> Ended)
        /\ ("ready" \in crashed => "ready" \in crashed')
    BY <1>2, Zenon DEF AbortStopped, AbortAnswered, StopReceives, InLoop, Ended
  <2>2. \A u \in Workers : Ceases(u)
    BY <1>2, Zenon DEF Ceases, AbortStopped, AbortAnswered, StopReceives
  <2> QED  BY <2>1, <2>2, Zenon DEF Ends
<1>3. ASSUME NEW w \in Workers, ExitAsked(w) \/ ReadyTooLate(w) PROVE Ends
  <2>1. /\ UNCHANGED <<handler, rank, announced, signalled, offers>> /\ aborts' \subseteq aborts
        /\ (InLoop' => InLoop) /\ (Ended' <=> Ended)
        /\ ("ready" \in crashed => "ready" \in crashed')
    BY <1>3, Zenon DEF ExitAsked, ReadyTooLate, Dies, EndRpc, InLoop, Ended
  <2>2. \A u \in Workers : Ceases(u)
    BY <1>3 DEF TypeOK, Ceases, Processes, Alive, ExitAsked, ReadyTooLate, Dies, EndRpc
  <2> QED  BY <2>1, <2>2, Zenon DEF Ends
<1>4. ASSUME NEW w \in Workers, Crash(w) PROVE Ends
  <2>1. /\ UNCHANGED <<handler, rank, announced, signalled, offers>> /\ aborts' \subseteq aborts
        /\ (InLoop' => InLoop) /\ (Ended' <=> Ended)
        /\ ("ready" \in crashed => "ready" \in crashed')
    BY <1>4, Zenon DEF Crash, Dies, EndRpc, InLoop, Ended
  <2>2. \A u \in Workers : Ceases(u)
    BY <1>4 DEF TypeOK, Ceases, Processes, Alive, Crash, Dies, EndRpc
  <2> QED  BY <2>1, <2>2, Zenon DEF Ends
<1>5. ASSUME NEW w \in Workers, RequestFails(w) PROVE Ends
  <2>1. /\ UNCHANGED <<handler, rank, announced, signalled, offers>> /\ aborts' \subseteq aborts
        /\ (InLoop' => InLoop) /\ (Ended' <=> Ended)
        /\ ("ready" \in crashed => "ready" \in crashed')
    BY <1>5, Zenon DEF RequestFails, EndRpc, InLoop, Ended
  <2>2. \A u \in Workers : Ceases(u)
    BY <1>5, Zenon DEF TypeOK, Ceases, RequestFails, EndRpc
  <2> QED  BY <2>1, <2>2, Zenon DEF Ends
<1>6. ASSUME NEW w \in Workers, AbortFails(w) PROVE Ends
  <2>1. /\ UNCHANGED <<handler, rank, announced, signalled, offers>> /\ aborts' \subseteq aborts
        /\ (InLoop' => InLoop) /\ (Ended' <=> Ended)
        /\ ("ready" \in crashed => "ready" \in crashed')
    BY <1>6, Zenon DEF AbortFails, EndRpc, InLoop, Ended
  <2>2. \A u \in Workers : Ceases(u)
    BY <1>6, Zenon DEF TypeOK, Ceases, AbortFails, EndRpc
  <2> QED  BY <2>1, <2>2, Zenon DEF Ends
<1>7. ASSUME NEW v \in Workers, HandlerKill(v) PROVE Ends
  <2>1. /\ UNCHANGED <<handler, rank, announced, signalled, offers>> /\ aborts' \subseteq aborts
        /\ (InLoop' => InLoop) /\ (Ended' <=> Ended)
        /\ ("ready" \in crashed => "ready" \in crashed')
    BY <1>7, Zenon DEF HandlerKill, Dies, EndRpc, InLoop, Ended
  <2>2. \A u \in Workers : Ceases(u)
    BY <1>7 DEF TypeOK, Ceases, Births, Alive, HandlerKill, Dies, EndRpc
  <2> QED  BY <2>1, <2>2, Zenon DEF Ends
<1>8. ASSUME NEW v \in Workers, AbortRefused(v) PROVE Ends
  <2>1. /\ UNCHANGED <<handler, rank, announced, signalled, offers>> /\ aborts' \subseteq aborts
        /\ (InLoop' => InLoop) /\ (Ended' <=> Ended)
        /\ ("ready" \in crashed => "ready" \in crashed')
    BY <1>8, Zenon DEF AbortRefused, Running, Reaped, AbortAnswered, InLoop, Ended
  <2>2. \A u \in Workers : Ceases(u)
    BY <1>8, Zenon DEF Ceases, AbortRefused, Running, Reaped, AbortAnswered
  <2> QED  BY <2>1, <2>2, Zenon DEF Ends
<1> QED  BY <1>1, <1>2, <1>3, <1>4, <1>5, <1>6, <1>7, <1>8, Zenon

\* RPCs end, processes die, abort requests are withdrawn, the loop ends: no RPC loses what
\* it needs of its replacement.
Lapses ==
    /\ UNCHANGED <<handler, rank, offers>>
    /\ aborts' \subseteq aborts
    /\ InLoop' => InLoop /\ signalled' \subseteq signalled \cup aborts
    /\ Ended => Ended'
    /\ \A u \in Workers : Alive(u)' => Alive(u)
    /\ \A u \in Workers : \/ child'[u] = child[u] /\ duty'[u] = duty[u]
                          \/ child'[u] = None /\ duty'[u] \in {"idle", "replaced"}

\* Requests survives such steps.
LEMMA RequestsLapse ==
  ASSUME Requests, Lapses
  PROVE  Requests'
<1>1. ASSUME NEW w \in Workers, NEW v \in Workers, child'[w] = v PROVE Claim(w, v)'
  <2>1. Claim(w, v) /\ child[w] = v /\ duty'[w] = duty[w]
    BY <1>1, SupervisorAssumption, Zenon DEF Requests, Lapses
  <2>2. \A u \in Workers : child'[u] = v => u = w
    BY <2>1, SupervisorAssumption, Zenon DEF Claim, Lapses
  <2> QED  BY <2>1, <2>2, Zenon DEF Claim, Accepted, Lapses
<1> QED  BY <1>1, SupervisorAssumption, Zenon DEF Requests, Lapses

\* A worker's replacement is its own, and follows it in the order of acceptance.
LEMMA RequestStep == IInv /\ [Next]_vars => Requests'
<1> SUFFICES ASSUME TypeOK, Requests, Lists, Listed, Births, Queue, Boot, Processes, [Next]_vars
             PROVE  Requests'
  BY Zenon DEF IInv
<1> USE SupervisorAssumption DEF procVars, rpcVars, supVars, envVars
<1>1. ASSUME UNCHANGED <<proc, duty, child, handler, rank, offers, aborts>>,
             InLoop' => InLoop /\ signalled' = signalled, Ended => Ended'
      PROVE  Requests'
  <2>1. Lapses
    BY <1>1, Zenon DEF Lapses, Alive
  <2> QED  BY <2>1, RequestsLapse, Zenon
<1>2. ASSUME WaiterReturns \/ StopRequested \/ ControlFails \/ UNCHANGED vars PROVE Requests'
  <2>1. UNCHANGED <<proc, duty, child, handler, rank, offers, aborts, sup, signalled>>
    BY <1>2, Zenon DEF vars, WaiterReturns, StopRequested, ControlFails
  <2> QED  BY <1>1, <2>1, Zenon DEF InLoop, Ended
<1>3. ASSUME \/ StopTimeout \/ AbortStopped
             \/ \E w \in Workers : \/ ExitAsked(w) \/ ReadyTooLate(w) \/ Crash(w) \/ RequestFails(w)
                                   \/ AbortFails(w) \/ HandlerKill(w) \/ AbortRefused(w)
      PROVE  Requests'
  <2>1. Ends
    BY <1>3, EndsStep, Zenon
  <2>2. Lapses
    BY <2>1, Zenon DEF Ends, Ceases, Lapses, Alive
  <2> QED  BY <2>2, RequestsLapse, Zenon
<1>4. ASSUME BootExited \/ BootFailed \/ BootStop \/ BootStopped \/ LoopStop PROVE Requests'
  <2>1. UNCHANGED <<proc, duty, child, handler, rank, offers, aborts>>
    BY <1>4, Zenon DEF BootExited, BootFailed, BootStop, BootStopped, LoopStop, StopReceives
  <2>2. ~InLoop' /\ ~Ended
    BY <1>4, Zenon DEF InLoop, Ended, BootExited, BootFailed, BootStop, BootStopped, LoopStop,
                       StopWorker, StopReceives
  <2> QED  BY <1>1, <2>1, <2>2, Zenon
<1>5. ASSUME CurrentStopped \/ CurrentExited \/ LoopControlFailed \/ Unwind \/ UnwindStopped
             \/ Unwound \/ Exit
      PROVE  Requests'
  <2>1. UNCHANGED <<proc, duty, child, handler, rank, offers, aborts>>
    BY <1>5, Zenon DEF CurrentStopped, CurrentExited, LoopControlFailed, Unwind, UnwindStopped,
                       Unwound, Exit, StopReceives
  <2>2. ~InLoop' /\ (Ended => Ended')
    BY <1>5, Zenon DEF InLoop, Ended, CurrentStopped, CurrentExited, LoopControlFailed, Unwind,
                       UnwindStopped, Unwound, Exit, StopWorker, StopReceives
  <2> QED  BY <1>1, <2>1, <2>2, Zenon
<1>6. ASSUME NEW v \in Workers, AbortTaken(v) PROVE Requests'
  <2>1. /\ UNCHANGED <<proc, duty, child, handler, rank, offers>> /\ aborts' \subseteq aborts
        /\ InLoop /\ ~Ended /\ signalled' \subseteq signalled \cup aborts
    BY <1>6, Zenon DEF AbortTaken, StopWorker, InLoop, Ended
  <2>2. Lapses
    BY <2>1, Zenon DEF Lapses, Alive
  <2> QED  BY <2>2, RequestsLapse, Zenon
<1>7. ASSUME NEW w \in Workers, BecomeReady(w) PROVE Requests'
  <2>1. /\ UNCHANGED <<duty, child, handler, rank, offers, aborts, sup, signalled>>
        /\ \A u \in Workers : Alive(u)' => Alive(u)
    BY <1>7, Zenon DEF TypeOK, BecomeReady, Alive
  <2>2. Lapses
    BY <2>1, Zenon DEF Lapses, InLoop, Ended
  <2> QED  BY <2>2, RequestsLapse, Zenon
<1>8. ASSUME NEW w \in Workers, NEW rebind \in BOOLEAN, Request(w, rebind) PROVE Requests'
  <2>1. /\ UNCHANGED <<proc, child, handler, rank, offers, aborts, sup, signalled>>
        /\ duty' = [duty EXCEPT ![w] = "requesting"] /\ child[w] = None
    BY <1>8, Zenon DEF Request, Processes
  <2>2. \A u \in Workers \ {w} : duty'[u] = duty[u]
    BY <2>1, Zenon DEF TypeOK
  <2>3. duty'[w] = "requesting"
    BY <2>1, Zenon DEF TypeOK
  <2>4. ASSUME NEW u \in Workers, NEW x \in Workers, child'[u] = x PROVE Claim(u, x)'
    <3>1. Claim(u, x) /\ duty'[u] = duty[u]
      BY <2>1, <2>2, <2>4, Zenon DEF Requests
    <3> QED  BY <2>1, <3>1, Zenon DEF Claim, Accepted, InLoop, Ended, Alive
  <2> QED  BY <2>1, <2>2, <2>3, <2>4, Zenon DEF Requests
<1>9. ASSUME NEW w \in Workers, HandOver(w) \/ (NotReady(w) /\ w \in rebinding) PROVE Requests'
  <2>1. /\ UNCHANGED <<handler, rank, offers, signalled, sup, proc, aborts>>
        /\ child' = [child EXCEPT ![w] = None]
        /\ \E to \in {"idle", "replaced"} : duty' = [duty EXCEPT ![w] = to]
    BY <1>9, Zenon DEF HandOver, NotReady, EndRpc
  <2>2. \A u \in Workers : \/ child'[u] = child[u] /\ duty'[u] = duty[u]
                           \/ child'[u] = None /\ duty'[u] \in {"idle", "replaced"}
    BY <2>1, Zenon DEF TypeOK
  <2>3. Lapses
    BY <2>1, <2>2, Zenon DEF Lapses, InLoop, Ended, Alive
  <2> QED  BY <2>3, RequestsLapse, Zenon
<1>10. ASSUME NEW w \in Workers, NotReady(w), w \notin rebinding PROVE Requests'
  <2>1. /\ UNCHANGED <<handler, rank, offers, signalled, sup, proc, child>>
        /\ duty' = [duty EXCEPT ![w] = "aborting"] /\ duty[w] = "waiting"
        /\ aborts' = aborts \cup {child[w]}
    BY <1>10, Zenon DEF NotReady
  <2>2. duty'[w] = "aborting" /\ \A u \in Workers \ {w} : duty'[u] = duty[u]
    BY <2>1, Zenon DEF TypeOK
  <2>3. child[w] \in Workers /\ Claim(w, child[w])
    BY <2>1, Zenon DEF TypeOK, Requests
  <2>4. ASSUME NEW u \in Workers, NEW x \in Workers, child'[u] = x PROVE Claim(u, x)'
    <3>1. Claim(u, x) /\ child[u] = x
      BY <2>1, <2>4, Zenon DEF Requests
    <3>2. u # w => duty'[u] = duty[u] /\ (x \in aborts' => x \in aborts)
      BY <2>1, <2>2, <2>3, <3>1, Zenon DEF Claim
    <3>3. duty'[u] \in {"requesting", "waiting"} => u # w /\ duty[u] \in {"requesting", "waiting"}
      BY <2>2, <3>2, Zenon
    <3>4. duty'[u] \in {"waiting", "aborting"} => duty[u] \in {"waiting", "aborting"}
      BY <2>1, <2>2, <3>2, Zenon
    <3> QED  BY <2>1, <3>1, <3>2, <3>3, <3>4, Zenon DEF Claim, Accepted, InLoop, Ended, Alive
  <2> QED  BY <2>1, <2>2, <2>3, <2>4, Zenon DEF Requests
<1>11. ASSUME NEW w \in Workers, NEW v \in Workers, Spawn(w, v) PROVE Requests'
  <2>1. /\ handler' = [handler EXCEPT ![v] = "offering"] /\ proc' = [proc EXCEPT ![v] = "starting"]
        /\ child' = [child EXCEPT ![w] = v] /\ proc[v] = "none" /\ offers' = Append(offers, v)
        /\ duty[w] = "requesting" /\ UNCHANGED <<duty, rank, sup, aborts, signalled>>
    BY <1>11, Zenon DEF Spawn
  <2>2. /\ handler[v] = "none" /\ v # First /\ v # w /\ child[v] = None
        /\ v \notin aborts \cup signalled /\ \A u \in Workers : child[u] # v
    BY <2>1, Zenon DEF Births, Processes
  <2>3. /\ child'[w] = v /\ handler'[v] = "offering"
        /\ \A u \in Workers \ {w} : child'[u] = child[u]
        /\ \A u \in Workers \ {v} : handler'[u] = handler[u] /\ proc'[u] = proc[u]
    BY <2>1, Zenon DEF TypeOK
  <2>4. ASSUME NEW u \in Workers, NEW x \in Workers, child'[u] = x PROVE Claim(u, x)'
    <3>1. CASE u = w
      <4>1. x = v /\ \A y \in Workers : child'[y] = v => y = w
        BY <2>2, <2>3, <2>4, <3>1, Zenon
      <4>2. ASSUME ~Ended, ~Accepted(w) PROVE Precedes(offers', w, v)
        <5>1. w # First /\ proc[w] # "none"
          BY <2>1, <4>2, Zenon DEF Processes, Accepted
        <5>2. handler[w] \notin {"none", "stopping", "accepted", "done"}
          BY <4>2, <5>1, Zenon DEF Births, Accepted
        <5>3. handler[w] = "offering"
          BY <5>2, Zenon DEF TypeOK
        <5>4. \E i \in 1..Len(offers) : offers[i] = w
          BY <4>2, <5>3, Zenon DEF Queue
        <5> QED  BY <2>1, <5>4, OfferedLast, Zenon DEF TypeOK
      <4>3. Accepted(w)' = Accepted(w) /\ ~Accepted(v)' /\ Ended' = Ended
        BY <2>1, <2>2, <2>3, Zenon DEF Accepted, Ended
      <4> QED  BY <2>1, <2>2, <3>1, <4>1, <4>2, <4>3, Zenon DEF Claim
    <3>2. CASE u # w
      <4>1. child[u] = x /\ Claim(u, x) /\ u # v /\ x # v
        BY <2>2, <2>3, <2>4, <3>2, Zenon DEF Requests
      <4>2. \A y \in Workers : child'[y] = x => y = u
        BY <2>3, <4>1, Zenon DEF Claim
      <4>3. /\ handler'[u] = handler[u] /\ handler'[x] = handler[x] /\ proc'[u] = proc[u]
            /\ UNCHANGED <<duty, rank, sup, aborts, signalled>>
        BY <2>1, <2>3, <4>1, Zenon
      <4>4. Precedes(offers, u, x) => Precedes(offers', u, x)
        BY <2>1, OfferedLast, Zenon DEF TypeOK
      <4> QED  BY <4>1, <4>2, <4>3, <4>4, Zenon DEF Claim, Accepted, Ended, InLoop, Alive
    <3> QED  BY <3>1, <3>2, Zenon
  <2>5. \A u \in Workers : duty'[u] \in {"waiting", "aborting"} => child'[u] # None
    BY <2>1, <2>3, Zenon DEF Requests
  <2>6. \A u \in Workers : duty'[u] = "replaced" => child'[u] = None
    BY <2>1, <2>3, Zenon DEF Requests
  <2> QED  BY <2>4, <2>5, <2>6, Zenon DEF Requests
<1>12. ASSUME NEW v \in Workers, Answer(v) PROVE Requests'
  <2>1. /\ UNCHANGED <<proc, child, rank, offers, aborts, sup, signalled>> /\ handler[v] = "accepted"
        /\ handler' = [handler EXCEPT ![v] = "done"]
        /\ duty' = [w \in Workers |-> IF child[w] = v /\ duty[w] = "requesting"
                                      THEN "waiting" ELSE duty[w]]
    BY <1>12, Zenon DEF Answer
  <2>2. \A u \in Workers : (Accepted(u)' <=> Accepted(u))
                           /\ (handler'[u] = "offering" <=> handler[u] = "offering")
    BY <2>1, Zenon DEF TypeOK, Accepted
  <2>3. \A u \in Workers : \/ duty'[u] = duty[u]
                           \/ duty[u] = "requesting" /\ duty'[u] = "waiting" /\ child[u] = v
    BY <2>1, Zenon
  <2>4. ASSUME NEW u \in Workers, NEW x \in Workers, child'[u] = x PROVE Claim(u, x)'
    <3>1. child[u] = x /\ Claim(u, x)
      BY <2>1, <2>4, Zenon DEF Requests
    <3>2. duty'[u] \in {"waiting", "aborting"} => Accepted(x)'
      BY <2>1, <2>2, <2>3, <3>1, Zenon DEF Claim, Accepted
    <3>3. duty'[u] \in {"requesting", "waiting"} => duty[u] \in {"requesting", "waiting"}
      BY <2>3, Zenon
    <3> QED  BY <2>1, <2>2, <3>1, <3>2, <3>3, Zenon DEF Claim, InLoop, Ended, Alive
  <2>5. \A u \in Workers : duty'[u] \in {"waiting", "aborting"} => child'[u] # None
    BY <2>1, <2>3, Zenon DEF Requests
  <2>6. \A u \in Workers : duty'[u] = "replaced" => child'[u] = None
    BY <2>1, <2>3, Zenon DEF Requests
  <2> QED  BY <2>4, <2>5, <2>6, Zenon DEF Requests
<1>13. ASSUME NEW v \in Workers, HandlerStop(v) \/ HandlerStopped(v) PROVE Requests'
  <2>1. UNCHANGED <<duty, child, aborts>> /\ Ended' /\ ~InLoop'
    BY <1>13, Zenon DEF HandlerStop, HandlerStopped, Ended, InLoop
  <2>2. \A u \in Workers : Accepted(u) => Accepted(u)'
    BY <1>13, Zenon DEF TypeOK, HandlerStop, HandlerStopped, Accepted
  <2> QED  BY <2>1, <2>2, Zenon DEF Requests, Claim
<1>14. ASSUME BootReady PROVE Requests'
  BY <1>14, Zenon DEF Requests, Boot, BootReady
<1>15. ASSUME NEW v \in Workers, Replace(v) PROVE Requests'
  <2>1. /\ handler' = [handler EXCEPT ![v] = "accepted"] /\ sup = "loop" /\ offers # <<>>
        /\ rank' = [rank EXCEPT ![v] = rank[current] + 1] /\ v = Head(offers)
        /\ offers' = Tail(offers) /\ UNCHANGED <<duty, child, proc, sup, aborts, signalled>>
    BY <1>15, Zenon DEF Replace
  <2>2. handler[v] = "offering" /\ v # First /\ ~Accepted(v)
    <3>1. 1 \in 1..Len(offers) /\ v = offers[1]
      BY <2>1 DEF TypeOK
    <3>2. ~Ended
      BY <2>1, Zenon DEF Ended
    <3>3. handler[v] = "offering"
      BY <3>1, <3>2, Zenon DEF Queue
    <3>4. v # First
      BY <3>3, Zenon DEF Births
    <3> QED  BY <3>3, <3>4, Zenon DEF Accepted
  <2>3. /\ handler'[v] = "accepted" /\ rank'[v] = rank[current] + 1
        /\ \A u \in Workers \ {v} : handler'[u] = handler[u] /\ rank'[u] = rank[u]
    BY <2>1, Zenon DEF TypeOK
  <2>4. ASSUME NEW u \in Workers, NEW x \in Workers, child'[u] = x PROVE Claim(u, x)'
    <3>1. child[u] = x /\ Claim(u, x)
      BY <2>1, <2>4, Zenon DEF Requests
    <3>2. Alive(u)' = Alive(u) /\ InLoop' = InLoop /\ InLoop /\ ~Ended /\ ~Ended'
      BY <2>1, Zenon DEF Alive, InLoop, Ended
    <3>3. CASE x = v
      <4>1. ASSUME Alive(u) PROVE Accepted(u)
        <5>1. ~Precedes(offers, u, v)
          BY <2>1, <3>2, ServedFirst, Zenon DEF TypeOK, Queue
        <5> QED  BY <2>2, <3>1, <3>2, <3>3, <4>1, <5>1, Zenon DEF Claim
      <4>2. ASSUME Alive(u) PROVE u \in superseded \cup {current} /\ u # v /\ Accepted(u)'
        BY <2>1, <2>2, <2>3, <4>1, <4>2, Zenon DEF Processes, Listed, Alive, Accepted
      <4>3. ASSUME Alive(u) PROVE rank'[u] < rank'[v]
        <5>1. rank[u] < rank[current] \/ u = current
          BY <3>2, <4>2, <4>3, Zenon DEF Lists
        <5>2. rank[u] \in Nat /\ rank[current] \in Nat /\ rank'[u] = rank[u]
          BY <2>3, <4>2, <4>3, Zenon DEF TypeOK
        <5> QED  BY <2>3, <5>1, <5>2
      <4> QED  BY <2>1, <2>2, <2>3, <3>1, <3>2, <3>3, <4>2, <4>3, Zenon DEF Claim, Accepted
    <3>4. CASE x # v
      <4>1. Accepted(x)' = Accepted(x) /\ handler'[x] = handler[x] /\ rank'[x] = rank[x]
        BY <2>3, <3>4, Zenon DEF Accepted
      <4>2. Accepted(u) => Accepted(u)' /\ rank'[u] = rank[u]
        BY <2>2, <2>3, Zenon DEF Accepted
      <4>3. Precedes(offers, u, x) => Accepted(u)' \/ Precedes(offers', u, x)
        BY <2>1, <2>3, ServedFirst, Zenon DEF TypeOK, Accepted
      <4> QED  BY <2>1, <3>1, <3>2, <4>1, <4>2, <4>3, Zenon DEF Claim
    <3> QED  BY <3>3, <3>4, Zenon
  <2> QED  BY <2>1, <2>4, Zenon DEF Requests
<1> HIDE DEF procVars, rpcVars, supVars, envVars
<1>16. ASSUME SupNext PROVE Requests'
  BY <1>3, <1>4, <1>5, <1>6, <1>14, <1>15, <1>16, Zenon DEF SupNext
<1>17. ASSUME NEW w \in Workers, WorkerNext(w) PROVE Requests'
  BY <1>3, <1>7, <1>8, <1>9, <1>10, <1>17, Zenon DEF WorkerNext
<1>18. ASSUME NEW v \in Workers, HandlerNext(v) PROVE Requests'
  BY <1>3, <1>11, <1>12, <1>13, <1>18, Zenon DEF HandlerNext
<1> QED  BY <1>2, <1>16, <1>17, <1>18, Zenon DEF Next, Terminated

\* Ends keeps a fresh worker fresh and makes none spent.
LEMMA SuccessionEnds ==
  ASSUME TypeOK, Succession, Ends
  PROVE  Succession'
<1>1. \A u \in Workers : (Accepted(u)' <=> Accepted(u)) /\ (Settled(u) => Settled(u)')
  BY SupervisorAssumption, Zenon DEF Ends, Ceases, Accepted, Settled
<1>2. ASSUME NEW u \in Workers, "ready" \notin crashed', Fresh(u) PROVE Fresh(u)'
  <2>1. u \in announced \ signalled /\ proc[u] = "ready" /\ duty[u] # "replaced"
    BY <1>2, Zenon DEF Fresh, Settled
  <2>2. proc'[u] = "ready" /\ duty'[u] # "replaced"
    BY <1>2, <2>1, Zenon DEF Ends, Ceases
  <2> QED  BY <1>1, <1>2, <2>2, Zenon DEF Fresh
<1>3. ASSUME NEW u \in Workers, "ready" \notin crashed', Spent(u)' PROVE Spent(u)
  BY <1>3, Zenon DEF Ends, Ceases, Spent
<1>4. rank' = rank /\ (InLoop' => InLoop) /\ (Ended' <=> Ended)
      /\ ("ready" \in crashed => "ready" \in crashed')
  BY Zenon DEF Ends
<1> QED  BY <1>1, <1>2, <1>3, <1>4, SupervisorAssumption, Zenon DEF Succession

\* A worker that handed over or ended has a settled successor that still serves.
LEMMA SuccessionStep == IInv /\ [Next]_vars => Succession'
<1> SUFFICES ASSUME TypeOK, Succession, Requests, Lists, Births, Queue, Boot, Processes, [Next]_vars
             PROVE  Succession'
  BY Zenon DEF IInv
<1> USE SupervisorAssumption DEF procVars, rpcVars, supVars, envVars
<1>1. UNCHANGED <<proc, duty, child, handler, rank, sup, aborts, signalled, announced,
                  crashed>> => Succession'
  BY DEF Succession, Settled, Fresh, Spent, Accepted, Ended, InLoop
<1>2. ASSUME WaiterReturns \/ StopRequested \/ ControlFails
      PROVE  UNCHANGED <<proc, duty, child, handler, rank, sup, aborts, signalled, announced,
                         crashed>>
  BY <1>2, Zenon DEF WaiterReturns, StopRequested, ControlFails, ControlServed
<1>3. ASSUME NEW w \in Workers, ExitAsked(w) \/ ReadyTooLate(w) \/ Crash(w) \/ RequestFails(w)
                                \/ AbortFails(w)
      PROVE  Succession'
  <2>1. Ends
    BY <1>3, EndsStep, Zenon
  <2> QED  BY <2>1, SuccessionEnds, Zenon
<1>4. ASSUME NEW v \in Workers, HandlerKill(v) \/ AbortRefused(v)
      PROVE  Succession'
  <2>1. Ends
    BY <1>4, EndsStep, Zenon
  <2> QED  BY <2>1, SuccessionEnds, Zenon
<1>5. ASSUME StopTimeout \/ AbortStopped
      PROVE  Succession'
  <2>1. Ends
    BY <1>5, EndsStep, Zenon
  <2> QED  BY <2>1, SuccessionEnds, Zenon
<1>6. ASSUME BootExited \/ BootFailed \/ BootStop \/ BootStopped \/ LoopStop
             \/ CurrentStopped \/ CurrentExited \/ LoopControlFailed \/ Unwind
             \/ UnwindStopped \/ Unwound \/ Exit
      PROVE  Succession'
  <2>1. /\ UNCHANGED <<proc, duty, announced, crashed, handler>>
        /\ signalled \subseteq signalled' /\ ~InLoop' /\ (Ended => Ended')
    BY <1>6, Zenon DEF BootExited, BootFailed, StopWorker, BootStop, BootStopped, StopReceives,
      LoopStop, CurrentStopped, CurrentExited, LoopControlFailed, Unwind, UnwindStopped,
        Unwound, Exit, InLoop, Ended
  <2> QED  BY <2>1, Zenon DEF Succession, Spent, Accepted
<1>7. ASSUME NEW v \in Workers, HandlerStop(v) \/ HandlerStopped(v)
      PROVE  Succession'
  <2>1. Ended'
    BY <1>7, Zenon DEF HandlerStop, HandlerStopped, Ended
  <2> QED  BY <2>1, Zenon DEF Succession
<1>8. ASSUME NEW w \in Workers, BecomeReady(w) PROVE Succession'
  <2>1. /\ proc[w] = "starting" /\ proc' = [proc EXCEPT ![w] = "ready"]
        /\ announced' = announced \cup {w}
        /\ UNCHANGED <<duty, child, handler, rank, sup, aborts, signalled, crashed>>
    BY <1>8, Zenon DEF BecomeReady
  <2>2. \A u \in Workers : Settled(u) => Settled(u)'
    BY <2>1, Zenon DEF Settled, Accepted
  <2>3. \A u \in Workers : Fresh(u) => Fresh(u)'
    BY <2>1, <2>2, Zenon DEF Fresh, TypeOK
  <2>4. \A u \in Workers : (Spent(u)' => Spent(u)) /\ (Accepted(u) => Accepted(u)')
    BY <2>1, Zenon DEF Spent, Accepted, Processes, TypeOK
  <2>5. rank' = rank /\ crashed' = crashed /\ (InLoop' => InLoop) /\ (Ended' <=> Ended)
    BY <2>1, Zenon DEF InLoop, Ended
  <2> QED  BY <2>2, <2>3, <2>4, <2>5, Zenon DEF Succession
<1>9. ASSUME NEW w \in Workers, NEW rebind \in BOOLEAN, Request(w, rebind) PROVE Succession'
  <2>1. /\ duty[w] = "idle" /\ duty' = [duty EXCEPT ![w] = "requesting"]
        /\ UNCHANGED <<proc, child, handler, rank, sup, aborts, signalled, announced, crashed>>
    BY <1>9, Zenon DEF Request
  <2>2. \A u \in Workers : Settled(u) => Settled(u)'
    BY <2>1, Zenon DEF Settled, Accepted
  <2>3. \A u \in Workers : Fresh(u) => Fresh(u)'
    BY <2>1, <2>2, Zenon DEF Fresh, TypeOK
  <2>4. \A u \in Workers : (Spent(u)' => Spent(u)) /\ (Accepted(u) => Accepted(u)')
    BY <2>1, Zenon DEF Spent, Accepted, TypeOK
  <2>5. rank' = rank /\ crashed' = crashed /\ (InLoop' => InLoop) /\ (Ended' <=> Ended)
    BY <2>1, Zenon DEF InLoop, Ended
  <2> QED  BY <2>2, <2>3, <2>4, <2>5, Zenon DEF Succession
<1>10. ASSUME NEW w \in Workers, HandOver(w) PROVE Succession'
  <2>1. /\ duty' = [duty EXCEPT ![w] = "replaced"] /\ child' = [child EXCEPT ![w] = None]
        /\ proc[w] = "ready" /\ duty[w] = "waiting" /\ child[w] \in announced
        /\ UNCHANGED <<proc, handler, rank, sup, aborts, signalled, announced, crashed>>
    BY <1>10, Zenon DEF HandOver, EndRpc
  <2> SUFFICES ASSUME "ready" \notin crashed, ~Ended PROVE Succession'
    BY <2>1, Zenon DEF Succession, Ended
  <2>2. PICK v \in Workers : v = child[w] /\ v \in announced /\ Claim(w, v)
    BY <2>1, Zenon DEF TypeOK, Requests
  <2>3. Accepted(v) /\ Accepted(w) /\ rank[w] < rank[v] /\ v # w
    BY <2>1, <2>2 DEF TypeOK, Claim, Alive
  <2>4. \A u \in Workers : Accepted(u)' = Accepted(u) /\ (Settled(u) => Settled(u)')
    BY <2>1, Zenon DEF Accepted, Settled, TypeOK
  <2>5. \A u \in Workers : u # w /\ Fresh(u) => Fresh(u)'
    BY <2>1, <2>4, Zenon DEF Fresh, TypeOK
  <2>6. \A u \in Workers : u # w /\ Spent(u)' => Spent(u)
    BY <2>1, Zenon DEF Spent, TypeOK
  <2>7. \A u \in Workers : Spent(u)' => Accepted(u)'
    BY <2>3, <2>4, <2>6, Zenon DEF Succession
  <2>8. ASSUME InLoop PROVE \E g \in Workers : Fresh(g)' /\ rank[w] < rank[g]
    <3>1. v \notin aborts \cup signalled
      BY <2>1, <2>2, <2>8, Zenon DEF Claim
    <3>2. CASE Spent(v)
      <4>1. PICK h \in Workers : Fresh(h) /\ rank[v] < rank[h]
        BY <2>2, <2>8, <3>2, Zenon DEF Succession
      <4>2. rank[w] < rank[h] /\ h # w
        BY <2>2, <2>3, <4>1 DEF TypeOK
      <4> QED  BY <2>5, <4>1, <4>2, Zenon
    <3>3. CASE ~Spent(v)
      <4>1. proc[v] = "ready" /\ duty[v] # "replaced"
        BY <2>2, <3>1, <3>3, Zenon DEF Processes, Spent
      <4>2. \A u \in Workers : child'[u] # v
        BY <2>1, <2>2, Zenon DEF TypeOK, Claim
      <4>3. Fresh(v)'
        BY <2>1, <2>2, <2>3, <2>4, <3>1, <4>1, <4>2, Zenon DEF Fresh, Settled, TypeOK
      <4> QED  BY <2>2, <2>3, <4>3, Zenon
    <3> QED  BY <3>2, <3>3, Zenon
  <2>9. ASSUME InLoop, NEW u \in Workers, Spent(u)'
        PROVE  \E h \in Workers : Fresh(h)' /\ rank'[u] < rank'[h]
    <3>1. PICK g \in Workers : Fresh(g)' /\ rank[w] < rank[g]
      BY <2>8, <2>9, Zenon
    <3>2. CASE u = w
      BY <2>1, <3>1, <3>2, Zenon
    <3>3. CASE u # w
      <4>1. PICK h \in Workers : Fresh(h) /\ rank[u] < rank[h]
        BY <2>6, <2>9, <3>3, Zenon DEF Succession
      <4>2. CASE h = w
        BY <2>1, <3>1, <4>1, <4>2 DEF TypeOK
      <4>3. CASE h # w
        BY <2>1, <2>5, <4>1, <4>3, Zenon
      <4> QED  BY <4>2, <4>3, Zenon
    <3> QED  BY <3>2, <3>3, Zenon
  <2>10. InLoop' = InLoop
    BY <2>1, Zenon DEF InLoop
  <2> QED  BY <2>4, <2>7, <2>9, <2>10, Zenon DEF Succession
<1>11. ASSUME NEW w \in Workers, NotReady(w) PROVE Succession'
  <2>1. /\ duty[w] = "waiting" /\ child[w] \in Workers /\ aborts' \subseteq aborts \cup {child[w]}
        /\ \A u \in Workers : child'[u] \in {child[u], None}
        /\ \A u \in Workers : duty'[u] = duty[u] \/ (u = w /\ duty'[u] # "replaced")
    BY <1>11 DEF TypeOK, Requests, NotReady, EndRpc
  <2>2. UNCHANGED <<proc, handler, rank, sup, signalled, announced, crashed>>
    BY <1>11, Zenon DEF NotReady
  <2>3. \A u \in Workers : Settled(u) => Settled(u)'
    BY <2>1, <2>2, Zenon DEF Settled, Accepted
  <2>4. \A u \in Workers : Fresh(u) => Fresh(u)'
    BY <2>1, <2>2, <2>3, Zenon DEF Fresh
  <2>5. \A u \in Workers : (Spent(u)' => Spent(u)) /\ (Accepted(u) => Accepted(u)')
    BY <2>1, <2>2, Zenon DEF Spent, Accepted
  <2>6. (InLoop' <=> InLoop) /\ (Ended' <=> Ended)
    BY <2>2, Zenon DEF InLoop, Ended
  <2> QED  BY <2>2, <2>3, <2>4, <2>5, <2>6, Zenon DEF Succession
<1>12. ASSUME NEW w \in Workers, NEW v \in Workers, Spawn(w, v) PROVE Succession'
  <2>1. /\ proc[v] = "none" /\ proc' = [proc EXCEPT ![v] = "starting"]
        /\ child' = [child EXCEPT ![w] = v] /\ handler' = [handler EXCEPT ![v] = "offering"]
        /\ UNCHANGED <<duty, rank, sup, aborts, signalled, announced, crashed>>
    BY <1>12, Zenon DEF Spawn, ControlServed
  <2>2. \A u \in Workers : Settled(u) => Settled(u)'
    BY <2>1, Zenon DEF Settled, Accepted, Processes, TypeOK
  <2>3. \A u \in Workers : Fresh(u) => Fresh(u)'
    BY <2>1, <2>2, Zenon DEF Fresh, TypeOK
  <2>4. \A u \in Workers : (Spent(u)' => Spent(u)) /\ (Accepted(u) => Accepted(u)')
    BY <2>1 DEF Spent, Accepted, Births
  <2>5. rank' = rank /\ crashed' = crashed /\ (InLoop' => InLoop) /\ (Ended' <=> Ended)
    BY <2>1, Zenon DEF InLoop, Ended
  <2> QED  BY <2>2, <2>3, <2>4, <2>5, Zenon DEF Succession
<1>13. ASSUME NEW v \in Workers, Answer(v) PROVE Succession'
  <2>1. /\ handler[v] = "accepted" /\ handler' = [handler EXCEPT ![v] = "done"]
        /\ duty' = [u \in Workers |-> IF child[u] = v /\ duty[u] = "requesting"
                                     THEN "waiting" ELSE duty[u]]
        /\ UNCHANGED <<proc, child, rank, sup, aborts, signalled, announced, crashed>>
    BY <1>13, Zenon DEF Answer
  <2>2. \A u \in Workers : Settled(u) => Settled(u)'
    BY <2>1, Zenon DEF Settled, Accepted, TypeOK
  <2>3. \A u \in Workers : Fresh(u) => Fresh(u)'
    BY <2>1, <2>2, Zenon DEF Fresh
  <2>4. \A u \in Workers : (Spent(u)' => Spent(u)) /\ (Accepted(u) => Accepted(u)')
    BY <2>1, Zenon DEF Spent, Accepted, TypeOK
  <2>5. rank' = rank /\ crashed' = crashed /\ (InLoop' => InLoop) /\ (Ended' <=> Ended)
    BY <2>1, Zenon DEF InLoop, Ended
  <2> QED  BY <2>2, <2>3, <2>4, <2>5, Zenon DEF Succession
<1>14. ASSUME BootReady PROVE Succession'
  <2>1. /\ sup = "boot" /\ waiter = "ready" /\ sup' = "loop"
        /\ UNCHANGED <<proc, duty, child, handler, rank, aborts, signalled, announced, crashed>>
    BY <1>14, Zenon DEF BootReady
  <2>2. Settled(First)'
    BY <2>1, Zenon DEF Boot, Settled, Accepted
  <2>3. ASSUME NEW u \in Workers, Spent(u)', "ready" \notin crashed PROVE FALSE
    BY <2>1, <2>3, Zenon DEF Boot, Spent
  <2> QED  BY <2>1, <2>2, <2>3, Zenon DEF Succession
<1>15. ASSUME NEW v \in Workers, Replace(v) PROVE Succession'
  <2>1. /\ handler' = [handler EXCEPT ![v] = "accepted"] /\ sup = "loop"
        /\ rank' = [rank EXCEPT ![v] = rank[current] + 1]
        /\ UNCHANGED <<proc, duty, child, sup, aborts, signalled, announced, crashed>>
    BY <1>15, Zenon DEF Replace
  <2>2. ~Accepted(v)
    BY <1>15 DEF Queue, Births, Accepted, Ended, Replace
  <2>3. \A u \in Workers : Accepted(u) => Accepted(u)' /\ rank'[u] = rank[u] /\ u # v
    BY <2>1, <2>2, Zenon DEF Accepted, TypeOK
  <2>4. \A u \in Workers : /\ Settled(u) => Settled(u)'
                           /\ Fresh(u) => Fresh(u)' /\ Accepted(u)
                           /\ Spent(u)' <=> Spent(u)
    BY <2>1, <2>3, Zenon DEF Settled, Fresh, Spent
  <2> SUFFICES ASSUME "ready" \notin crashed PROVE Succession'
    BY <2>1, Zenon DEF Succession
  <2>5. Settled(First) /\ InLoop /\ ~Ended /\ \A u \in Workers : Spent(u) => Accepted(u)
    BY <2>1, Zenon DEF Succession, InLoop, Ended
  <2>6. ASSUME NEW u \in Workers, Spent(u)'
        PROVE  \E h \in Workers : Fresh(h)' /\ rank'[u] < rank'[h]
    <3>1. Spent(u) /\ rank'[u] = rank[u]
      BY <2>3, <2>4, <2>5, <2>6, Zenon
    <3>2. PICK h \in Workers : Fresh(h) /\ rank[u] < rank[h]
      BY <2>5, <3>1, Zenon DEF Succession
    <3>3. Fresh(h)' /\ rank'[h] = rank[h]
      BY <2>3, <2>4, <3>2, Zenon
    <3> QED  BY <3>1, <3>2, <3>3, Zenon
  <2>7. Settled(First)' /\ \A u \in Workers : Spent(u)' => Accepted(u)'
    BY <2>3, <2>4, <2>5, SupervisorAssumption, Zenon
  <2> QED  BY <2>6, <2>7, Zenon DEF Succession
<1>16. ASSUME NEW v \in Workers, AbortTaken(v) PROVE Succession'
  <2>1. /\ v \in aborts /\ aborts' = aborts \ {v} /\ signalled' = signalled \cup {v}
        /\ sup = "loop" /\ sup' = "abortstop"
        /\ UNCHANGED <<proc, duty, child, handler, rank, announced, crashed>>
    BY <1>16, Zenon DEF AbortTaken, Running, Reaped, StopWorker
  <2>2. \A u \in Workers : Settled(u) => Settled(u)'
    BY <2>1, Zenon DEF Settled, Accepted
  <2>3. \A u \in Workers : Fresh(u) => Fresh(u)'
    BY <2>1, <2>2, Zenon DEF Fresh
  <2>4. \A u \in Workers : (Spent(u)' => Spent(u)) /\ (Accepted(u) => Accepted(u)')
    BY <2>1, Zenon DEF Spent, Accepted
  <2>5. rank' = rank /\ crashed' = crashed /\ (InLoop' => InLoop) /\ (Ended' <=> Ended)
    BY <2>1, Zenon DEF InLoop, Ended
  <2> QED  BY <2>2, <2>3, <2>4, <2>5, Zenon DEF Succession
<1>17. CASE UNCHANGED vars
  BY <1>17, <1>1, Zenon DEF vars
<1> HIDE DEF procVars, rpcVars, supVars, envVars
<1> QED
  BY <1>1, <1>2, <1>3, <1>4, <1>5, <1>6, <1>7, <1>8, <1>9, <1>10, <1>11, <1>12, <1>13, <1>14,
    <1>15, <1>16, <1>17, Zenon
  DEF Next, SupNext, WorkerNext, HandlerNext, Terminated

\* The current worker, when it ends in the loop, was not ready: a ready one would have handed
\* over to a fresh worker that ranks above it.
LEMMA CalmStep == IInv /\ [Next]_vars => Calm'
<1> SUFFICES ASSUME TypeOK, Calm, Succession, Lists, Listed, Processes, [Next]_vars PROVE Calm'
  BY Zenon DEF IInv
<1> USE SupervisorAssumption DEF procVars, rpcVars, supVars, envVars
<1> DEFINE Loop == <<crashed, stop, controlFailed, sup, current>>
           Fate(w) == proc[w] = "dead" => proc'[w] = "dead" /\ (w \in announced' => w \in announced)
<1>1. ASSUME UNCHANGED Loop, Fate(current) PROVE Calm'
  BY <1>1, Zenon DEF Calm
<1>2. ASSUME UNCHANGED Loop, UNCHANGED <<proc, announced>> PROVE Calm'
  BY <1>1, <1>2, Zenon
<1>3. ASSUME NEW w \in Workers, Dies(w), UNCHANGED announced, UNCHANGED Loop PROVE Calm'
  <2>1. Fate(current)
    BY <1>3, Zenon DEF Dies, TypeOK
  <2> QED  BY <1>1, <1>3, <2>1, Zenon
<1>4. ASSUME NEW w \in Workers, BecomeReady(w) PROVE Calm'
  <2>1. UNCHANGED Loop
    BY <1>4, Zenon DEF BecomeReady
  <2>2. Fate(current)
    BY <1>4, Zenon DEF BecomeReady, TypeOK
  <2> QED  BY <1>1, <2>1, <2>2, Zenon
<1>5. ASSUME NEW w \in Workers, ExitAsked(w) \/ ReadyTooLate(w) \/ HandlerKill(w) PROVE Calm'
  <2>1. Dies(w) /\ UNCHANGED announced /\ UNCHANGED Loop
    BY <1>5, Zenon DEF ExitAsked, ReadyTooLate, HandlerKill
  <2> QED  BY <1>3, <2>1, Zenon
<1>6. ASSUME StopTimeout PROVE Calm'
  <2>1. Dies(target) /\ UNCHANGED announced /\ UNCHANGED Loop
    BY <1>6, Zenon DEF StopTimeout
  <2>2. Fate(current)
    BY <2>1, Zenon DEF Dies, Alive, TypeOK
  <2> QED  BY <1>1, <2>1, <2>2, Zenon
<1>7. ASSUME NEW w \in Workers, Crash(w) PROVE Calm'
  <2>1. Dies(w) /\ UNCHANGED <<announced, stop, controlFailed, sup, current>>
        /\ crashed = {}
    BY <1>7, Zenon DEF Crash
  <2>2. Fate(current)
    BY <2>1, Zenon DEF Dies, TypeOK
  <2> QED  BY <2>1, <2>2, Zenon DEF Calm
<1>8. ASSUME NEW w \in Workers, RequestFails(w) \/ HandOver(w) \/ NotReady(w) \/ AbortFails(w)
      PROVE  Calm'
  BY <1>2, <1>8, Zenon DEF EndRpc, RequestFails, HandOver, NotReady, AbortFails
<1>9. ASSUME NEW w \in Workers, NEW rebind \in BOOLEAN, Request(w, rebind) PROVE Calm'
  BY <1>2, <1>9, Zenon DEF Request
<1>10. ASSUME NEW w \in Workers, NEW v \in Workers, Spawn(w, v) PROVE Calm'
  <2>1. UNCHANGED Loop /\ UNCHANGED announced /\ proc[v] = "none"
        /\ proc' = [proc EXCEPT ![v] = "starting"]
    BY <1>10, Zenon DEF Spawn
  <2>2. Fate(current)
    BY <2>1, Zenon DEF TypeOK
  <2> QED  BY <1>1, <2>1, <2>2, Zenon
<1>11. ASSUME NEW v \in Workers, Answer(v) \/ HandlerStop(v) \/ HandlerStopped(v) \/ AbortRefused(v)
      PROVE  Calm'
  BY <1>2, <1>11, Zenon DEF Answer, HandlerStop, HandlerStopped, Running, Reaped, AbortRefused,
    AbortAnswered
<1>12. ASSUME NEW v \in Workers, Replace(v) PROVE Calm'
  BY <1>12, Zenon DEF Calm, Replace
<1>13. ASSUME WaiterReturns PROVE Calm'
  BY <1>2, <1>13, Zenon DEF WaiterReturns
<1>14. ASSUME BootReady PROVE Calm'
  BY <1>14, Zenon DEF Calm, BootReady
<1>15. ASSUME BootExited PROVE Calm'
  BY <1>15, Zenon DEF Calm, BootExited
<1>16. ASSUME BootFailed PROVE Calm'
  BY <1>16, Zenon DEF Calm, BootFailed, StopWorker
<1>17. ASSUME BootStop PROVE Calm'
  BY <1>17, Zenon DEF Calm, BootStop, StopWorker
<1>18. ASSUME BootStopped PROVE Calm'
  BY <1>18, Zenon DEF Calm, BootStopped, StopReceives
<1>19. ASSUME NEW v \in Workers, AbortTaken(v) PROVE Calm'
  BY <1>19, Zenon DEF Calm, AbortTaken, Running, Reaped, StopWorker
<1>20. ASSUME AbortStopped PROVE Calm'
  BY <1>20, Zenon DEF Calm, AbortStopped, AbortAnswered, StopReceives
<1>21. ASSUME LoopStop PROVE Calm'
  BY <1>21, Zenon DEF Calm, LoopStop, StopWorker
<1>22. ASSUME CurrentStopped PROVE Calm'
  BY <1>22, Zenon DEF Calm, CurrentStopped, StopReceives
<1>23. ASSUME CurrentExited PROVE Calm'
  <2>1. sup = "loop" /\ proc[current] = "dead" /\ UNCHANGED <<crashed, current, announced, proc>>
    BY <1>23, Zenon DEF TypeOK, Processes, CurrentExited
  <2> SUFFICES ASSUME "ready" \notin crashed, current \in announced PROVE FALSE
    BY <1>23, <2>1, Zenon DEF Calm, CurrentExited
  <2>2. Spent(current)
    BY <2>1, Zenon DEF Lists, Spent, InLoop
  <2>3. PICK h \in Workers : Fresh(h) /\ rank[current] < rank[h]
    BY <2>1, <2>2, Zenon DEF TypeOK, Succession, InLoop, Ended
  <2>4. h \in superseded \cup {current}
    BY <2>1, <2>3, Zenon DEF Processes, Listed, Fresh, Settled
  <2> QED  BY <2>1, <2>3, <2>4 DEF TypeOK, Lists, InLoop
<1>24. ASSUME LoopControlFailed PROVE Calm'
  BY <1>24, Zenon DEF Calm, LoopControlFailed
<1>25. ASSUME Unwind PROVE Calm'
  BY <1>25, Zenon DEF Calm, Unwind, StopWorker
<1>26. ASSUME UnwindStopped PROVE Calm'
  BY <1>26, Zenon DEF Calm, UnwindStopped, StopReceives
<1>27. ASSUME Unwound PROVE Calm'
  BY <1>27, Zenon DEF Calm, Unwound
<1>28. ASSUME Exit PROVE Calm'
  BY <1>28, Zenon DEF Calm, Exit
<1>29. ASSUME StopRequested PROVE Calm'
  BY <1>29, Zenon DEF Calm, StopRequested
<1>30. ASSUME ControlFails PROVE Calm'
  BY <1>30, Zenon DEF Calm, ControlFails, ControlServed
<1>31. CASE UNCHANGED vars
  BY <1>31, <1>2, Zenon DEF vars
<1> HIDE DEF procVars, rpcVars, supVars, envVars
<1> QED
  BY <1>4, <1>5, <1>6, <1>7, <1>14, <1>15, <1>16, <1>17, <1>18, <1>19, <1>20, <1>21, <1>22, <1>23,
    <1>24, <1>25, <1>26, <1>27, <1>28, <1>29, <1>30, <1>31, <1>8, <1>9, <1>10, <1>11, <1>12,
    <1>13, Zenon
  DEF Next, SupNext, WorkerNext, HandlerNext, Terminated

-----------------------------------------------------------------------------
(* Results *)

\* The supervisor starts with its first worker and nothing listed.
LEMMA Initially == Init => IInv
<1> SUFFICES ASSUME Init PROVE IInv  BY Zenon
<1> USE SupervisorAssumption DEF Init
<1>1. TypeOK
  <2>1. stop \in BOOLEAN /\ controlFailed \in BOOLEAN
    BY Zenon
  <2>2. rank \in [Workers -> Nat] /\ offers \in Seq(Workers)
    OBVIOUS
  <2> QED  BY <2>1, <2>2, Zenon DEF TypeOK
<1>2. Processes /\ Births /\ Calm
  BY Zenon DEF Processes, Births, Calm, TypeOK
<1>3. Queue /\ Boot
  BY DEF Queue, Boot, Ended
<1>4. Lists /\ Listed
  BY Zenon DEF Lists, Listed, Stopping, InLoop, Ended
<1>5. Requests /\ Succession
  BY Zenon DEF Requests, Succession, Spent, InLoop
<1> QED  BY <1>1, <1>2, <1>3, <1>4, <1>5, Zenon DEF IInv

\* The inductive invariant holds in every reachable state of the supervisor.
THEOREM Invariance == Spec => []IInv
<1>1. IInv /\ [Next]_vars => IInv'
  BY TypeStep, ProcessStep, BirthStep, QueueStep, BootStep, ListStep, ListedStep, RequestStep,
     SuccessionStep, CalmStep, Zenon DEF IInv
<1> QED  BY Initially, <1>1, PTL DEF Spec

\* Every variable keeps its type (supervisor.go).
THEOREM TypeCorrect == Spec => []TypeOK
<1>1. IInv => TypeOK
  BY Zenon DEF IInv
<1> QED  BY <1>1, Invariance, PTL

\* Reloads never leave the daemon without a serving worker, unless the loop has returned
\* because a replacement that was not ready yet was current when it ended
\* (runSupervisorLoop with reloadDaemonWorker): the first worker serves, or the fresh one
\* that Succession gives it does.
THEOREM ServiceKept == Spec => []ReloadKeepsService
<1>1. IInv => ReloadKeepsService
  <2> SUFFICES ASSUME IInv, InService, "ready" \notin crashed, drained = {},
                      ~(sup \in {"unwinding", "unwindstop"} /\ current \notin announced)
               PROVE  \E w \in Workers : Serving(w)
    BY Zenon DEF ReloadKeepsService
  <2>1. InLoop /\ ~Ended
    BY Zenon DEF IInv, TypeOK, Calm, InService, InLoop, Ended, Stopping
  <2>2. Settled(First) /\ \A w \in Workers : Spent(w) => \E h \in Workers : Fresh(h)
    BY <2>1, Zenon DEF IInv, Succession, TypeOK
  <2>3. \A h \in Workers : Fresh(h) => Serving(h)
    BY Zenon DEF Fresh, Settled, Serving
  <2>4. First \in Workers /\ (Fresh(First) \/ Spent(First))
    BY <2>2, SupervisorAssumption, Zenon DEF IInv, Processes, Fresh, Spent, Settled
  <2> QED  BY <2>2, <2>3, <2>4, Zenon
<1> QED  BY <1>1, Invariance, PTL

\* A supervisor that ends although its control socket works has received the exit status of
\* every worker it accepted (SuperviseContext's deferred stops).
THEOREM NoWorkerLeft == Spec => []StopLeavesNoWorker
<1>1. IInv => StopLeavesNoWorker
  BY Zenon DEF IInv, TypeOK, Processes, Births, Listed, Accepted, Alive, Ended, StopLeavesNoWorker
<1> QED  BY <1>1, Invariance, PTL

\* Past boot, stopWorker never waits for an exit status that was received elsewhere
\* (stopWorker, runningWorkers).
THEOREM NoHang == Spec => []HangsOnlyAtBoot
<1>1. IInv => HangsOnlyAtBoot
  BY Zenon DEF IInv, Lists, Hung, Stopping, HangsOnlyAtBoot
<1> QED  BY <1>1, Invariance, PTL

\* The worker an abort makes current again has not handed over: its successor would be fresh,
\* listed and ranked above it (runSupervisorLoop's abort case).
THEOREM AbortsRestore == Spec => AbortRestoresServing
<1>1. ASSUME IInv, NEW v \in Workers, AbortTaken(v), "ready" \notin crashed
      PROVE  duty[current'] # "replaced"
  <2> SUFFICES ASSUME duty[current'] = "replaced" PROVE FALSE  BY Zenon
  <2>1. sup = "loop" /\ v \in aborts /\ current = v
    BY <1>1, Zenon DEF AbortTaken
  <2>2. PICK p \in Running(superseded) :
           current' = p /\ \A q \in Running(superseded) : rank[q] <= rank[p]
    BY <1>1, Zenon DEF AbortTaken
  <2>3. p \in superseded /\ p \in Workers /\ Spent(p)
    BY <1>1, <2>1, <2>2, Zenon DEF IInv, TypeOK, Processes, Lists, Running, Spent, InLoop
  <2>4. PICK h \in Workers : Fresh(h) /\ rank[p] < rank[h]
    BY <1>1, <2>1, <2>3, Zenon DEF IInv, Succession, InLoop, Ended, TypeOK
  <2>5. h \in superseded /\ exitCh[h] = "empty"
    BY <1>1, <2>1, <2>4, Zenon DEF IInv, Processes, Listed, Fresh, Settled
  <2>6. rank[h] <= rank[p] /\ rank[h] \in Nat /\ rank[p] \in Nat
    BY <1>1, <2>2, <2>3, <2>5, Zenon DEF IInv, TypeOK, Running
  <2> QED  BY <2>4, <2>6
<1>2. IInv /\ [Next]_vars =>
         [\A v \in Workers : AbortTaken(v) /\ "ready" \notin crashed =>
             duty[current'] # "replaced"]_vars
  BY <1>1, Zenon
<1> QED  BY <1>2, Invariance, PTL DEF Spec, AbortRestoresServing
=============================================================================
