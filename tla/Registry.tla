------------------------------ MODULE Registry ------------------------------
(***************************************************************************)
(* internal/livetrack: one session registry with its drain pipeline.       *)
(*                                                                         *)
(* Session owners call Register and Release, drainers call drainWith, and  *)
(* forcers call ForceCloseMatching, all concurrently.  Three kinds of      *)
(* synchronisation meet here and are kept apart in the model:              *)
(*   - `state` is an atomic word, read and written without the lock;       *)
(*   - `sessions` and `parents` are only touched under `mu`;               *)
(*   - each session's `released` flag is an atomic claimed by Release      *)
(*     before it takes the lock.                                           *)
(* A critical section that no lock-free step can observe half-way is one   *)
(* action guarded by `mu = Free`.  Register's critical section is two      *)
(* actions, because the drain's compare-and-swap of `state` can fall       *)
(* between its re-check and its insert.                                    *)
(***************************************************************************)
EXTENDS Naturals, FiniteSets

CONSTANTS
    Sessions,       \* one per Register call; also names the owner goroutine
    Drainers,       \* callers of drainWith
    Forcers,        \* callers of ForceCloseMatching
    Parent,         \* WithParent: the parent of each session, or NoParent
    NoParent,
    IdleGrace,      \* whether each drainer passes a positive IdleGrace
    CloseWorkers,   \* closers a drain runs at once: 1 sequential, NumCPU parallel
    Free            \* mu is not held

Closers == Drainers \cup Forcers

ASSUME RegistryAssumption ==
    /\ Drainers \cap Forcers = {}
    /\ NoParent \notin Sessions
    /\ Free \notin Sessions
    /\ Parent \in [Sessions -> Sessions \cup {NoParent}]
    /\ IdleGrace \in [Drainers -> BOOLEAN]
    /\ CloseWorkers \in Nat \ {0}

VARIABLES
    state,      \* Registry.state
    mu,         \* the session whose Register holds Registry.mu, or Free
    sessions,   \* keys of Registry.sessions
    parents,    \* Registry.parents, as <<parent, child>> pairs
    released,   \* sessions whose sessionState.released is true
    idle,       \* sessions whose IdleSince exceeds the grace window
    owner,      \* where each owner goroutine stands in Register / Release
    drain,      \* where each drainWith call stands
    force,      \* where each ForceCloseMatching call stands
    taken,      \* the batch each closing call removed from the maps
    pending,    \* entries of the batch whose closer has not been started
    running,    \* entries whose closer the call is waiting for
    closing,    \* sessions whose Closer.Close has not returned yet
    closes      \* how many times each session's Closer.Close was called

regVars == <<state, mu, sessions, parents, released, idle, owner>>
callVars == <<drain, force, taken, pending, running, closing, closes>>
vars == <<state, mu, sessions, parents, released, idle, owner,
          drain, force, taken, pending, running, closing, closes>>

OwnerStates == {"new", "checked", "admitted", "registered", "releasing",
                "done", "rejected"}
DrainStates == {"start", "idle_snapshot", "idle_close", "wait", "empty",
                "deadline", "force_snapshot", "force_close", "done"}
ForceStates == {"start", "closing", "done"}
States == {"Open", "Draining", "Forcing", "Closed"}

TypeOK ==
    /\ state \in States
    /\ mu \in Sessions \cup {Free}
    /\ sessions \subseteq Sessions
    /\ parents \subseteq Sessions \X Sessions
    /\ released \subseteq Sessions
    /\ idle \subseteq Sessions
    /\ owner \in [Sessions -> OwnerStates]
    /\ drain \in [Drainers -> DrainStates]
    /\ force \in [Forcers -> ForceStates]
    /\ taken \in [Closers -> SUBSET Sessions]
    /\ pending \in [Closers -> SUBSET Sessions]
    /\ running \in [Closers -> SUBSET Sessions]
    /\ closing \subseteq Sessions
    /\ closes \in [Sessions -> Nat]

Init ==
    /\ state = "Open"
    /\ mu = Free
    /\ sessions = {}
    /\ parents = {}
    /\ released = {}
    /\ idle = {}
    /\ owner = [s \in Sessions |-> "new"]
    /\ drain = [d \in Drainers |-> "start"]
    /\ force = [f \in Forcers |-> "start"]
    /\ taken = [p \in Closers |-> {}]
    /\ pending = [p \in Closers |-> {}]
    /\ running = [p \in Closers |-> {}]
    /\ closing = {}
    /\ closes = [s \in Sessions |-> 0]

-----------------------------------------------------------------------------
(* Register and Release *)

\* The owner has a *Session in hand, so it can be named as a parent.
HasHandle(s) == owner[s] \in {"registered", "releasing", "done"}

\* Register's lock-free check of the state.
RegisterCheck(s) ==
    /\ owner[s] = "new"
    /\ Parent[s] # NoParent => HasHandle(Parent[s])
    /\ owner' = [owner EXCEPT ![s] = IF state = "Open" THEN "checked"
                                                       ELSE "rejected"]
    /\ UNCHANGED <<state, mu, sessions, parents, released, idle>>
    /\ UNCHANGED callVars

\* Mutant: Register trusts its first check once it holds mu.
RegisterLock_NoRecheck(s) ==
    /\ owner[s] = "checked"
    /\ mu = Free
    /\ mu' = s
    /\ owner' = [owner EXCEPT ![s] = "admitted"]
    /\ UNCHANGED <<state, sessions, parents, released, idle>>
    /\ UNCHANGED callVars

\* Register takes mu and checks the state again.  A rejected caller unlocks.
RegisterLock(s) ==
    /\ owner[s] = "checked"
    /\ mu = Free
    /\ \/ /\ state = "Open"
          /\ mu' = s
          /\ owner' = [owner EXCEPT ![s] = "admitted"]
       \/ /\ state # "Open"
          /\ mu' = Free
          /\ owner' = [owner EXCEPT ![s] = "rejected"]
    /\ UNCHANGED <<state, sessions, parents, released, idle>>
    /\ UNCHANGED callVars

\* Mutants: the empty parent id is indexed too; the index is not filtered.
IndexEntry_Always(s) == {<<Parent[s], s>>}
WithoutChildren_Keep(index, S) == index

\* The parents-index entry a session contributes, and its removal.
IndexEntry(s) == IF Parent[s] = NoParent THEN {} ELSE {<<Parent[s], s>>}
WithoutChildren(index, S) == {pc \in index : pc[2] \notin S}

\* Register inserts into both maps and unlocks.
RegisterInsert(s) ==
    /\ owner[s] = "admitted"
    /\ sessions' = sessions \cup {s}
    /\ parents' = parents \cup IndexEntry(s)
    /\ mu' = Free
    /\ owner' = [owner EXCEPT ![s] = "registered"]
    /\ UNCHANGED <<state, released, idle>>
    /\ UNCHANGED callVars

\* Release claims the released flag; a session already claimed is left alone.
ReleaseClaim(s) ==
    /\ owner[s] = "registered"
    /\ released' = released \cup {s}
    /\ owner' = [owner EXCEPT ![s] = IF s \in released THEN "done"
                                                       ELSE "releasing"]
    /\ UNCHANGED <<state, mu, sessions, parents, idle>>
    /\ UNCHANGED callVars

\* Release removes the session from both maps under mu.
ReleaseRemove(s) ==
    /\ owner[s] = "releasing"
    /\ mu = Free
    /\ sessions' = sessions \ {s}
    /\ parents' = WithoutChildren(parents, {s})
    /\ owner' = [owner EXCEPT ![s] = "done"]
    /\ UNCHANGED <<state, mu, released, idle>>
    /\ UNCHANGED callVars

\* Session.Touch, and the passage of time without it.
Touch(s) ==
    /\ owner[s] = "registered"
    /\ s \in idle
    /\ idle' = idle \ {s}
    /\ UNCHANGED <<state, mu, sessions, parents, released, owner>>
    /\ UNCHANGED callVars

GoIdle(s) ==
    /\ owner[s] = "registered"
    /\ s \notin idle
    /\ idle' = idle \cup {s}
    /\ UNCHANGED <<state, mu, sessions, parents, released, owner>>
    /\ UNCHANGED callVars

-----------------------------------------------------------------------------
(* Closer fan-out, shared by drains and ForceCloseMatching *)

\* Mutant: the batch is read under mu but left in the sessions map.
Take_NoRemoval(p, batch) ==
    /\ mu = Free
    /\ sessions' = sessions
    /\ parents' = parents
    /\ taken' = [taken EXCEPT ![p] = batch]
    /\ pending' = [pending EXCEPT ![p] = batch]

\* Removing a batch from both maps under mu hands it to one closing call.
Take(p, batch) ==
    /\ mu = Free
    /\ sessions' = sessions \ batch
    /\ parents' = WithoutChildren(parents, batch)
    /\ taken' = [taken EXCEPT ![p] = batch]
    /\ pending' = [pending EXCEPT ![p] = batch]

FanOut(p) == IF p \in Drainers THEN CloseWorkers ELSE 1

\* runCloserBounded starts Closer.Close in a goroutine of its own.
CloserStart(p, s) ==
    /\ s \in pending[p]
    /\ Cardinality(running[p]) < FanOut(p)
    /\ pending' = [pending EXCEPT ![p] = @ \ {s}]
    /\ running' = [running EXCEPT ![p] = @ \cup {s}]
    /\ closing' = closing \cup {s}
    /\ closes' = [closes EXCEPT ![s] = @ + 1]
    /\ UNCHANGED <<drain, force, taken>>
    /\ UNCHANGED regVars

\* Closer.Close returns or panics, possibly long after its grace ran out.
CloserFinish(s) ==
    /\ s \in closing
    /\ closing' = closing \ {s}
    /\ UNCHANGED <<drain, force, taken, pending, running, closes>>
    /\ UNCHANGED regVars

\* Mutant: no grace timer, the call waits for the closer itself.
CloserReturn_Unbounded(p, s) ==
    /\ s \in running[p]
    /\ s \notin closing
    /\ running' = [running EXCEPT ![p] = @ \ {s}]
    /\ released' = IF p \in Forcers THEN released \cup {s} ELSE released
    /\ UNCHANGED <<drain, force, taken, pending, closing, closes>>
    /\ UNCHANGED <<state, mu, sessions, parents, idle, owner>>

\* runCloserBounded returns, with the closer's result or on the grace timer
\* while the closer is still running.  ForceCloseMatching marks the session
\* released at once, a drain only after the whole batch.
CloserReturn(p, s) ==
    /\ s \in running[p]
    /\ running' = [running EXCEPT ![p] = @ \ {s}]
    /\ released' = IF p \in Forcers THEN released \cup {s} ELSE released
    /\ UNCHANGED <<drain, force, taken, pending, closing, closes>>
    /\ UNCHANGED <<state, mu, sessions, parents, idle, owner>>

BatchDone(p) == pending[p] = {} /\ running[p] = {}

-----------------------------------------------------------------------------
(* drainWith *)

\* Mutant: a plain store instead of the compare-and-swap.
DrainBegin_Store(d) ==
    /\ drain[d] = "start"
    /\ state' = "Draining"
    /\ drain' = [drain EXCEPT ![d] = IF IdleGrace[d] THEN "idle_snapshot"
                                                     ELSE "wait"]
    /\ UNCHANGED <<mu, sessions, parents, released, idle, owner>>
    /\ UNCHANGED <<force, taken, pending, running, closing, closes>>

\* The compare-and-swap Open -> Draining elects one drain; every other call
\* reports already_draining and returns.
DrainBegin(d) ==
    /\ drain[d] = "start"
    /\ \/ /\ state = "Open"
          /\ state' = "Draining"
          /\ drain' = [drain EXCEPT ![d] = IF IdleGrace[d] THEN "idle_snapshot"
                                                           ELSE "wait"]
       \/ /\ state # "Open"
          /\ mu = Free
          /\ drain' = [drain EXCEPT ![d] = "done"]
          /\ UNCHANGED state
    /\ UNCHANGED <<mu, sessions, parents, released, idle, owner>>
    /\ UNCHANGED <<force, taken, pending, running, closing, closes>>

\* snapshotIdleEntries: the sessions past the grace window are taken.
SnapshotIdle(d) ==
    /\ drain[d] = "idle_snapshot"
    /\ Take(d, sessions \cap idle)
    /\ drain' = [drain EXCEPT ![d] = "idle_close"]
    /\ UNCHANGED <<state, mu, released, idle, owner>>
    /\ UNCHANGED <<force, running, closing, closes>>

\* The fast path ends: markEntriesReleased.
IdleClosed(d) ==
    /\ drain[d] = "idle_close"
    /\ BatchDone(d)
    /\ released' = released \cup taken[d]
    /\ taken' = [taken EXCEPT ![d] = {}]
    /\ drain' = [drain EXCEPT ![d] = "wait"]
    /\ UNCHANGED <<state, mu, sessions, parents, idle, owner>>
    /\ UNCHANGED <<force, pending, running, closing, closes>>

\* waitForIdle: a poll, or the last look after the deadline, counts zero.
WaitEmpty(d) ==
    /\ drain[d] = "wait"
    /\ mu = Free
    /\ sessions = {}
    /\ drain' = [drain EXCEPT ![d] = "empty"]
    /\ UNCHANGED regVars
    /\ UNCHANGED <<force, taken, pending, running, closing, closes>>

\* waitForIdle: the drain context expired with sessions still tracked.
WaitDeadline(d) ==
    /\ drain[d] = "wait"
    /\ mu = Free
    /\ sessions # {}
    /\ drain' = [drain EXCEPT ![d] = "deadline"]
    /\ UNCHANGED regVars
    /\ UNCHANGED <<force, taken, pending, running, closing, closes>>

DrainClose(d) ==
    /\ drain[d] = "empty"
    /\ state' = "Closed"
    /\ drain' = [drain EXCEPT ![d] = "done"]
    /\ UNCHANGED <<mu, sessions, parents, released, idle, owner>>
    /\ UNCHANGED <<force, taken, pending, running, closing, closes>>

DrainForce(d) ==
    /\ drain[d] = "deadline"
    /\ state' = "Forcing"
    /\ drain' = [drain EXCEPT ![d] = "force_snapshot"]
    /\ UNCHANGED <<mu, sessions, parents, released, idle, owner>>
    /\ UNCHANGED <<force, taken, pending, running, closing, closes>>

\* Mutant: the fan-out runs under the expired drain context and skips closers.
SnapshotForce_ExpiredCtx(d) ==
    /\ drain[d] = "force_snapshot"
    /\ mu = Free
    /\ sessions' = {}
    /\ parents' = {}
    /\ taken' = [taken EXCEPT ![d] = sessions]
    /\ drain' = [drain EXCEPT ![d] = "force_close"]
    /\ UNCHANGED <<state, mu, released, idle, owner>>
    /\ UNCHANGED <<force, pending, running, closing, closes>>

\* snapshotEntriesForForce takes everything and resets both maps.
SnapshotForce(d) ==
    /\ drain[d] = "force_snapshot"
    /\ Take(d, sessions)
    /\ drain' = [drain EXCEPT ![d] = "force_close"]
    /\ UNCHANGED <<state, mu, released, idle, owner>>
    /\ UNCHANGED <<force, running, closing, closes>>

\* The deadline path ends: markEntriesReleased, then Closed.
ForceClosed(d) ==
    /\ drain[d] = "force_close"
    /\ BatchDone(d)
    /\ released' = released \cup taken[d]
    /\ taken' = [taken EXCEPT ![d] = {}]
    /\ state' = "Closed"
    /\ drain' = [drain EXCEPT ![d] = "done"]
    /\ UNCHANGED <<mu, sessions, parents, idle, owner>>
    /\ UNCHANGED <<force, pending, running, closing, closes>>

-----------------------------------------------------------------------------
(* ForceCloseMatching *)

\* Any predicate: any subset of the tracked sessions.  The state is not read.
ForceMatch(f) ==
    /\ force[f] = "start"
    /\ \E batch \in SUBSET sessions : Take(f, batch)
    /\ force' = [force EXCEPT ![f] = "closing"]
    /\ UNCHANGED <<state, mu, released, idle, owner>>
    /\ UNCHANGED <<drain, running, closing, closes>>

ForceReturn(f) ==
    /\ force[f] = "closing"
    /\ BatchDone(f)
    /\ taken' = [taken EXCEPT ![f] = {}]
    /\ force' = [force EXCEPT ![f] = "done"]
    /\ UNCHANGED regVars
    /\ UNCHANGED <<drain, pending, running, closing, closes>>

-----------------------------------------------------------------------------

OwnerNext(s) ==
    \/ RegisterCheck(s) \/ RegisterLock(s) \/ RegisterInsert(s)
    \/ ReleaseClaim(s) \/ ReleaseRemove(s)

DrainNext(d) ==
    \/ DrainBegin(d) \/ SnapshotIdle(d) \/ IdleClosed(d)
    \/ WaitEmpty(d) \/ WaitDeadline(d) \/ DrainClose(d)
    \/ DrainForce(d) \/ SnapshotForce(d) \/ ForceClosed(d)

Next ==
    \/ \E s \in Sessions : OwnerNext(s)
    \/ \E s \in Sessions : Touch(s) \/ GoIdle(s) \/ CloserFinish(s)
    \/ \E p \in Closers, s \in Sessions : CloserStart(p, s) \/ CloserReturn(p, s)
    \/ \E d \in Drainers : DrainNext(d)
    \/ \E f \in Forcers : ForceMatch(f) \/ ForceReturn(f)

Spec == Init /\ [][Next]_vars

(***************************************************************************)
(* A goroutine that can run does run, a lock holder unlocks, timers fire   *)
(* (the drain deadline and the grace of a closer).  Nothing is assumed of  *)
(* owners that never release or of closers that never return.              *)
(***************************************************************************)
Fairness ==
    /\ \A s \in Sessions : WF_vars(RegisterLock(s) \/ RegisterInsert(s)
                                   \/ ReleaseRemove(s))
    /\ \A p \in Closers, s \in Sessions : WF_vars(CloserStart(p, s)
                                                  \/ CloserReturn(p, s))
    /\ \A d \in Drainers : WF_vars(drain[d] # "start" /\ DrainNext(d))
    /\ \A f \in Forcers : WF_vars(ForceReturn(f))

FairSpec == Spec /\ Fairness

-----------------------------------------------------------------------------
(* Properties *)

\* Once drainWith has reported Closed nothing is tracked and no Register is
\* past its re-check, so nothing will be tracked again: the re-check under mu
\* in Register, together with the locked Count and snapshot in drainWith,
\* closes the window between the first check and the insert.
ClosedIsEmpty ==
    state = "Closed" => sessions = {} /\ \A s \in Sessions : owner[s] # "admitted"

\* Closer.Close is called at most once per session, whichever of the idle
\* fast path, the deadline path and ForceCloseMatching get hold of it: the
\* contract stated on the Closer interface.
CloserOnce == \A s \in Sessions : closes[s] <= 1

\* When the registry is Closed, an owner that holds a session it has not
\* released was told to close it, or is queued in a ForceCloseMatching that
\* is still working through its batch.  No session falls out of the maps
\* without its owner hearing of it.
ClosedOwnersTold ==
    state = "Closed" =>
        \A s \in Sessions : owner[s] = "registered" =>
            closes[s] = 1 \/ \E f \in Forcers : s \in pending[f]

\* The parents index lists exactly the tracked children, so ChildrenOf and
\* DescendantsOf see no session that has left and miss none that is tracked.
IndexCoherent ==
    parents = {<<Parent[s], s>> : s \in {t \in sessions : Parent[t] # NoParent}}

\* The state only moves forward, Open -> Draining -> (Forcing ->) Closed,
\* however many drains are called.
Rank == [Open |-> 0, Draining |-> 1, Forcing |-> 2, Closed |-> 3]
StateForward == [][Rank[state'] >= Rank[state]]_state

-----------------------------------------------------------------------------
(* Refinement: a registry is a session gate.  A session is inside from the *)
(* moment Register's re-check admits it, before it appears in the map.     *)

gateBar == CASE state = "Open" -> "open"
             [] state \in {"Draining", "Forcing"} -> "shut"
             [] state = "Closed" -> "finished"

insideBar == sessions \cup {s \in Sessions : owner[s] = "admitted"}

Gate == INSTANCE SessionGate WITH gate <- gateBar, inside <- insideBar

\* The registry implements the gate's safety part: Register is linearised at
\* its re-check, and drainWith reports Closed on an empty registry only.
GateSafe == Gate!Safe
\* Drain is bounded: under Fairness a registry that started to drain becomes
\* Closed, even when an owner never releases and a closer never returns.
GateLive == Gate!Live

=============================================================================
