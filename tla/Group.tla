------------------------------- MODULE Group -------------------------------
(***************************************************************************)
(* internal/livetrack/group.go: the lifecycle group and Quiesce.           *)
(*                                                                         *)
(* Registries are attached as members of a phase and non-registry steps as *)
(* hooks before or after a phase's drains.  A member registry is           *)
(* represented by what SessionGate promises (Registry is shown to          *)
(* implement it).  Several Quiesce calls may be in progress: each walks    *)
(* the phases in order, snapshots the phase's members and hooks under the  *)
(* group lock, runs the before-hooks, drains the members concurrently, and *)
(* runs the after-hooks.  The budget's Cap is one deadline per call: once  *)
(* it expires, every later drain of that call goes straight to its force   *)
(* path.                                                                   *)
(***************************************************************************)
EXTENDS Naturals, FiniteSets

CONSTANTS
    Members,        \* registries that may be attached
    Hooks,          \* hooks that may be added
    PhaseOf,        \* phase of each member and hook, 1 (ingress) .. 4 (storage)
    BeforeHooks,    \* hooks added with AddHookBefore
    CancelNoWait,   \* members whose MemberSpec.CancelNoWait is set
    AttachedFirst,  \* members and hooks attached before the daemon serves
    Sessions,       \* sessions, each registering at most once
    MemberOf,       \* the registry each session belongs to
    Quiescers,      \* Quiesce calls
    IdleGraceCalls  \* calls whose budget has a positive IdleGrace

Phases == 1..4
Items == Members \cup Hooks

ASSUME GroupAssumption ==
    /\ Members \cap Hooks = {}
    /\ PhaseOf \in [Items -> Phases]
    /\ BeforeHooks \subseteq Hooks
    /\ CancelNoWait \subseteq Members
    /\ AttachedFirst \subseteq Items
    /\ MemberOf \in [Sessions -> Members]
    /\ IdleGraceCalls \subseteq Quiescers

VARIABLES
    attached,   \* Group.members and Group.hooks
    gate,       \* state of each member registry
    inside,     \* sessions tracked by each member registry
    fresh,      \* sessions that have not registered yet
    ran,        \* hooks that have run at least once
    phase,      \* phase each Quiesce call is in; 0 before it starts, 5 after
    step,       \* its stage within the phase
    todo,       \* items of its snapshot that it has not dealt with yet
    draining,   \* members whose drain it elected itself to run
    expired     \* calls whose Cap has run out

groupVars == <<attached, gate, inside, fresh, ran, phase, step, todo, draining, expired>>
gateVars == <<gate, inside, fresh>>
callVars == <<phase, step, todo, draining, expired>>

GroupTypeOK ==
    /\ attached \subseteq Items
    /\ gate \in [Members -> {"open", "shut", "finished"}]
    /\ inside \in [Members -> SUBSET Sessions]
    /\ fresh \subseteq Sessions
    /\ ran \subseteq Hooks
    /\ phase \in [Quiescers -> 0..5]
    /\ step \in [Quiescers -> {"idle", "snapshot", "before", "drain", "after"}]
    /\ todo \in [Quiescers -> SUBSET Items]
    /\ draining \in [Quiescers -> SUBSET Members]
    /\ expired \subseteq Quiescers

GroupInit ==
    /\ attached = AttachedFirst
    /\ gate = [m \in Members |-> "open"]
    /\ inside = [m \in Members |-> {}]
    /\ fresh = Sessions
    /\ ran = {}
    /\ phase = [q \in Quiescers |-> 0]
    /\ step = [q \in Quiescers |-> "idle"]
    /\ todo = [q \in Quiescers |-> {}]
    /\ draining = [q \in Quiescers |-> {}]
    /\ expired = {}

-----------------------------------------------------------------------------
(* Sessions and attachment *)

Register(s) ==
    LET m == MemberOf[s] IN
    /\ s \in fresh
    /\ m \in attached
    /\ gate[m] = "open"
    /\ fresh' = fresh \ {s}
    /\ inside' = [inside EXCEPT ![m] = @ \cup {s}]
    /\ UNCHANGED <<attached, gate, ran>>
    /\ UNCHANGED callVars

Release(s) ==
    /\ s \in inside[MemberOf[s]]
    /\ inside' = [inside EXCEPT ![MemberOf[s]] = @ \ {s}]
    /\ UNCHANGED <<attached, gate, fresh, ran>>
    /\ UNCHANGED callVars

\* Attach, AddHook and AddHookBefore while a Quiesce may be in progress.
Attach(i) ==
    /\ i \in Items \ attached
    /\ attached' = attached \cup {i}
    /\ UNCHANGED <<ran, callVars>>
    /\ UNCHANGED gateVars

-----------------------------------------------------------------------------
(* Quiesce *)

\* The part of a call's snapshot that one stage of quiescePhase works through.
BeforeTodo(q) == todo[q] \cap BeforeHooks
DrainTodo(q) == todo[q] \cap Members
AfterTodo(q) == todo[q] \cap (Hooks \ BeforeHooks)

\* Mutant: Quiesce guarded so that only the first call does anything.
Quiesce_Once(q) ==
    /\ phase[q] = 0
    /\ phase' = [phase EXCEPT ![q] = IF \E p \in Quiescers : phase[p] > 0 THEN 5 ELSE 1]
    /\ step' = [step EXCEPT ![q] = IF \E p \in Quiescers : phase[p] > 0
                                   THEN "idle" ELSE "snapshot"]
    /\ UNCHANGED <<attached, ran, todo, draining, expired>>
    /\ UNCHANGED gateVars

Quiesce(q) ==
    /\ phase[q] = 0
    /\ phase' = [phase EXCEPT ![q] = 1]
    /\ step' = [step EXCEPT ![q] = "snapshot"]
    /\ UNCHANGED <<attached, ran, todo, draining, expired>>
    /\ UNCHANGED gateVars

\* quiescePhase copies the phase's members and hooks under the group lock.
PhaseSnapshot(q) ==
    /\ step[q] = "snapshot"
    /\ todo' = [todo EXCEPT ![q] = {i \in attached : PhaseOf[i] = phase[q]}]
    /\ step' = [step EXCEPT ![q] = "before"]
    /\ UNCHANGED <<attached, ran, phase, draining, expired>>
    /\ UNCHANGED gateVars

\* Hooks of one stage run one after the other; no order among them is assumed.
\* runHook: a failing or panicking hook is logged and counts as run.
RunHook(q, h) ==
    /\ \/ step[q] = "before" /\ h \in BeforeTodo(q)
       \/ step[q] = "after" /\ h \in AfterTodo(q)
    /\ ran' = ran \cup {h}
    /\ todo' = [todo EXCEPT ![q] = @ \ {h}]
    /\ UNCHANGED <<attached, phase, step, draining, expired>>
    /\ UNCHANGED gateVars

BeforeDone(q) ==
    /\ step[q] = "before"
    /\ BeforeTodo(q) = {}
    /\ step' = [step EXCEPT ![q] = "drain"]
    /\ UNCHANGED <<attached, ran, phase, todo, draining, expired>>
    /\ UNCHANGED gateVars

\* forceCloseNow: a CancelNoWait member loses its sessions and stays open.
ForceCloseNow(q, m) ==
    /\ step[q] = "drain"
    /\ m \in DrainTodo(q) \cap CancelNoWait
    /\ inside' = [inside EXCEPT ![m] = {}]
    /\ todo' = [todo EXCEPT ![q] = @ \ {m}]
    /\ UNCHANGED <<attached, gate, fresh, ran, phase, step, draining, expired>>

\* drainWith on a member: the call that finds it open runs the drain, which
\* may evict idle sessions at once; any other call returns already_draining.
MemberDrain(q, m) ==
    /\ step[q] = "drain"
    /\ m \in DrainTodo(q) \ CancelNoWait
    /\ todo' = [todo EXCEPT ![q] = @ \ {m}]
    /\ \/ /\ gate[m] = "open"
          /\ gate' = [gate EXCEPT ![m] = "shut"]
          /\ draining' = [draining EXCEPT ![q] = @ \cup {m}]
          /\ \E evicted \in SUBSET inside[m] :
                /\ q \notin IdleGraceCalls => evicted = {}
                /\ inside' = [inside EXCEPT ![m] = @ \ evicted]
       \/ /\ gate[m] # "open"
          /\ UNCHANGED <<gate, inside, draining>>
    /\ UNCHANGED <<attached, fresh, ran, phase, step, expired>>

\* Mutant: the drain waits for the sessions and ignores its deadline.
MemberDrained_NoForce(q, m) ==
    /\ m \in draining[q]
    /\ inside[m] = {}
    /\ gate' = [gate EXCEPT ![m] = "finished"]
    /\ draining' = [draining EXCEPT ![q] = @ \ {m}]
    /\ UNCHANGED <<attached, inside, fresh, ran, phase, step, todo, expired>>

\* The drain ends when the registry is empty, or by force after the deadline.
MemberDrained(q, m) ==
    /\ m \in draining[q]
    /\ inside[m] = {} \/ q \in expired
    /\ inside' = [inside EXCEPT ![m] = {}]
    /\ gate' = [gate EXCEPT ![m] = "finished"]
    /\ draining' = [draining EXCEPT ![q] = @ \ {m}]
    /\ UNCHANGED <<attached, fresh, ran, phase, step, todo, expired>>

\* Mutant: wg.Wait is missing.
DrainsDone_NoWait(q) ==
    /\ step[q] = "drain"
    /\ DrainTodo(q) = {}
    /\ step' = [step EXCEPT ![q] = "after"]
    /\ UNCHANGED <<attached, ran, phase, todo, draining, expired>>
    /\ UNCHANGED gateVars

\* wg.Wait returns: every drain this call started has ended.
DrainsDone(q) ==
    /\ step[q] = "drain"
    /\ DrainTodo(q) = {}
    /\ draining[q] = {}
    /\ step' = [step EXCEPT ![q] = "after"]
    /\ UNCHANGED <<attached, ran, phase, todo, draining, expired>>
    /\ UNCHANGED gateVars

\* Mutant: the loop over the phases runs once too often.
PhaseDone_Extra(q) ==
    /\ step[q] = "after"
    /\ AfterTodo(q) = {}
    /\ phase' = [phase EXCEPT ![q] = @ + 1]
    /\ step' = [step EXCEPT ![q] = IF phase[q] < 5 THEN "snapshot" ELSE "idle"]
    /\ UNCHANGED <<attached, ran, todo, draining, expired>>
    /\ UNCHANGED gateVars

PhaseDone(q) ==
    /\ step[q] = "after"
    /\ AfterTodo(q) = {}
    /\ phase' = [phase EXCEPT ![q] = @ + 1]
    /\ step' = [step EXCEPT ![q] = IF phase[q] < 4 THEN "snapshot" ELSE "idle"]
    /\ UNCHANGED <<attached, ran, todo, draining, expired>>
    /\ UNCHANGED gateVars

\* budget.Cap runs out.
Expire(q) ==
    /\ phase[q] \in Phases
    /\ q \notin expired
    /\ expired' = expired \cup {q}
    /\ UNCHANGED <<attached, ran, phase, step, todo, draining>>
    /\ UNCHANGED gateVars

QuiesceStep(q) ==
    \/ PhaseSnapshot(q) \/ BeforeDone(q) \/ DrainsDone(q) \/ PhaseDone(q)
    \/ \E h \in Hooks : RunHook(q, h)
    \/ \E m \in Members : ForceCloseNow(q, m) \/ MemberDrain(q, m) \/ MemberDrained(q, m)

InProgress(q) == phase[q] \in Phases
Finished(q) == phase[q] = 5
=============================================================================
