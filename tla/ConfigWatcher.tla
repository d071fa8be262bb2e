--------------------------- MODULE ConfigWatcher ---------------------------
(***************************************************************************)
(* internal/daemon/config_watcher.go and what a change of the config file  *)
(* sets off: classification (internal/config/change_class.go), the hot     *)
(* apply (config_apply.go), the quiet wait, and the reload or rebind that  *)
(* makes the next generation load the file (run.go, reload.go, client.go). *)
(*                                                                         *)
(* A generation is one worker process with its own watcher.  The file is   *)
(* read several times on the way, and anybody may edit it in between: at   *)
(* boot it is loaded and then hashed, and a watcher hashes it, parses it   *)
(* and hashes it again.  A content stands for its own hash.                *)
(*                                                                         *)
(* A process that has exited is one whose watcher takes no further step.   *)
(***************************************************************************)
EXTENDS Naturals

CONSTANTS
    Contents,   \* contents the config file may have, its absence included
    Config,     \* parsed configurations: records with the fields below
    Parsed,     \* what LoadGlobalOrDefault makes of each content
    BadHot,     \* values of field hot that adapter.NewRegistry rejects
    FirstFile,  \* the content the first generation boots from
    MaxGens,    \* bound: generations
    MaxEdits,   \* bound: edits of the file
    MaxCli,     \* bound: reloads asked for on the command line
    None

Gens == 1..MaxGens
Cli == 0
Fields == {"hot", "cold", "listen", "surface"}

\* hot: the hot set.  listen: listener addresses.  surface: "on" or "off", a
\* surface toggled as a whole.  cold: every other field.
ASSUME ConfigAssumption ==
    /\ None \notin Contents /\ None \notin Config /\ None \notin Gens /\ None # Cli
    /\ Parsed \in [Contents -> Config \cup {None}]
    /\ \A c \in Config : DOMAIN c = Fields /\ c.surface \in {"on", "off"}
    /\ FirstFile \in Contents
    /\ MaxGens \in Nat \ {0}
    /\ MaxEdits \in Nat
    /\ MaxCli \in Nat

VARIABLES
    file,       \* the content of the config file
    edits, clis,    \* how often the file was edited, and reloads were asked for
    life,       \* each generation's process
    parent,     \* the generation whose listeners it inherits, None to bind afresh
    boot,       \* the config it was started with
    running,    \* runtimeServices.currentConfig
    baseline,   \* configWatcher.baselineHash
    watch,      \* the watcher's goroutine
    hash, route,    \* locals of handleChange
    queued,     \* an event waits in fsnotify
    pending,    \* the debounce timer is armed
    cancelled,  \* generations whose watcher is cancelled, or may not or could not start
    lock,       \* holder of daemon.reload.lock: a watcher, Cli, or None
    rpc,        \* the reload or rebind RPC in progress
    target,     \* the generation serving it
    child,      \* the replacement it started
    gaveUp,     \* history: watchers whose last handleChange gave up on the file
    missed,     \* history: generations whose file changed, or had no hash, before
                \* they watched it
    torn        \* history: generations whose baseline is not what they loaded

bootVars == <<life, parent, boot>>
watchVars == <<watch, hash, route, queued, pending>>
rpcVars == <<lock, rpc, target, child>>
envVars == <<file, edits, clis>>
vars == <<file, edits, clis, life, parent, boot, running, baseline, watch, hash, route,
          queued, pending, cancelled, lock, rpc, target, child, gaveUp, missed, torn>>

Routes == {"hot", "reload", "rebind", "restart"}

TypeOK ==
    /\ file \in Contents
    /\ edits \in 0..MaxEdits
    /\ clis \in 0..MaxCli
    /\ life \in [Gens -> {"none", "loading", "hashing", "starting", "serving", "replaced", "failed"}]
    /\ parent \in [Gens -> Gens \cup {None}]
    /\ boot \in [Gens -> Config \cup {None}]
    /\ running \in [Gens -> Config \cup {None}]
    /\ baseline \in [Gens -> Contents \cup {None}]
    /\ watch \in [Gens -> {"off", "idle", "parsing", "waiting", "triggering", "done"}]
    /\ hash \in [Gens -> Contents \cup {None}]
    /\ route \in [Gens -> Routes \cup {None}]
    /\ queued \in [Gens -> BOOLEAN]
    /\ pending \in [Gens -> BOOLEAN]
    /\ cancelled \subseteq Gens
    /\ lock \in Gens \cup {Cli, None}
    /\ rpc \in {"none", "reload", "rebind"}
    /\ target \in Gens \cup {None}
    /\ child \in Gens \cup {None}
    /\ gaveUp \subseteq Gens
    /\ missed \subseteq Gens
    /\ torn \subseteq Gens

Init ==
    /\ file = FirstFile
    /\ edits = 0
    /\ clis = 0
    /\ life = [g \in Gens |-> IF g = 1 THEN "loading" ELSE "none"]
    /\ parent = [g \in Gens |-> None]
    /\ boot = [g \in Gens |-> None]
    /\ running = [g \in Gens |-> None]
    /\ baseline = [g \in Gens |-> None]
    /\ watch = [g \in Gens |-> "off"]
    /\ hash = [g \in Gens |-> None]
    /\ route = [g \in Gens |-> None]
    /\ queued = [g \in Gens |-> FALSE]
    /\ pending = [g \in Gens |-> FALSE]
    /\ cancelled = {}
    /\ lock = None
    /\ rpc = "none"
    /\ target = None
    /\ child = None
    /\ gaveUp = {}
    /\ missed = {}
    /\ torn = {}

-----------------------------------------------------------------------------
(* Classification *)

\* Mutant: the listener addresses are not compared.
ListenerTopologyMoved_Never(old, new) == FALSE

ListenerTopologyMoved(old, new) == old.listen # new.listen

\* ClassifyConfigChange; two equal configs are worth a reload, too.
Classify(old, new) ==
    CASE old.surface # new.surface -> "restart"
      [] old.surface = new.surface /\ ListenerTopologyMoved(old, new) -> "rebind"
      [] old.surface = new.surface /\ ~ListenerTopologyMoved(old, new) ->
            IF old.cold = new.cold /\ old.hot # new.hot THEN "hot" ELSE "reload"

Buildable(c) == c.hot \notin BadHot

\* A child that inherits sockets refuses other addresses, and a socket of a
\* surface its config has turned off.
Inheritable(old, new) ==
    /\ old.listen = new.listen
    /\ old.surface = "on" => new.surface = "on"

-----------------------------------------------------------------------------
(* A generation boots *)

\* loadDaemonStartupConfig and startRuntime.
BootLoad(g) ==
    LET c == Parsed[file] IN
    /\ life[g] = "loading"
    /\ \/ /\ c # None
          /\ Buildable(c)
          /\ parent[g] # None => Inheritable(boot[parent[g]], c)
          /\ boot' = [boot EXCEPT ![g] = c]
          /\ running' = [running EXCEPT ![g] = c]
          /\ hash' = [hash EXCEPT ![g] = file]
          /\ life' = [life EXCEPT ![g] = "hashing"]
       \/ /\ \/ c = None
             \/ c # None /\ ~Buildable(c)
             \/ c # None /\ parent[g] # None /\ ~Inheritable(boot[parent[g]], c)
          /\ life' = [life EXCEPT ![g] = "failed"]
          /\ UNCHANGED <<boot, running, hash>>
    /\ UNCHANGED <<parent, baseline, watch, route, queued, pending, cancelled>>
    /\ UNCHANGED <<envVars, rpcVars, gaveUp, missed, torn>>

\* configFileHash; a read error leaves a baseline no content has.
BootHash(g) ==
    /\ life[g] = "hashing"
    /\ \E read \in {file, None} :
          /\ baseline' = [baseline EXCEPT ![g] = read]
          /\ torn' = IF read = hash[g] THEN torn ELSE torn \cup {g}
          /\ missed' = IF read = None THEN missed \cup {g} ELSE missed
    /\ hash' = [hash EXCEPT ![g] = None]
    /\ life' = [life EXCEPT ![g] = "starting"]
    /\ UNCHANGED <<parent, boot, running, watch, route, queued, pending, cancelled>>
    /\ UNCHANGED <<envVars, rpcVars, gaveUp>>

\* signalReady.
BootReady(g) ==
    /\ life[g] = "starting"
    /\ life' = [life EXCEPT ![g] = "serving"]
    /\ UNCHANGED <<parent, boot, running, baseline, cancelled>>
    /\ UNCHANGED <<watchVars, envVars, rpcVars, gaveUp, missed, torn>>

\* startConfigWatcher: from now on edits are events.  A reload may already have replaced
\* this generation.
StartWatch(g) ==
    /\ life[g] \in {"serving", "replaced"}
    /\ watch[g] = "off"
    /\ g \notin cancelled
    /\ watch' = [watch EXCEPT ![g] = "idle"]
    /\ UNCHANGED <<hash, route, queued, pending, running, baseline, cancelled>>
    /\ UNCHANGED <<bootVars, envVars, rpcVars, gaveUp, missed, torn>>

\* fsnotify fails, or the registry has been drained and refuses the session: the
\* generation serves on, and has no watcher for good.
StartWatchFails(g) ==
    /\ life[g] \in {"serving", "replaced"}
    /\ watch[g] = "off"
    /\ watch' = [watch EXCEPT ![g] = "done"]
    /\ cancelled' = cancelled \cup {g}
    /\ UNCHANGED <<hash, route, queued, pending, running, baseline>>
    /\ UNCHANGED <<bootVars, envVars, rpcVars, gaveUp, missed, torn>>

-----------------------------------------------------------------------------
(* A watcher *)

\* Mutant: a timer that is armed is stopped and not started again.
TakeEvent_StopOnly(g) ==
    /\ watch[g] = "idle"
    /\ queued[g]
    /\ queued' = [queued EXCEPT ![g] = FALSE]
    /\ pending' = [pending EXCEPT ![g] = ~@]
    /\ UNCHANGED <<watch, hash, route, running, baseline, cancelled>>
    /\ UNCHANGED <<bootVars, envVars, rpcVars, gaveUp, missed, torn>>

\* The loop takes an event and re-arms the debounce timer.
TakeEvent(g) ==
    /\ watch[g] = "idle"
    /\ queued[g]
    /\ queued' = [queued EXCEPT ![g] = FALSE]
    /\ pending' = [pending EXCEPT ![g] = TRUE]
    /\ UNCHANGED <<watch, hash, route, running, baseline, cancelled>>
    /\ UNCHANGED <<bootVars, envVars, rpcVars, gaveUp, missed, torn>>

\* The loop sees its cancellation; while other cases are ready it may not.
LoopCancelled(g) ==
    /\ watch[g] = "idle"
    /\ g \in cancelled
    /\ watch' = [watch EXCEPT ![g] = "done"]
    /\ UNCHANGED <<hash, route, queued, pending, running, baseline, cancelled>>
    /\ UNCHANGED <<bootVars, envVars, rpcVars, gaveUp, missed, torn>>

\* The timer fires and handleChange hashes the file.
Fire(g) ==
    /\ watch[g] = "idle"
    /\ pending[g]
    /\ pending' = [pending EXCEPT ![g] = FALSE]
    /\ missed' = missed \ {g}
    /\ \/ /\ gaveUp' = gaveUp \cup {g}      \* the file cannot be read
          /\ UNCHANGED <<watch, hash>>
       \/ /\ file = baseline[g]
          /\ gaveUp' = gaveUp \ {g}
          /\ UNCHANGED <<watch, hash>>
       \/ /\ file # baseline[g]
          /\ hash' = [hash EXCEPT ![g] = file]
          /\ watch' = [watch EXCEPT ![g] = "parsing"]
          /\ gaveUp' = gaveUp \ {g}
    /\ UNCHANGED <<route, queued, running, baseline, cancelled>>
    /\ UNCHANGED <<bootVars, envVars, rpcVars, torn>>

\* handleChange returns to the loop.
ToLoop(g) ==
    /\ watch' = [watch EXCEPT ![g] = "idle"]
    /\ hash' = [hash EXCEPT ![g] = None]
    /\ route' = [route EXCEPT ![g] = None]

\* Mutant: the baseline is kept after a hot apply.
HotApply_KeepBaseline(g, c) ==
    /\ running' = [running EXCEPT ![g] = c]
    /\ torn' = torn
    /\ UNCHANGED baseline

\* applyConfigInProcess succeeds: adapter, proxies, pricing, currentConfig.  The
\* config applied is the one parsed, the baseline the content hashed before.
HotApply(g, c) ==
    /\ running' = [running EXCEPT ![g] = c]
    /\ baseline' = [baseline EXCEPT ![g] = hash[g]]
    /\ torn' = IF file = hash[g] THEN torn \ {g} ELSE torn \cup {g}

\* handleChange parses the file, classifies the change and maybe applies it.
\* Only the adapter can refuse a config, before anything has been swapped.
Parse(g) ==
    LET c == Parsed[file]
        r == Classify(running[g], c) IN
    /\ watch[g] = "parsing"
    /\ \/ /\ c = None \/ (c # None /\ r = "restart")
          /\ gaveUp' = gaveUp \cup {g}
          /\ ToLoop(g)
          /\ UNCHANGED <<running, baseline, torn>>
       \/ /\ c # None /\ r = "hot" /\ Buildable(c)
          /\ HotApply(g, c)
          /\ ToLoop(g)
          /\ UNCHANGED gaveUp
       \/ /\ c # None /\ (r \in {"reload", "rebind"} \/ (r = "hot" /\ ~Buildable(c)))
          /\ route' = [route EXCEPT ![g] = r]
          /\ watch' = [watch EXCEPT ![g] = "waiting"]
          /\ UNCHANGED <<hash, running, baseline, gaveUp, torn>>
    /\ UNCHANGED <<queued, pending, cancelled, missed>>
    /\ UNCHANGED <<bootVars, envVars, rpcVars>>

\* Mutant: the second hash is compared with the first one, not with the baseline.
Wait_WrongHash(g) ==
    /\ watch[g] = "waiting"
    /\ \/ /\ file = hash[g]
          /\ ToLoop(g)
       \/ /\ file # hash[g]
          /\ watch' = [watch EXCEPT ![g] = "triggering"]
          /\ UNCHANGED <<hash, route>>
    /\ UNCHANGED <<queued, pending, running, baseline, cancelled, gaveUp, missed, torn>>
    /\ UNCHANGED <<bootVars, envVars, rpcVars>>

\* quietWait returns, because it is quiet, or after its bound, or because the
\* loop was cancelled; then the file is hashed again.
Wait(g) ==
    /\ watch[g] = "waiting"
    /\ \/ /\ gaveUp' = gaveUp \cup {g}      \* the file cannot be read
          /\ ToLoop(g)
       \/ /\ file = baseline[g]
          /\ ToLoop(g)
          /\ UNCHANGED gaveUp
       \/ /\ file # baseline[g]
          /\ watch' = [watch EXCEPT ![g] = "triggering"]
          /\ UNCHANGED <<hash, route, gaveUp>>
    /\ UNCHANGED <<queued, pending, running, baseline, cancelled, missed, torn>>
    /\ UNCHANGED <<bootVars, envVars, rpcVars>>

-----------------------------------------------------------------------------
(* Reload and rebind *)

\* lockDaemonReload, on a context that the watcher's cancellation does not reach.
WatcherLock(g) ==
    /\ watch[g] = "triggering"
    /\ lock = None
    /\ lock' = g
    /\ UNCHANGED <<rpc, target, child, running, baseline, cancelled>>
    /\ UNCHANGED <<bootVars, watchVars, envVars, gaveUp, missed, torn>>

CliLock ==
    /\ clis < MaxCli
    /\ lock = None
    /\ lock' = Cli
    /\ clis' = clis + 1
    /\ UNCHANGED <<file, edits, rpc, target, child, running, baseline, cancelled>>
    /\ UNCHANGED <<bootVars, watchVars, gaveUp, missed, torn>>

\* Mutant: the route decides, also after a hot apply that failed.
Kind_Route == IF lock \in Gens THEN route[lock] ELSE "reload"

Kind == IF lock \in Gens /\ route[lock] = "rebind" THEN "rebind" ELSE "reload"

\* A worker takes the RPC and asks for a replacement.  A rebind has drained
\* every surface by then, the watcher's registry included.  A worker that was
\* already replaced no longer serves the control socket.
RpcBegin(s, c) ==
    /\ lock # None
    /\ rpc = "none"
    /\ life[s] = "serving"
    /\ life[c] = "none"
    /\ \A d \in Gens : d < c => life[d] # "none"
    /\ rpc' = Kind
    /\ target' = s
    /\ child' = c
    /\ life' = [life EXCEPT ![c] = "loading"]
    /\ parent' = [parent EXCEPT ![c] = IF Kind = "reload" THEN s ELSE None]
    /\ cancelled' = IF Kind = "rebind" THEN cancelled \cup {s} ELSE cancelled
    /\ UNCHANGED <<lock, boot, running, baseline>>
    /\ UNCHANGED <<watchVars, envVars, gaveUp, missed, torn>>

\* The RPC ends: the lock is released and the watcher that asked goes on.
RpcReturns(ok) ==
    /\ lock' = None
    /\ rpc' = "none"
    /\ target' = None
    /\ child' = None
    /\ watch' = IF lock \in Gens
                THEN [watch EXCEPT ![lock] = IF ok THEN "done" ELSE "idle"] ELSE watch
    /\ hash' = IF lock \in Gens THEN [hash EXCEPT ![lock] = None] ELSE hash
    /\ route' = IF lock \in Gens THEN [route EXCEPT ![lock] = None] ELSE route
    /\ gaveUp' = IF lock \in Gens /\ ~ok THEN gaveUp \cup {lock} ELSE gaveUp

\* The request is refused, or the child fails or is too slow.  A reload has its
\* child aborted, which may fail, too; a rebind never does.
RpcFails ==
    /\ lock # None
    /\ RpcReturns(FALSE)
    /\ \/ UNCHANGED life
       \/ rpc = "reload" /\ life' = [life EXCEPT ![child] = "failed"]
    /\ UNCHANGED <<parent, boot, queued, pending, running, baseline, cancelled, missed, torn>>
    /\ UNCHANGED envVars

\* The child is ready: the old generation cancels its watcher, if it has one by
\* now, and drains.
RpcReady ==
    /\ rpc # "none"
    /\ life[child] = "serving"
    /\ RpcReturns(TRUE)
    /\ life' = [life EXCEPT ![target] = "replaced"]
    /\ cancelled' = IF watch[target] # "off" THEN cancelled \cup {target} ELSE cancelled
    /\ UNCHANGED <<parent, boot, queued, pending, running, baseline, missed, torn>>
    /\ UNCHANGED envVars

\* The drain of a replaced generation reaches its watcher's registry.
DrainCancels(g) ==
    /\ life[g] = "replaced"
    /\ g \notin cancelled
    /\ cancelled' = cancelled \cup {g}
    /\ UNCHANGED <<running, baseline>>
    /\ UNCHANGED <<bootVars, watchVars, envVars, rpcVars, gaveUp, missed, torn>>

-----------------------------------------------------------------------------

\* Somebody writes, replaces, removes or touches the file.
Edit(f) ==
    /\ edits < MaxEdits
    /\ edits' = edits + 1
    /\ file' = f
    /\ queued' = [g \in Gens |-> queued[g] \/ watch[g] \notin {"off", "done"}]
    /\ missed' = missed \cup {g \in Gens : /\ f # file
                                            /\ watch[g] = "off"
                                            /\ life[g] \notin {"none", "loading", "failed"}}
    /\ UNCHANGED <<clis, watch, hash, route, pending, running, baseline, cancelled>>
    /\ UNCHANGED <<bootVars, rpcVars, gaveUp, torn>>

\* No more edits and reloads within the bounds.
Quiet == edits = MaxEdits /\ clis = MaxCli /\ UNCHANGED vars

BootNext(g) == BootLoad(g) \/ BootHash(g) \/ BootReady(g) \/ StartWatch(g) \/ StartWatchFails(g)
WatchNext(g) == TakeEvent(g) \/ LoopCancelled(g) \/ Fire(g) \/ Parse(g) \/ Wait(g) \/ WatcherLock(g)
RpcNext == (\E s, c \in Gens : RpcBegin(s, c)) \/ RpcFails \/ RpcReady

Next ==
    \/ \E g \in Gens : BootNext(g) \/ WatchNext(g) \/ DrainCancels(g)
    \/ RpcNext
    \/ CliLock
    \/ \E f \in Contents : Edit(f)
    \/ Quiet

Spec == Init /\ [][Next]_vars

(***************************************************************************)
(* Goroutines that can run do run, and an RPC ends: its timeouts bound it. *)
(* The flock is granted sooner or later.  That the timer fires while events*)
(* arrive needs them to pause for the debounce period; their number is     *)
(* bounded here.                                                           *)
(***************************************************************************)
Fairness ==
    /\ \A g \in Gens : WF_vars(BootNext(g)) /\ WF_vars(WatchNext(g)) /\ SF_vars(WatcherLock(g))
    /\ WF_vars(RpcNext)

FairSpec == Spec /\ Fairness

-----------------------------------------------------------------------------
(* Properties *)

\* In-process applies change nothing but hot fields: what a generation runs has
\* the listeners, the surfaces and the other settings it was started with, also
\* after any number of edits, races and failed reloads.
OnlyHotChanges ==
    \A g \in Gens : boot[g] # None =>
        \A f \in Fields \ {"hot"} : running[g][f] = boot[g][f]

\* The content a watcher compares with is the one its generation runs, unless an
\* edit fell between the two reads of the file that they come from.
BaselineAgrees ==
    \A g \in Gens : watch[g] # "off" /\ g \notin torn => Parsed[baseline[g]] = running[g]

\* A watcher at rest owes no edit: the file is what it compares with, or its last
\* look at the file ended in an error or a refusal that it logged, or the edit
\* came, or the first hash failed, before the watcher was started.
NoLostEdit ==
    \A g \in Gens :
        life[g] = "serving" /\ watch[g] = "idle" /\ ~queued[g] /\ ~pending[g] =>
            file = baseline[g] \/ g \in gaveUp \cup missed

\* Once the edits end, every serving generation comes to rest and runs the config
\* of the file, with the same exceptions, that of an edit between two reads, and that
\* of a generation which has no watcher any more: it could not be started, or the
\* drain of a rebind that failed later has cancelled it.
Converges ==
    <>[](\A g \in Gens : life[g] = "serving" =>
            /\ watch[g] \in {"idle", "done"}
            /\ running[g] = Parsed[file] \/ g \in gaveUp \cup missed \cup torn \cup cancelled)

\* The comment on cancelConfigWatcher in reloadDaemonWorker: the watcher of a
\* replaced generation does not reload the new one.
WatcherReloadsItself == lock \in Gens /\ rpc # "none" => target = lock
=============================================================================
