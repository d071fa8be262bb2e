------------------------ MODULE ConfigWatcherProofs ------------------------
(***************************************************************************)
(* Proofs about ConfigWatcher: what a generation runs, and what its watcher*)
(* compares the file with, for any contents, classifications and bounds,   *)
(* and that no edit goes unnoticed.                                        *)
(***************************************************************************)
EXTENDS ConfigWatcher, TLAPS

\* A process has passed its boot reads, or its watcher would not be running.
Booted(g) == life[g] \in {"starting", "serving", "replaced"} \/ watch[g] # "off"

\* Between its two boot reads a generation remembers the content it loaded; after
\* them only its watcher changes what it runs, and the baseline with it.
BootInv ==
    \A g \in Gens :
        /\ watch[g] # "off" => life[g] \notin {"none", "loading", "hashing"}
        /\ life[g] = "hashing" => hash[g] \in Contents /\ Parsed[hash[g]] = running[g]
        /\ watch[g] = "parsing" => hash[g] \in Contents
        /\ Booted(g) /\ g \notin torn =>
              baseline[g] \in Contents /\ Parsed[baseline[g]] = running[g]

\* Whoever holds the lock waits for it in trigger; an RPC has both its ends.
LockInv ==
    /\ lock \in Gens => watch[lock] = "triggering"
    /\ rpc # "none" => lock # None /\ target \in Gens /\ child \in Gens
                     /\ target # child /\ life[target] = "serving"

\* An edit the watcher has not dealt with is an event that waits, or an
\* exception that is recorded: before the watcher starts, while it rests, and
\* between its hash of the file and the parse.
EditInv ==
    \A g \in Gens :
        /\ watch[g] = "off" /\ life[g] \in {"starting", "serving", "replaced"} =>
              file = baseline[g] \/ g \in missed
        /\ watch[g] = "idle" /\ ~queued[g] /\ ~pending[g] =>
              file = baseline[g] \/ g \in gaveUp \cup missed
        /\ watch[g] = "parsing" /\ ~queued[g] => hash[g] = file

IInv == TypeOK /\ BootInv /\ LockInv /\ OnlyHotChanges

-----------------------------------------------------------------------------

\* Classify calls a change hot only if no other field differs.
LEMMA HotIsHot ==
    ASSUME NEW old, NEW new, Classify(old, new) = "hot"
    PROVE  old.surface = new.surface /\ old.listen = new.listen /\ old.cold = new.cold
  BY Zenon DEF Classify, ListenerTopologyMoved

LEMMA ClassifyType ==
    ASSUME NEW old, NEW new
    PROVE  Classify(old, new) \in Routes
  BY Zenon DEF Classify, Routes

-----------------------------------------------------------------------------

\* Every step preserves types.
LEMMA TypeStep ==
    ASSUME IInv, [Next]_vars
    PROVE  TypeOK'
  <1> USE ConfigAssumption DEF IInv, LockInv
  <1>1. ASSUME NEW g \in Gens, BootLoad(g) PROVE TypeOK'
    BY <1>1 DEF BootLoad, TypeOK, bootVars, watchVars, rpcVars, envVars
  <1>2. ASSUME NEW g \in Gens, BootHash(g) PROVE TypeOK'
    BY <1>2 DEF BootHash, TypeOK, bootVars, watchVars, rpcVars, envVars
  <1>3. ASSUME NEW g \in Gens, BootReady(g) PROVE TypeOK'
    BY <1>3, Zenon DEF BootReady, TypeOK, bootVars, watchVars, rpcVars, envVars
  <1>4. ASSUME NEW g \in Gens, StartWatch(g) \/ StartWatchFails(g) PROVE TypeOK'
    BY <1>4, Zenon DEF StartWatch, StartWatchFails, TypeOK, bootVars, watchVars, rpcVars, envVars
  <1>5. ASSUME NEW g \in Gens, TakeEvent(g) PROVE TypeOK'
    BY <1>5, Zenon DEF TakeEvent, TypeOK, bootVars, watchVars, rpcVars, envVars
  <1>6. ASSUME NEW g \in Gens, LoopCancelled(g) PROVE TypeOK'
    BY <1>6, Zenon DEF LoopCancelled, TypeOK, bootVars, watchVars, rpcVars, envVars
  <1>7. ASSUME NEW g \in Gens, Fire(g) PROVE TypeOK'
    BY <1>7 DEF Fire, TypeOK, bootVars, watchVars, rpcVars, envVars
  <1>8. ASSUME NEW g \in Gens, Parse(g) PROVE TypeOK'
    BY <1>8, ClassifyType DEF Parse, ToLoop, HotApply, TypeOK, bootVars, watchVars, rpcVars, envVars
  <1>9. ASSUME NEW g \in Gens, Wait(g) PROVE TypeOK'
    BY <1>9, Zenon DEF Wait, ToLoop, TypeOK, bootVars, watchVars, rpcVars, envVars
  <1>10. ASSUME NEW g \in Gens, WatcherLock(g) PROVE TypeOK'
    BY <1>10, Zenon DEF WatcherLock, TypeOK, bootVars, watchVars, rpcVars, envVars
  <1>11. ASSUME NEW g \in Gens, DrainCancels(g) PROVE TypeOK'
    BY <1>11, Zenon DEF DrainCancels, TypeOK, bootVars, watchVars, rpcVars, envVars
  <1>12. ASSUME NEW s \in Gens, NEW c \in Gens, RpcBegin(s, c) PROVE TypeOK'
    BY <1>12, Zenon DEF RpcBegin, Kind, TypeOK, bootVars, watchVars, rpcVars, envVars
  <1>13. CASE RpcFails
    BY <1>13 DEF RpcFails, RpcReturns, TypeOK, bootVars, watchVars, rpcVars, envVars
  <1>14. CASE RpcReady
    BY <1>14, Zenon DEF RpcReady, RpcReturns, TypeOK, bootVars, watchVars, rpcVars, envVars
  <1>15. CASE CliLock
    BY <1>15 DEF CliLock, TypeOK, bootVars, watchVars, rpcVars, envVars
  <1>16. ASSUME NEW f \in Contents, Edit(f) PROVE TypeOK'
    BY <1>16 DEF Edit, TypeOK, bootVars, watchVars, rpcVars, envVars
  <1>17. CASE Quiet
    BY <1>17, Zenon DEF Quiet, vars, TypeOK, bootVars, watchVars, rpcVars, envVars
  <1>18. CASE UNCHANGED vars
    BY <1>18, Zenon DEF vars, TypeOK
  <1> QED BY <1>1, <1>2, <1>3, <1>4, <1>5, <1>6, <1>7, <1>8, <1>9, <1>10, <1>11, <1>12, <1>13, <1>14, <1>15, <1>16, <1>17, <1>18, Zenon DEF Next, BootNext, WatchNext, RpcNext

\* Every step preserves what relates the lock, the RPC and its client.
LEMMA LockStep ==
    ASSUME IInv, [Next]_vars
    PROVE  LockInv'
  <1> USE ConfigAssumption DEF IInv
  <1>1. ASSUME NEW g \in Gens, BootLoad(g) PROVE LockInv'
    BY <1>1, Zenon DEF BootLoad, LockInv, TypeOK, Gens, Cli, bootVars, watchVars, rpcVars, envVars
  <1>2. ASSUME NEW g \in Gens, BootHash(g) PROVE LockInv'
    BY <1>2, Zenon DEF BootHash, LockInv, TypeOK, Gens, Cli, bootVars, watchVars, rpcVars, envVars
  <1>3. ASSUME NEW g \in Gens, BootReady(g) PROVE LockInv'
    BY <1>3, Zenon DEF BootReady, LockInv, TypeOK, Gens, Cli, bootVars, watchVars, rpcVars, envVars
  <1>4. ASSUME NEW g \in Gens, StartWatch(g) \/ StartWatchFails(g) PROVE LockInv'
    BY <1>4, Zenon DEF StartWatch, StartWatchFails, LockInv, TypeOK, Gens, Cli, bootVars, watchVars, rpcVars, envVars
  <1>5. ASSUME NEW g \in Gens, TakeEvent(g) PROVE LockInv'
    BY <1>5, Zenon DEF TakeEvent, LockInv, TypeOK, Gens, Cli, bootVars, watchVars, rpcVars, envVars
  <1>6. ASSUME NEW g \in Gens, LoopCancelled(g) PROVE LockInv'
    BY <1>6, Zenon DEF LoopCancelled, LockInv, TypeOK, Gens, Cli, bootVars, watchVars, rpcVars, envVars
  <1>7. ASSUME NEW g \in Gens, Fire(g) PROVE LockInv'
    BY <1>7 DEF Fire, LockInv, TypeOK, Gens, Cli, bootVars, watchVars, rpcVars, envVars
  <1>8. ASSUME NEW g \in Gens, Parse(g) PROVE LockInv'
    BY <1>8, Zenon DEF Parse, ToLoop, HotApply, LockInv, TypeOK, Gens, Cli, bootVars, watchVars, rpcVars, envVars
  <1>9. ASSUME NEW g \in Gens, Wait(g) PROVE LockInv'
    BY <1>9, Zenon DEF Wait, ToLoop, LockInv, TypeOK, Gens, Cli, bootVars, watchVars, rpcVars, envVars
  <1>10. ASSUME NEW g \in Gens, WatcherLock(g) PROVE LockInv'
    BY <1>10, Zenon DEF WatcherLock, LockInv, TypeOK, Gens, Cli, bootVars, watchVars, rpcVars, envVars
  <1>11. ASSUME NEW g \in Gens, DrainCancels(g) PROVE LockInv'
    BY <1>11, Zenon DEF DrainCancels, LockInv, TypeOK, Gens, Cli, bootVars, watchVars, rpcVars, envVars
  <1>12. ASSUME NEW s \in Gens, NEW c \in Gens, RpcBegin(s, c) PROVE LockInv'
    BY <1>12, Zenon DEF RpcBegin, Kind, LockInv, TypeOK, Gens, Cli, bootVars, watchVars, rpcVars, envVars
  <1>13. CASE RpcFails
    BY <1>13, Zenon DEF RpcFails, RpcReturns, LockInv, TypeOK, Gens, Cli, bootVars, watchVars, rpcVars, envVars
  <1>14. CASE RpcReady
    BY <1>14, Zenon DEF RpcReady, RpcReturns, LockInv, TypeOK, Gens, Cli, bootVars, watchVars, rpcVars, envVars
  <1>15. CASE CliLock
    BY <1>15 DEF CliLock, LockInv, TypeOK, Gens, Cli, bootVars, watchVars, rpcVars, envVars
  <1>16. ASSUME NEW f \in Contents, Edit(f) PROVE LockInv'
    BY <1>16, Zenon DEF Edit, LockInv, TypeOK, Gens, Cli, bootVars, watchVars, rpcVars, envVars
  <1>17. CASE Quiet
    BY <1>17, Zenon DEF Quiet, vars, LockInv, TypeOK, Gens, Cli, bootVars, watchVars, rpcVars, envVars
  <1>18. CASE UNCHANGED vars
    BY <1>18, Zenon DEF vars, LockInv, TypeOK, Gens, Cli
  <1> QED BY <1>1, <1>2, <1>3, <1>4, <1>5, <1>6, <1>7, <1>8, <1>9, <1>10, <1>11, <1>12, <1>13, <1>14, <1>15, <1>16, <1>17, <1>18, Zenon DEF Next, BootNext, WatchNext, RpcNext

\* Every step preserves what relates the boot reads, the watcher and the baseline.
LEMMA BootStep ==
    ASSUME IInv, [Next]_vars
    PROVE  BootInv'
  <1> USE ConfigAssumption DEF IInv, Booted
  <1>1. ASSUME NEW g \in Gens, BootLoad(g) PROVE BootInv'
    BY <1>1 DEF BootLoad, BootInv, TypeOK, LockInv, bootVars, watchVars, rpcVars, envVars
  <1>2. ASSUME NEW g \in Gens, BootHash(g) PROVE BootInv'
    BY <1>2 DEF BootHash, BootInv, TypeOK, LockInv, bootVars, watchVars, rpcVars, envVars
  <1>3. ASSUME NEW g \in Gens, BootReady(g) PROVE BootInv'
    BY <1>3, Zenon DEF BootReady, BootInv, TypeOK, LockInv, bootVars, watchVars, rpcVars, envVars
  <1>4. ASSUME NEW g \in Gens, StartWatch(g) \/ StartWatchFails(g) PROVE BootInv'
    <2>1. CASE StartWatch(g)
      BY <2>1 DEF StartWatch, BootInv, TypeOK, LockInv, bootVars, watchVars, rpcVars, envVars
    <2>2. CASE StartWatchFails(g)
      BY <2>2 DEF StartWatchFails, BootInv, TypeOK, LockInv, bootVars, watchVars, rpcVars, envVars
    <2> QED BY <1>4, <2>1, <2>2, Zenon
  <1>5. ASSUME NEW g \in Gens, TakeEvent(g) PROVE BootInv'
    BY <1>5, Zenon DEF TakeEvent, BootInv, TypeOK, LockInv, bootVars, watchVars, rpcVars, envVars
  <1>6. ASSUME NEW g \in Gens, LoopCancelled(g) PROVE BootInv'
    BY <1>6, Zenon DEF LoopCancelled, BootInv, TypeOK, LockInv, bootVars, watchVars, rpcVars, envVars
  <1>7. ASSUME NEW g \in Gens, Fire(g) PROVE BootInv'
    BY <1>7 DEF Fire, BootInv, TypeOK, LockInv, bootVars, watchVars, rpcVars, envVars
  <1>8. ASSUME NEW g \in Gens, Parse(g) PROVE BootInv'
    BY <1>8 DEF Parse, ToLoop, HotApply, BootInv, TypeOK, LockInv, bootVars, watchVars, rpcVars, envVars
  <1>9. ASSUME NEW g \in Gens, Wait(g) PROVE BootInv'
    BY <1>9 DEF Wait, ToLoop, BootInv, TypeOK, LockInv, bootVars, watchVars, rpcVars, envVars
  <1>10. ASSUME NEW g \in Gens, WatcherLock(g) PROVE BootInv'
    BY <1>10, Zenon DEF WatcherLock, BootInv, TypeOK, LockInv, bootVars, watchVars, rpcVars, envVars
  <1>11. ASSUME NEW g \in Gens, DrainCancels(g) PROVE BootInv'
    BY <1>11, Zenon DEF DrainCancels, BootInv, TypeOK, LockInv, bootVars, watchVars, rpcVars, envVars
  <1>12. ASSUME NEW s \in Gens, NEW c \in Gens, RpcBegin(s, c) PROVE BootInv'
    BY <1>12, Zenon DEF RpcBegin, Kind, BootInv, TypeOK, LockInv, bootVars, watchVars, rpcVars, envVars
  <1>13. CASE RpcFails
    BY <1>13 DEF RpcFails, RpcReturns, BootInv, TypeOK, LockInv, bootVars, watchVars, rpcVars, envVars
  <1>14. CASE RpcReady
    BY <1>14 DEF RpcReady, RpcReturns, BootInv, TypeOK, LockInv, bootVars, watchVars, rpcVars, envVars
  <1>15. CASE CliLock
    BY <1>15, Zenon DEF CliLock, BootInv, TypeOK, LockInv, bootVars, watchVars, rpcVars, envVars
  <1>16. ASSUME NEW f \in Contents, Edit(f) PROVE BootInv'
    BY <1>16, Zenon DEF Edit, BootInv, TypeOK, LockInv, bootVars, watchVars, rpcVars, envVars
  <1>17. CASE Quiet
    BY <1>17, Zenon DEF Quiet, vars, BootInv, TypeOK, LockInv, bootVars, watchVars, rpcVars, envVars
  <1>18. CASE UNCHANGED vars
    BY <1>18, Zenon DEF vars, BootInv, TypeOK, LockInv
  <1> QED BY <1>1, <1>2, <1>3, <1>4, <1>5, <1>6, <1>7, <1>8, <1>9, <1>10, <1>11, <1>12, <1>13, <1>14, <1>15, <1>16, <1>17, <1>18, Zenon DEF Next, BootNext, WatchNext, RpcNext

\* Every step changes at most hot fields of what a booted generation runs.
LEMMA HotStep ==
    ASSUME IInv, [Next]_vars
    PROVE  OnlyHotChanges'
  <1> USE ConfigAssumption DEF IInv
  <1>1. ASSUME NEW g \in Gens, BootLoad(g) PROVE OnlyHotChanges'
    BY <1>1 DEF BootLoad, OnlyHotChanges, TypeOK, Fields, bootVars, watchVars, rpcVars, envVars
  <1>2. ASSUME NEW g \in Gens, BootHash(g) PROVE OnlyHotChanges'
    BY <1>2 DEF BootHash, OnlyHotChanges, TypeOK, Fields, bootVars, watchVars, rpcVars, envVars
  <1>3. ASSUME NEW g \in Gens, BootReady(g) PROVE OnlyHotChanges'
    BY <1>3 DEF BootReady, OnlyHotChanges, TypeOK, Fields, bootVars, watchVars, rpcVars, envVars
  <1>4. ASSUME NEW g \in Gens, StartWatch(g) \/ StartWatchFails(g) PROVE OnlyHotChanges'
    BY <1>4 DEF StartWatch, StartWatchFails, OnlyHotChanges, TypeOK, Fields, bootVars, watchVars, rpcVars, envVars
  <1>5. ASSUME NEW g \in Gens, TakeEvent(g) PROVE OnlyHotChanges'
    BY <1>5 DEF TakeEvent, OnlyHotChanges, TypeOK, Fields, bootVars, watchVars, rpcVars, envVars
  <1>6. ASSUME NEW g \in Gens, LoopCancelled(g) PROVE OnlyHotChanges'
    BY <1>6 DEF LoopCancelled, OnlyHotChanges, TypeOK, Fields, bootVars, watchVars, rpcVars, envVars
  <1>7. ASSUME NEW g \in Gens, Fire(g) PROVE OnlyHotChanges'
    BY <1>7 DEF Fire, OnlyHotChanges, TypeOK, Fields, bootVars, watchVars, rpcVars, envVars
  <1>8. ASSUME NEW g \in Gens, Parse(g) PROVE OnlyHotChanges'
    BY <1>8, HotIsHot DEF Parse, ToLoop, HotApply, OnlyHotChanges, TypeOK, Fields, bootVars, watchVars, rpcVars, envVars
  <1>9. ASSUME NEW g \in Gens, Wait(g) PROVE OnlyHotChanges'
    BY <1>9 DEF Wait, ToLoop, OnlyHotChanges, TypeOK, Fields, bootVars, watchVars, rpcVars, envVars
  <1>10. ASSUME NEW g \in Gens, WatcherLock(g) PROVE OnlyHotChanges'
    BY <1>10 DEF WatcherLock, OnlyHotChanges, TypeOK, Fields, bootVars, watchVars, rpcVars, envVars
  <1>11. ASSUME NEW g \in Gens, DrainCancels(g) PROVE OnlyHotChanges'
    BY <1>11 DEF DrainCancels, OnlyHotChanges, TypeOK, Fields, bootVars, watchVars, rpcVars, envVars
  <1>12. ASSUME NEW s \in Gens, NEW c \in Gens, RpcBegin(s, c) PROVE OnlyHotChanges'
    BY <1>12 DEF RpcBegin, Kind, OnlyHotChanges, TypeOK, Fields, bootVars, watchVars, rpcVars, envVars
  <1>13. CASE RpcFails
    BY <1>13, Zenon DEF RpcFails, RpcReturns, OnlyHotChanges, TypeOK, Fields, bootVars, watchVars, rpcVars, envVars
  <1>14. CASE RpcReady
    BY <1>14 DEF RpcReady, RpcReturns, OnlyHotChanges, TypeOK, Fields, bootVars, watchVars, rpcVars, envVars
  <1>15. CASE CliLock
    BY <1>15, Zenon DEF CliLock, OnlyHotChanges, TypeOK, Fields, bootVars, watchVars, rpcVars, envVars
  <1>16. ASSUME NEW f \in Contents, Edit(f) PROVE OnlyHotChanges'
    BY <1>16, Zenon DEF Edit, OnlyHotChanges, TypeOK, Fields, bootVars, watchVars, rpcVars, envVars
  <1>17. CASE Quiet
    BY <1>17, Zenon DEF Quiet, vars, OnlyHotChanges, TypeOK, Fields, bootVars, watchVars, rpcVars, envVars
  <1>18. CASE UNCHANGED vars
    BY <1>18, Zenon DEF vars, OnlyHotChanges, TypeOK, Fields
  <1> QED BY <1>1, <1>2, <1>3, <1>4, <1>5, <1>6, <1>7, <1>8, <1>9, <1>10, <1>11, <1>12, <1>13, <1>14, <1>15, <1>16, <1>17, <1>18, Zenon DEF Next, BootNext, WatchNext, RpcNext

\* Every step leaves each edit noticed, waiting or recorded.
LEMMA EditStep ==
    ASSUME IInv, EditInv, [Next]_vars
    PROVE  EditInv'
  <1> USE ConfigAssumption DEF IInv, Booted
  <1>1. ASSUME NEW g \in Gens, BootLoad(g) PROVE EditInv'
    BY <1>1 DEF BootLoad, EditInv, BootInv, TypeOK, LockInv, bootVars, watchVars, rpcVars, envVars
  <1>2. ASSUME NEW g \in Gens, BootHash(g) PROVE EditInv'
    BY <1>2 DEF BootHash, EditInv, BootInv, TypeOK, LockInv, bootVars, watchVars, rpcVars, envVars
  <1>3. ASSUME NEW g \in Gens, BootReady(g) PROVE EditInv'
    BY <1>3, Zenon DEF BootReady, EditInv, BootInv, TypeOK, LockInv, bootVars, watchVars, rpcVars, envVars
  <1>4. ASSUME NEW g \in Gens, StartWatch(g) \/ StartWatchFails(g) PROVE EditInv'
    <2>1. CASE StartWatch(g)
      BY <2>1 DEF StartWatch, EditInv, BootInv, TypeOK, LockInv, bootVars, watchVars, rpcVars, envVars
    <2>2. CASE StartWatchFails(g)
      BY <2>2 DEF StartWatchFails, EditInv, BootInv, TypeOK, LockInv, bootVars, watchVars, rpcVars, envVars
    <2> QED BY <1>4, <2>1, <2>2, Zenon
  <1>5. ASSUME NEW g \in Gens, TakeEvent(g) PROVE EditInv'
    BY <1>5 DEF TakeEvent, EditInv, BootInv, TypeOK, LockInv, bootVars, watchVars, rpcVars, envVars
  <1>6. ASSUME NEW g \in Gens, LoopCancelled(g) PROVE EditInv'
    BY <1>6, Zenon DEF LoopCancelled, EditInv, BootInv, TypeOK, LockInv, bootVars, watchVars, rpcVars, envVars
  <1>7. ASSUME NEW g \in Gens, Fire(g) PROVE EditInv'
    BY <1>7 DEF Fire, EditInv, BootInv, TypeOK, LockInv, bootVars, watchVars, rpcVars, envVars
  <1>8. ASSUME NEW g \in Gens, Parse(g) PROVE EditInv'
    BY <1>8 DEF Parse, ToLoop, HotApply, EditInv, BootInv, TypeOK, LockInv, bootVars, watchVars, rpcVars, envVars
  <1>9. ASSUME NEW g \in Gens, Wait(g) PROVE EditInv'
    BY <1>9 DEF Wait, ToLoop, EditInv, BootInv, TypeOK, LockInv, bootVars, watchVars, rpcVars, envVars
  <1>10. ASSUME NEW g \in Gens, WatcherLock(g) PROVE EditInv'
    BY <1>10, Zenon DEF WatcherLock, EditInv, BootInv, TypeOK, LockInv, bootVars, watchVars, rpcVars, envVars
  <1>11. ASSUME NEW g \in Gens, DrainCancels(g) PROVE EditInv'
    BY <1>11, Zenon DEF DrainCancels, EditInv, BootInv, TypeOK, LockInv, bootVars, watchVars, rpcVars, envVars
  <1>12. ASSUME NEW s \in Gens, NEW c \in Gens, RpcBegin(s, c) PROVE EditInv'
    BY <1>12, Zenon DEF RpcBegin, Kind, EditInv, BootInv, TypeOK, LockInv, bootVars, watchVars, rpcVars, envVars
  <1>13. CASE RpcFails
    BY <1>13 DEF RpcFails, RpcReturns, EditInv, BootInv, TypeOK, LockInv, bootVars, watchVars, rpcVars, envVars
  <1>14. CASE RpcReady
    BY <1>14, Zenon DEF RpcReady, RpcReturns, EditInv, BootInv, TypeOK, LockInv, bootVars, watchVars, rpcVars, envVars
  <1>15. CASE CliLock
    BY <1>15, Zenon DEF CliLock, EditInv, BootInv, TypeOK, LockInv, bootVars, watchVars, rpcVars, envVars
  <1>16. ASSUME NEW f \in Contents, Edit(f) PROVE EditInv'
    BY <1>16, Zenon DEF Edit, EditInv, BootInv, TypeOK, LockInv, bootVars, watchVars, rpcVars, envVars
  <1>17. CASE Quiet
    BY <1>17, Zenon DEF Quiet, vars, EditInv, BootInv, TypeOK, LockInv, bootVars, watchVars, rpcVars, envVars
  <1>18. CASE UNCHANGED vars
    BY <1>18, Zenon DEF vars, EditInv, BootInv, TypeOK, LockInv
  <1> QED BY <1>1, <1>2, <1>3, <1>4, <1>5, <1>6, <1>7, <1>8, <1>9, <1>10, <1>11, <1>12, <1>13, <1>14, <1>15, <1>16, <1>17, <1>18, Zenon DEF Next, BootNext, WatchNext, RpcNext

-----------------------------------------------------------------------------

\* The inductive invariant holds of every behaviour of the watchers, the boots
\* and the reloads, for any contents and any number of generations and edits.
THEOREM Invariance == Spec => []IInv
  <1>1. Init => IInv
    <2> SUFFICES ASSUME Init PROVE IInv
      BY Zenon
    <2> USE ConfigAssumption DEF Init
    <2>1. TypeOK
      BY DEF TypeOK, Routes
    <2>2. BootInv /\ LockInv /\ OnlyHotChanges
      BY Zenon DEF BootInv, Booted, LockInv, OnlyHotChanges
    <2> QED BY <2>1, <2>2, Zenon DEF IInv
  <1>2. IInv /\ [Next]_vars => IInv'
    BY TypeStep, LockStep, BootStep, HotStep, Zenon DEF IInv
  <1> QED BY <1>1, <1>2, PTL DEF Spec

\* Types are preserved.
THEOREM TypeCorrect == Spec => []TypeOK
  BY Invariance, PTL DEF IInv

\* handleChange never swaps in a config with other listeners, surfaces or cold
\* fields than the generation was started with.
THEOREM AppliesOnlyHot == Spec => []OnlyHotChanges
  BY Invariance, PTL DEF IInv

\* baselineHash is the hash of what the generation runs unless an edit fell
\* between the two reads.
THEOREM BaselinesAgree == Spec => []BaselineAgrees
  <1>1. IInv => BaselineAgrees
    BY Zenon DEF IInv, BootInv, Booted, BaselineAgrees
  <1> QED BY Invariance, <1>1, PTL

\* No edit is lost: a watcher at rest compares with the file as it is, or has
\* logged why it gave up, or the edit came before it watched.
THEOREM EditsAreNoticed == Spec => []NoLostEdit
  <1>1. Init => EditInv
    BY Zenon DEF Init, EditInv
  <1>2. EditInv => NoLostEdit
    BY Zenon DEF EditInv, NoLostEdit
  <1> QED BY Invariance, EditStep, <1>1, <1>2, PTL DEF Spec
============================================================================
