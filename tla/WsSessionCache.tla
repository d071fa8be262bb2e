--------------------------- MODULE WsSessionCache ---------------------------
(***************************************************************************)
(* The cache of Codex websocket sessions                                   *)
(* (internal/adapter/codex/ws_session.go), the turns that use it           *)
(* (transport_ws.go: runWebsocketWithCache, acquireCachedSession,          *)
(* openSessionAndWarmup) and the entries it keeps in a livetrack registry  *)
(* so that a drain can force-close the connections (livetrack_meta_ws.go). *)
(*                                                                         *)
(* An attempt runs one turn of a conversation: it takes the cached session *)
(* or dials one, exchanges a frame on it and puts it back.  Attempts of one*)
(* conversation may overlap; each step below is one critical section of    *)
(* the cache's mutex or one use of a session outside it.  A session bears  *)
(* the name of the attempt that dialled it.                                *)
(***************************************************************************)
EXTENDS Naturals

CONSTANTS
    Attempts,       \* turns, and the sessions they dial
    Convs,          \* conversation ids
    ConvOf,         \* the conversation of each attempt
    None

ASSUME WsAssumption ==
    /\ ConvOf \in [Attempts -> Convs]
    /\ None \notin Attempts

VARIABLES
    entries,    \* WebsocketSessionCache.entries
    live,       \* WebsocketSessionCache.liveSessions
    open,       \* sessions whose connection has not been closed by this daemon
    closed,     \* sessions with Closed set
    tracked,    \* sessions the livetrack registry would force-close
    closing,    \* sessions whose closer has closed the connection but not set Closed
    draining,   \* the registry rejects registrations
    pc, sess,   \* where each attempt is, and the session it works with
    old,        \* existing: what Put found cached and goes on to close
    overlapped, \* history: conversations two of whose attempts ran at once
    failed,     \* history: sessions whose exchange failed
    overwritten \* history: sessions that Put replaced in the cache without closing them

cacheVars == <<entries, live>>
connVars == <<open, closed>>
regVars == <<tracked, closing, draining>>
attemptVars == <<pc, sess, old>>
history == <<overlapped, failed, overwritten>>
vars == <<cacheVars, connVars, regVars, attemptVars, history>>

Steps == {"start", "checks", "releaseDial", "dial", "exchange", "failed", "put", "insert",
          "displace", "releaseCache", "cache", "register", "publish", "releaseDone", "done"}
Sessions == Attempts \cup {None}
\* Steps at which an attempt has a session to itself.
Holding == {"checks", "exchange", "failed", "put", "insert", "displace", "releaseCache", "cache"}

TypeOK ==
    /\ entries \in [Convs -> Sessions] /\ live \in [Convs -> Sessions]
    /\ open \subseteq Attempts /\ closed \subseteq Attempts
    /\ tracked \subseteq Attempts /\ closing \subseteq Attempts /\ draining \in BOOLEAN
    /\ pc \in [Attempts -> Steps] /\ sess \in [Attempts -> Sessions] /\ old \in [Attempts -> Sessions]
    /\ overlapped \subseteq Convs /\ failed \subseteq Attempts
    /\ overwritten \subseteq Attempts

Init ==
    /\ entries = [c \in Convs |-> None] /\ live = [c \in Convs |-> None]
    /\ open = {} /\ closed = {} /\ tracked = {} /\ closing = {} /\ draining = FALSE
    /\ pc = [a \in Attempts |-> "start"]
    /\ sess = [a \in Attempts |-> None] /\ old = [a \in Attempts |-> None]
    /\ overlapped = {} /\ failed = {} /\ overwritten = {}

-----------------------------------------------------------------------------
Holds(a, s) == pc[a] \in Holding /\ sess[a] = s
Busy(a) == pc[a] \notin {"start", "done"}
Rivals(a) == {b \in Attempts \ {a} : ConvOf[b] = ConvOf[a] /\ Busy(b)}

At(a, step) == pc[a] = step
Goto(a, step) == pc' = [pc EXCEPT ![a] = step]

\* invalidateEntry
Close(s) == open' = open \ {s} /\ closed' = closed \cup {s}

\* releaseRegistryEntry: whatever is registered for the conversation, under whichever session.
Release(c) ==
    /\ live' = [live EXCEPT ![c] = None]
    /\ tracked' = tracked \ {live[c]}

Take_Keep(a) ==
    LET c == ConvOf[a] IN
    /\ At(a, "start")
    /\ IF entries[c] = None
       THEN Goto(a, "dial") /\ UNCHANGED sess
       ELSE Goto(a, "checks") /\ sess' = [sess EXCEPT ![a] = entries[c]]
    /\ overlapped' = IF Rivals(a) = {} THEN overlapped ELSE overlapped \cup {c}
    /\ UNCHANGED <<entries, live, connVars, regVars, old, failed, overwritten>>

Take(a) ==
    LET c == ConvOf[a] IN
    /\ At(a, "start")
    /\ IF entries[c] = None
       THEN Goto(a, "dial") /\ UNCHANGED <<entries, sess>>
       ELSE /\ Goto(a, "checks")
            /\ sess' = [sess EXCEPT ![a] = entries[c]]
            /\ entries' = [entries EXCEPT ![c] = None]
    /\ overlapped' = IF Rivals(a) = {} THEN overlapped ELSE overlapped \cup {c}
    /\ UNCHANGED <<live, connVars, regVars, old, failed, overwritten>>

\* Take finds the session closed by a drain.
TakeClosed(a) ==
    /\ At(a, "checks") /\ sess[a] \in closed
    /\ Goto(a, "releaseDial")
    /\ UNCHANGED <<cacheVars, connVars, regVars, sess, old, history>>

\* Take finds it idle for longer than idleTTL.
TakeIdle(a) ==
    /\ At(a, "checks") /\ sess[a] \notin closed
    /\ Close(sess[a])
    /\ Goto(a, "releaseDial")
    /\ UNCHANGED <<cacheVars, regVars, sess, old, history>>

\* The session has another model or prompt cache key, or the input does not extend
\* what was sent on it: it is closed, its registration stays.
Mismatch(a) ==
    /\ At(a, "checks") /\ sess[a] \notin closed
    /\ Close(sess[a])
    /\ Goto(a, "dial")
    /\ UNCHANGED <<cacheVars, regVars, sess, old, history>>

Hit(a) ==
    /\ At(a, "checks") /\ sess[a] \notin closed
    /\ Goto(a, "exchange")
    /\ UNCHANGED <<cacheVars, connVars, regVars, sess, old, history>>

\* A failed dial or warm-up leaves the attempt to runWebsocketFreshDial, which uses no
\* cache and closes its own connection.
Dial(a) ==
    /\ At(a, "dial")
    /\ \/ Goto(a, "exchange") /\ sess' = [sess EXCEPT ![a] = a] /\ open' = open \cup {a}
       \/ Goto(a, "done") /\ UNCHANGED <<sess, open>>
    /\ UNCHANGED <<cacheVars, closed, regVars, old, history>>

\* The exchange of a frame fails, or completes without a response id, at any time; it
\* completes with one only on an open connection.
Exchange(a) ==
    /\ At(a, "exchange")
    /\ \/ sess[a] \in open /\ Goto(a, "put")
       \/ Goto(a, "failed")
    /\ UNCHANGED <<cacheVars, connVars, regVars, sess, old, history>>

Invalidate_Registered(a) ==
    LET c == ConvOf[a] IN
    /\ At(a, "failed")
    /\ IF live[c] = None
       THEN Goto(a, "done") /\ UNCHANGED <<entries, connVars>>
       ELSE /\ Goto(a, "releaseDone")
            /\ entries' = [entries EXCEPT ![c] = None]
            /\ Close(live[c])
    /\ failed' = failed \cup {sess[a]}
    /\ UNCHANGED <<live, regVars, sess, old, overlapped, overwritten>>

\* Invalidate(conv): closes what is cached for the conversation, which is never the
\* session that the attempt has taken.
Invalidate(a) ==
    LET c == ConvOf[a] IN
    /\ At(a, "failed")
    /\ IF entries[c] = None
       THEN Goto(a, "done") /\ UNCHANGED <<entries, connVars>>
       ELSE /\ Goto(a, "releaseDone")
            /\ entries' = [entries EXCEPT ![c] = None]
            /\ Close(entries[c])
    /\ failed' = failed \cup {sess[a]}
    /\ UNCHANGED <<live, regVars, sess, old, overlapped, overwritten>>

ReleaseEntry(a) ==
    /\ \/ At(a, "releaseDial") /\ Goto(a, "dial")
       \/ At(a, "releaseCache") /\ Goto(a, "cache")
       \/ At(a, "releaseDone") /\ Goto(a, "done")
    /\ Release(ConvOf[a])
    /\ UNCHANGED <<entries, connVars, closing, draining, sess, old, history>>

-----------------------------------------------------------------------------
\* Put, as far as its first lock.
PutChecks(a) ==
    /\ At(a, "put")
    /\ IF sess[a] \in closed
       THEN Goto(a, "done") /\ Close(sess[a])
       ELSE Goto(a, "insert") /\ UNCHANGED connVars
    /\ UNCHANGED <<cacheVars, regVars, sess, old, history>>

\* The end of Put's critical section: s replaces whatever is cached by now.
CacheSession_Inverted(a) ==
    LET c == ConvOf[a] IN
    /\ entries' = [entries EXCEPT ![c] = sess[a]]
    /\ Goto(a, IF live[c] # None THEN "register" ELSE "done")
    /\ overwritten' = overwritten \cup ({entries[c]} \ {None, old[a]})

CacheSession(a) ==
    LET c == ConvOf[a] IN
    /\ entries' = [entries EXCEPT ![c] = sess[a]]
    /\ Goto(a, IF live[c] = None THEN "register" ELSE "done")
    /\ overwritten' = overwritten \cup ({entries[c]} \ {None, old[a]})

\* Another session is cached: Put unlocks to close it and leaves it in the map meanwhile.
Insert(a) ==
    LET c == ConvOf[a] IN
    /\ At(a, "insert")
    /\ IF entries[c] \in {None, sess[a]}
       THEN CacheSession(a) /\ UNCHANGED old
       ELSE /\ Goto(a, "displace")
            /\ old' = [old EXCEPT ![a] = entries[c]]
            /\ UNCHANGED <<entries, overwritten>>
    /\ UNCHANGED <<live, connVars, regVars, sess, overlapped, failed>>

Displace_Forget(a) ==
    /\ At(a, "displace")
    /\ Goto(a, "releaseCache")
    /\ UNCHANGED <<cacheVars, connVars, regVars, sess, old, history>>

Displace_Session(a) ==
    /\ At(a, "displace")
    /\ Close(live[ConvOf[a]])
    /\ Goto(a, "releaseCache")
    /\ UNCHANGED <<cacheVars, regVars, sess, old, history>>

Displace(a) ==
    /\ At(a, "displace")
    /\ Close(old[a])
    /\ Goto(a, "releaseCache")
    /\ UNCHANGED <<cacheVars, regVars, sess, old, history>>

InsertAgain(a) ==
    /\ At(a, "cache")
    /\ CacheSession(a)
    /\ UNCHANGED <<live, connVars, regVars, sess, old, overlapped, failed>>

\* registerEntry: the registry rejects it while it drains.
Register(a) ==
    /\ At(a, "register")
    /\ IF draining
       THEN Goto(a, "done") /\ UNCHANGED tracked
       ELSE Goto(a, "publish") /\ tracked' = tracked \cup {sess[a]}
    /\ UNCHANGED <<cacheVars, connVars, closing, draining, sess, old, history>>

Publish(a) ==
    /\ At(a, "publish")
    /\ live' = [live EXCEPT ![ConvOf[a]] = sess[a]]
    /\ Goto(a, "done")
    /\ UNCHANGED <<entries, connVars, regVars, sess, old, history>>

-----------------------------------------------------------------------------
\* The reload or the shutdown starts to drain the registry.
Drain ==
    /\ ~draining /\ draining' = TRUE
    /\ UNCHANGED <<cacheVars, connVars, tracked, closing, attemptVars, history>>

\* Its idle fast path or its deadline removes a session and runs wsConnCloser, which
\* sets Closed only if the connection was not closed already.
ForceClose(s) ==
    /\ draining /\ s \in tracked
    /\ tracked' = tracked \ {s}
    /\ IF s \in open
       THEN open' = open \ {s} /\ closing' = closing \cup {s}
       ELSE UNCHANGED <<open, closing>>
    /\ UNCHANGED <<cacheVars, closed, draining, attemptVars, history>>

CloserMarks(s) ==
    /\ s \in closing
    /\ closing' = closing \ {s} /\ closed' = closed \cup {s}
    /\ UNCHANGED <<cacheVars, open, tracked, draining, attemptVars, history>>

Turn(a) ==
    \/ Take(a) \/ TakeClosed(a) \/ TakeIdle(a) \/ Mismatch(a) \/ Hit(a)
    \/ Dial(a) \/ Exchange(a) \/ Invalidate(a) \/ ReleaseEntry(a)
    \/ PutChecks(a) \/ Insert(a) \/ Displace(a) \/ InsertAgain(a) \/ Register(a) \/ Publish(a)

Next ==
    \/ \E a \in Attempts : Turn(a)
    \/ Drain
    \/ \E s \in Attempts : ForceClose(s) \/ CloserMarks(s)

Spec == Init /\ [][Next]_vars

-----------------------------------------------------------------------------
\* Two attempts never work on one session, and a session that an attempt works on is
\* not in the cache: "concurrent callers do not share a single websocket frame stream".
Exclusive ==
    \A a \in Attempts : pc[a] \in Holding =>
        /\ \A c \in Convs : entries[c] # sess[a]
        /\ \A b \in Attempts \ {a} : ~Holds(b, sess[a])

\* A connection stays open, with nobody working on it and not in the cache, in two ways
\* only: its exchange failed, and Invalidate looked for it in the cache, from which it had
\* been taken (FailedIsClosed says it should not); or another attempt cached it while Put
\* had unlocked to close a third session, and Put then wrote over it.
Accounted ==
    \A s \in open :
        \/ \E a \in Attempts : Holds(a, s)
        \/ entries[ConvOf[s]] = s
        \/ s \in failed \cup overwritten

\* The comment on runWebsocketWithCache, "On any error the session is invalidated", and
\* the one where the server sends no response id, "Drop the connection rather than
\* re-cache": the connection of an exchange that failed does not stay open.
FailedIsClosed == failed \cap open = {}

\* The connection of a session that an attempt uses for its exchange is closed by another
\* attempt only where that one had found the session cached before it was taken, and
\* closes it from Put after it gave up the lock.
TakenIsOwn ==
    [][\A a, b \in Attempts :
          a # b /\ Turn(b) /\ pc[a] = "exchange" /\ sess[a] \in open \ open' =>
              pc[b] = "displace" /\ old[b] = sess[a]]_vars

\* As long as the turns of a conversation follow one another, a session that is cached
\* when none runs can be force-closed by a drain, unless liveSessions still holds the
\* registration of an earlier session of the conversation.
TrackedUnlessStale ==
    \A c \in Convs :
        LET s == entries[c] IN
        /\ ~draining /\ c \notin overlapped /\ s # None
        /\ \A a \in Attempts : ConvOf[a] = c => ~Busy(a)
        => s \in tracked \/ live[c] \notin {None, s}

\* The comment on NewWsSessionRegistry: the deadline of a reload force-closes any
\* session that the cache still holds, so what is cached when no turn runs is tracked.
CachedIsTracked ==
    \A c \in Convs :
        LET s == entries[c] IN
        /\ ~draining /\ c \notin overlapped /\ s # None
        /\ \A a \in Attempts : ConvOf[a] = c => ~Busy(a)
        => s \in tracked
=============================================================================
