------------------------ MODULE WsSessionCacheProofs ------------------------
(***************************************************************************)
(* For any attempts and conversations: no two attempts share a session,    *)
(* every connection left open is accounted for, a connection in use is     *)
(* closed by another attempt only from within Put, and a cached one can be *)
(* drained unless an older registration is remembered.                     *)
(***************************************************************************)
EXTENDS WsSessionCache, TLAPS

\* What is held and what is cached belongs to the conversation it is held or cached for.
Belongs ==
    /\ \A a \in Attempts : pc[a] \in Holding \cup {"register", "publish"} =>
            sess[a] \in Attempts /\ ConvOf[sess[a]] = ConvOf[a]
    /\ \A a \in Attempts : pc[a] = "displace" => old[a] \in Attempts
    /\ \A c \in Convs : entries[c] # None => ConvOf[entries[c]] = c

\* A session that has not been dialled is nowhere.
Unborn ==
    \A s \in Attempts : pc[s] \in {"start", "checks", "releaseDial", "dial"} =>
        /\ s \notin open \cup closed \cup closing
        /\ \A c \in Convs : entries[c] # s
        /\ \A a \in Attempts : ~Holds(a, s) /\ old[a] # s

\* Once Put has closed the session it displaces, that session stays closed.
Displaced ==
    \A a \in Attempts : pc[a] \in {"releaseCache", "cache"} => old[a] \notin open

\* A connection whose session is marked closed, or about to be, is closed.
Shut == \A s \in closed \cup closing : s \notin open

IInv == TypeOK /\ Belongs /\ Exclusive /\ Unborn /\ Displaced /\ Shut /\ Accounted

\* A conversation whose turns follow one another: the cache is empty while its turn
\* works, the turn then caches and registers its session, and a session published in
\* liveSessions is tracked.
Tracks(c) ==
    /\ \A a, b \in Attempts : ConvOf[a] = c /\ ConvOf[b] = c /\ Busy(a) /\ Busy(b) => a = b
    /\ \A a \in Attempts : ConvOf[a] = c /\ Busy(a) =>
          entries[c] = IF pc[a] \in {"register", "publish"} THEN sess[a] ELSE None
    /\ ~draining =>
          /\ live[c] # None => live[c] \in tracked
          /\ \A a \in Attempts : ConvOf[a] = c /\ pc[a] = "publish" => sess[a] \in tracked
          /\ entries[c] # None /\ (\A a \in Attempts : ConvOf[a] = c => ~Busy(a)) =>
                entries[c] \in tracked \/ live[c] \notin {None, entries[c]}

\* Registrations stay with their conversations.
TrackInv ==
    /\ \A c \in Convs : live[c] # None => ConvOf[live[c]] = c
    /\ \A c \in Convs \ overlapped : Tracks(c)

\* Every step keeps the types.
LEMMA TypeStep ==
    ASSUME TypeOK, Belongs, [Next]_vars
    PROVE  TypeOK'
<1> USE WsAssumption DEF At, Goto, Close, cacheVars, connVars, regVars, attemptVars,
   history, TypeOK, Sessions, Steps, Belongs, Holding
<1>1. ASSUME NEW a \in Attempts, Take(a) PROVE TypeOK'
  BY <1>1 DEF Take
<1>2. ASSUME NEW a \in Attempts, TakeClosed(a) PROVE TypeOK'
  BY <1>2, Zenon DEF TakeClosed
<1>3. ASSUME NEW a \in Attempts, TakeIdle(a) PROVE TypeOK'
  BY <1>3, Zenon DEF TakeIdle
<1>4. ASSUME NEW a \in Attempts, Mismatch(a) PROVE TypeOK'
  BY <1>4, Zenon DEF Mismatch
<1>5. ASSUME NEW a \in Attempts, Hit(a) PROVE TypeOK'
  BY <1>5, Zenon DEF Hit
<1>6. ASSUME NEW a \in Attempts, Dial(a) PROVE TypeOK'
  BY <1>6 DEF Dial
<1>7. ASSUME NEW a \in Attempts, Exchange(a) PROVE TypeOK'
  BY <1>7, Zenon DEF Exchange
<1>8. ASSUME NEW a \in Attempts, Invalidate(a) PROVE TypeOK'
  BY <1>8 DEF Invalidate
<1>9. ASSUME NEW a \in Attempts, ReleaseEntry(a) PROVE TypeOK'
  BY <1>9, Zenon DEF ReleaseEntry, Release
<1>10. ASSUME NEW a \in Attempts, PutChecks(a) PROVE TypeOK'
  BY <1>10 DEF PutChecks
<1>11. ASSUME NEW a \in Attempts, Insert(a) PROVE TypeOK'
  BY <1>11 DEF Insert, CacheSession
<1>12. ASSUME NEW a \in Attempts, Displace(a) PROVE TypeOK'
  BY <1>12 DEF Displace
<1>13. ASSUME NEW a \in Attempts, InsertAgain(a) PROVE TypeOK'
  BY <1>13 DEF InsertAgain, CacheSession
<1>14. ASSUME NEW a \in Attempts, Register(a) PROVE TypeOK'
  BY <1>14 DEF Register
<1>15. ASSUME NEW a \in Attempts, Publish(a) PROVE TypeOK'
  BY <1>15, Zenon DEF Publish
<1>16. ASSUME Drain PROVE TypeOK'
  BY <1>16, Zenon DEF Drain
<1>17. ASSUME NEW s \in Attempts, ForceClose(s) PROVE TypeOK'
  BY <1>17 DEF ForceClose
<1>18. ASSUME NEW s \in Attempts, CloserMarks(s) PROVE TypeOK'
  BY <1>18, Zenon DEF CloserMarks
<1>19. ASSUME UNCHANGED vars PROVE TypeOK'
  BY <1>19, Zenon DEF vars
<1>20. QED
  BY <1>1, <1>2, <1>3, <1>4, <1>5, <1>6, <1>7, <1>8, <1>9, <1>10, <1>11, <1>12, <1>13,
     <1>14, <1>15, <1>16, <1>17, <1>18, <1>19, Zenon DEF Next, Turn

\* Sessions stay with their conversations.
LEMMA BelongsStep ==
    ASSUME TypeOK, Belongs, [Next]_vars
    PROVE  Belongs'
<1> USE WsAssumption DEF At, Goto, Close, cacheVars, connVars, regVars, attemptVars,
   history, TypeOK, Sessions, Holding, Belongs
<1>1. ASSUME NEW a \in Attempts, Take(a) PROVE Belongs'
  BY <1>1 DEF Take
<1>2. ASSUME NEW a \in Attempts, TakeClosed(a) PROVE Belongs'
  BY <1>2, Zenon DEF TakeClosed
<1>3. ASSUME NEW a \in Attempts, TakeIdle(a) PROVE Belongs'
  BY <1>3, Zenon DEF TakeIdle
<1>4. ASSUME NEW a \in Attempts, Mismatch(a) PROVE Belongs'
  BY <1>4, Zenon DEF Mismatch
<1>5. ASSUME NEW a \in Attempts, Hit(a) PROVE Belongs'
  BY <1>5, Zenon DEF Hit
<1>6. ASSUME NEW a \in Attempts, Dial(a) PROVE Belongs'
  BY <1>6 DEF Dial
<1>7. ASSUME NEW a \in Attempts, Exchange(a) PROVE Belongs'
  BY <1>7 DEF Exchange
<1>8. ASSUME NEW a \in Attempts, Invalidate(a) PROVE Belongs'
  BY <1>8 DEF Invalidate
<1>9. ASSUME NEW a \in Attempts, ReleaseEntry(a) PROVE Belongs'
  BY <1>9 DEF ReleaseEntry, Release
<1>10. ASSUME NEW a \in Attempts, PutChecks(a) PROVE Belongs'
  BY <1>10 DEF PutChecks
<1>11. ASSUME NEW a \in Attempts, Insert(a) PROVE Belongs'
  BY <1>11 DEF Insert, CacheSession
<1>12. ASSUME NEW a \in Attempts, Displace(a) PROVE Belongs'
  BY <1>12, Zenon DEF Displace
<1>13. ASSUME NEW a \in Attempts, InsertAgain(a) PROVE Belongs'
  BY <1>13, Zenon DEF InsertAgain, CacheSession
<1>14. ASSUME NEW a \in Attempts, Register(a) PROVE Belongs'
  BY <1>14 DEF Register
<1>15. ASSUME NEW a \in Attempts, Publish(a) PROVE Belongs'
  BY <1>15, Zenon DEF Publish
<1>16. ASSUME Drain PROVE Belongs'
  BY <1>16, Zenon DEF Drain
<1>17. ASSUME NEW s \in Attempts, ForceClose(s) PROVE Belongs'
  BY <1>17, Zenon DEF ForceClose
<1>18. ASSUME NEW s \in Attempts, CloserMarks(s) PROVE Belongs'
  BY <1>18, Zenon DEF CloserMarks
<1>19. ASSUME UNCHANGED vars PROVE Belongs'
  BY <1>19, Zenon DEF vars
<1>20. QED
  BY <1>1, <1>2, <1>3, <1>4, <1>5, <1>6, <1>7, <1>8, <1>9, <1>10, <1>11, <1>12, <1>13,
     <1>14, <1>15, <1>16, <1>17, <1>18, <1>19, Zenon DEF Next, Turn

\* Only Dial gives a session a connection.
LEMMA UnbornStep ==
    ASSUME TypeOK, Belongs, Unborn, [Next]_vars
    PROVE  Unborn'
<1> USE WsAssumption DEF At, Goto, Close, cacheVars, connVars, regVars, attemptVars,
   history, TypeOK, Sessions, Holding, Holds, Belongs, Unborn
<1>1. ASSUME NEW a \in Attempts, Take(a) PROVE Unborn'
  BY <1>1 DEF Take
<1>2. ASSUME NEW a \in Attempts, TakeClosed(a) PROVE Unborn'
  BY <1>2 DEF TakeClosed
<1>3. ASSUME NEW a \in Attempts, TakeIdle(a) PROVE Unborn'
  BY <1>3 DEF TakeIdle
<1>4. ASSUME NEW a \in Attempts, Mismatch(a) PROVE Unborn'
  BY <1>4 DEF Mismatch
<1>5. ASSUME NEW a \in Attempts, Hit(a) PROVE Unborn'
  BY <1>5 DEF Hit
<1>6. ASSUME NEW a \in Attempts, Dial(a) PROVE Unborn'
  BY <1>6 DEF Dial
<1>7. ASSUME NEW a \in Attempts, Exchange(a) PROVE Unborn'
  BY <1>7 DEF Exchange
<1>8. ASSUME NEW a \in Attempts, Invalidate(a) PROVE Unborn'
  BY <1>8 DEF Invalidate
<1>9. ASSUME NEW a \in Attempts, ReleaseEntry(a) PROVE Unborn'
  BY <1>9 DEF ReleaseEntry, Release
<1>10. ASSUME NEW a \in Attempts, PutChecks(a) PROVE Unborn'
  BY <1>10 DEF PutChecks
<1>11. ASSUME NEW a \in Attempts, Insert(a) PROVE Unborn'
  BY <1>11 DEF Insert, CacheSession
<1>12. ASSUME NEW a \in Attempts, Displace(a) PROVE Unborn'
  BY <1>12 DEF Displace
<1>13. ASSUME NEW a \in Attempts, InsertAgain(a) PROVE Unborn'
  BY <1>13 DEF InsertAgain, CacheSession
<1>14. ASSUME NEW a \in Attempts, Register(a) PROVE Unborn'
  BY <1>14 DEF Register
<1>15. ASSUME NEW a \in Attempts, Publish(a) PROVE Unborn'
  BY <1>15 DEF Publish
<1>16. ASSUME Drain PROVE Unborn'
  BY <1>16, Zenon DEF Drain
<1>17. ASSUME NEW s \in Attempts, ForceClose(s) PROVE Unborn'
  BY <1>17 DEF ForceClose
<1>18. ASSUME NEW s \in Attempts, CloserMarks(s) PROVE Unborn'
  BY <1>18, Zenon DEF CloserMarks
<1>19. ASSUME UNCHANGED vars PROVE Unborn'
  BY <1>19, Zenon DEF vars
<1>20. QED
  BY <1>1, <1>2, <1>3, <1>4, <1>5, <1>6, <1>7, <1>8, <1>9, <1>10, <1>11, <1>12, <1>13,
     <1>14, <1>15, <1>16, <1>17, <1>18, <1>19, Zenon DEF Next, Turn

\* Take hands a session to one attempt and removes it from the cache.
LEMMA ExclusiveStep ==
    ASSUME TypeOK, Belongs, Unborn, Exclusive, [Next]_vars
    PROVE  Exclusive'
<1> USE WsAssumption DEF At, Goto, Close, cacheVars, connVars, regVars, attemptVars,
   history, TypeOK, Sessions, Holding, Holds, Belongs, Unborn, Exclusive
<1>1. ASSUME NEW a \in Attempts, Take(a) PROVE Exclusive'
  BY <1>1 DEF Take
<1>2. ASSUME NEW a \in Attempts, TakeClosed(a) PROVE Exclusive'
  BY <1>2 DEF TakeClosed
<1>3. ASSUME NEW a \in Attempts, TakeIdle(a) PROVE Exclusive'
  BY <1>3 DEF TakeIdle
<1>4. ASSUME NEW a \in Attempts, Mismatch(a) PROVE Exclusive'
  BY <1>4 DEF Mismatch
<1>5. ASSUME NEW a \in Attempts, Hit(a) PROVE Exclusive'
  BY <1>5 DEF Hit
<1>6. ASSUME NEW a \in Attempts, Dial(a) PROVE Exclusive'
  BY <1>6 DEF Dial
<1>7. ASSUME NEW a \in Attempts, Exchange(a) PROVE Exclusive'
  BY <1>7 DEF Exchange
<1>8. ASSUME NEW a \in Attempts, Invalidate(a) PROVE Exclusive'
  BY <1>8 DEF Invalidate
<1>9. ASSUME NEW a \in Attempts, ReleaseEntry(a) PROVE Exclusive'
  BY <1>9 DEF ReleaseEntry, Release
<1>10. ASSUME NEW a \in Attempts, PutChecks(a) PROVE Exclusive'
  BY <1>10 DEF PutChecks
<1>11. ASSUME NEW a \in Attempts, Insert(a) PROVE Exclusive'
  BY <1>11 DEF Insert, CacheSession
<1>12. ASSUME NEW a \in Attempts, Displace(a) PROVE Exclusive'
  BY <1>12 DEF Displace
<1>13. ASSUME NEW a \in Attempts, InsertAgain(a) PROVE Exclusive'
  BY <1>13 DEF InsertAgain, CacheSession
<1>14. ASSUME NEW a \in Attempts, Register(a) PROVE Exclusive'
  BY <1>14 DEF Register
<1>15. ASSUME NEW a \in Attempts, Publish(a) PROVE Exclusive'
  BY <1>15 DEF Publish
<1>16. ASSUME Drain PROVE Exclusive'
  BY <1>16, Zenon DEF Drain
<1>17. ASSUME NEW s \in Attempts, ForceClose(s) PROVE Exclusive'
  BY <1>17, Zenon DEF ForceClose
<1>18. ASSUME NEW s \in Attempts, CloserMarks(s) PROVE Exclusive'
  BY <1>18, Zenon DEF CloserMarks
<1>19. ASSUME UNCHANGED vars PROVE Exclusive'
  BY <1>19, Zenon DEF vars
<1>20. QED
  BY <1>1, <1>2, <1>3, <1>4, <1>5, <1>6, <1>7, <1>8, <1>9, <1>10, <1>11, <1>12, <1>13,
     <1>14, <1>15, <1>16, <1>17, <1>18, <1>19, Zenon DEF Next, Turn

\* A closed session is not opened again.
LEMMA DisplacedStep ==
    ASSUME TypeOK, Unborn, Displaced, [Next]_vars
    PROVE  Displaced'
<1> USE WsAssumption DEF At, Goto, Close, cacheVars, connVars, regVars, attemptVars,
   history, TypeOK, Sessions, Holding, Unborn, Displaced
<1>1. ASSUME NEW a \in Attempts, Take(a) PROVE Displaced'
  BY <1>1 DEF Take
<1>2. ASSUME NEW a \in Attempts, TakeClosed(a) PROVE Displaced'
  BY <1>2, Zenon DEF TakeClosed
<1>3. ASSUME NEW a \in Attempts, TakeIdle(a) PROVE Displaced'
  BY <1>3, Zenon DEF TakeIdle
<1>4. ASSUME NEW a \in Attempts, Mismatch(a) PROVE Displaced'
  BY <1>4, Zenon DEF Mismatch
<1>5. ASSUME NEW a \in Attempts, Hit(a) PROVE Displaced'
  BY <1>5, Zenon DEF Hit
<1>6. ASSUME NEW a \in Attempts, Dial(a) PROVE Displaced'
  BY <1>6 DEF Dial
<1>7. ASSUME NEW a \in Attempts, Exchange(a) PROVE Displaced'
  BY <1>7, Zenon DEF Exchange
<1>8. ASSUME NEW a \in Attempts, Invalidate(a) PROVE Displaced'
  BY <1>8 DEF Invalidate
<1>9. ASSUME NEW a \in Attempts, ReleaseEntry(a) PROVE Displaced'
  BY <1>9 DEF ReleaseEntry, Release
<1>10. ASSUME NEW a \in Attempts, PutChecks(a) PROVE Displaced'
  BY <1>10 DEF PutChecks
<1>11. ASSUME NEW a \in Attempts, Insert(a) PROVE Displaced'
  BY <1>11 DEF Insert, CacheSession
<1>12. ASSUME NEW a \in Attempts, Displace(a) PROVE Displaced'
  BY <1>12, Zenon DEF Displace
<1>13. ASSUME NEW a \in Attempts, InsertAgain(a) PROVE Displaced'
  BY <1>13, Zenon DEF InsertAgain, CacheSession
<1>14. ASSUME NEW a \in Attempts, Register(a) PROVE Displaced'
  BY <1>14 DEF Register
<1>15. ASSUME NEW a \in Attempts, Publish(a) PROVE Displaced'
  BY <1>15, Zenon DEF Publish
<1>16. ASSUME Drain PROVE Displaced'
  BY <1>16, Zenon DEF Drain
<1>17. ASSUME NEW s \in Attempts, ForceClose(s) PROVE Displaced'
  BY <1>17 DEF ForceClose
<1>18. ASSUME NEW s \in Attempts, CloserMarks(s) PROVE Displaced'
  BY <1>18, Zenon DEF CloserMarks
<1>19. ASSUME UNCHANGED vars PROVE Displaced'
  BY <1>19, Zenon DEF vars
<1>20. QED
  BY <1>1, <1>2, <1>3, <1>4, <1>5, <1>6, <1>7, <1>8, <1>9, <1>10, <1>11, <1>12, <1>13,
     <1>14, <1>15, <1>16, <1>17, <1>18, <1>19, Zenon DEF Next, Turn

\* What is marked closed stays closed.
LEMMA ShutStep ==
    ASSUME TypeOK, Unborn, Shut, [Next]_vars
    PROVE  Shut'
<1> USE WsAssumption DEF At, Goto, Close, cacheVars, connVars, regVars, attemptVars,
   history, TypeOK, Sessions, Unborn, Shut
<1>1. ASSUME NEW a \in Attempts, Take(a) PROVE Shut'
  BY <1>1, Zenon DEF Take
<1>2. ASSUME NEW a \in Attempts, TakeClosed(a) PROVE Shut'
  BY <1>2, Zenon DEF TakeClosed
<1>3. ASSUME NEW a \in Attempts, TakeIdle(a) PROVE Shut'
  BY <1>3, Zenon DEF TakeIdle
<1>4. ASSUME NEW a \in Attempts, Mismatch(a) PROVE Shut'
  BY <1>4, Zenon DEF Mismatch
<1>5. ASSUME NEW a \in Attempts, Hit(a) PROVE Shut'
  BY <1>5, Zenon DEF Hit
<1>6. ASSUME NEW a \in Attempts, Dial(a) PROVE Shut'
  BY <1>6, Zenon DEF Dial
<1>7. ASSUME NEW a \in Attempts, Exchange(a) PROVE Shut'
  BY <1>7, Zenon DEF Exchange
<1>8. ASSUME NEW a \in Attempts, Invalidate(a) PROVE Shut'
  BY <1>8 DEF Invalidate
<1>9. ASSUME NEW a \in Attempts, ReleaseEntry(a) PROVE Shut'
  BY <1>9, Zenon DEF ReleaseEntry, Release
<1>10. ASSUME NEW a \in Attempts, PutChecks(a) PROVE Shut'
  BY <1>10 DEF PutChecks
<1>11. ASSUME NEW a \in Attempts, Insert(a) PROVE Shut'
  BY <1>11, Zenon DEF Insert, CacheSession
<1>12. ASSUME NEW a \in Attempts, Displace(a) PROVE Shut'
  BY <1>12, Zenon DEF Displace
<1>13. ASSUME NEW a \in Attempts, InsertAgain(a) PROVE Shut'
  BY <1>13, Zenon DEF InsertAgain, CacheSession
<1>14. ASSUME NEW a \in Attempts, Register(a) PROVE Shut'
  BY <1>14, Zenon DEF Register
<1>15. ASSUME NEW a \in Attempts, Publish(a) PROVE Shut'
  BY <1>15, Zenon DEF Publish
<1>16. ASSUME Drain PROVE Shut'
  BY <1>16, Zenon DEF Drain
<1>17. ASSUME NEW s \in Attempts, ForceClose(s) PROVE Shut'
  BY <1>17 DEF ForceClose
<1>18. ASSUME NEW s \in Attempts, CloserMarks(s) PROVE Shut'
  BY <1>18 DEF CloserMarks
<1>19. ASSUME UNCHANGED vars PROVE Shut'
  BY <1>19, Zenon DEF vars
<1>20. QED
  BY <1>1, <1>2, <1>3, <1>4, <1>5, <1>6, <1>7, <1>8, <1>9, <1>10, <1>11, <1>12, <1>13,
     <1>14, <1>15, <1>16, <1>17, <1>18, <1>19, Zenon DEF Next, Turn

\* Every step that lets go of a session closes, caches or records it.
LEMMA AccountedStep ==
    ASSUME TypeOK, Belongs, Exclusive, Displaced, Shut, Accounted, [Next]_vars
    PROVE  Accounted'
<1> USE WsAssumption DEF At, Goto, Close, cacheVars, connVars, regVars, attemptVars,
   history, TypeOK, Sessions, Holding, Holds, Belongs, Exclusive, Displaced, Shut, Accounted
<1>1. ASSUME NEW a \in Attempts, Take(a) PROVE Accounted'
  BY <1>1 DEF Take
<1>2. ASSUME NEW a \in Attempts, TakeClosed(a) PROVE Accounted'
  BY <1>2 DEF TakeClosed
<1>3. ASSUME NEW a \in Attempts, TakeIdle(a) PROVE Accounted'
  BY <1>3, Zenon DEF TakeIdle
<1>4. ASSUME NEW a \in Attempts, Mismatch(a) PROVE Accounted'
  BY <1>4, Zenon DEF Mismatch
<1>5. ASSUME NEW a \in Attempts, Hit(a) PROVE Accounted'
  BY <1>5, Zenon DEF Hit
<1>6. ASSUME NEW a \in Attempts, Dial(a) PROVE Accounted'
  BY <1>6 DEF Dial
<1>7. ASSUME NEW a \in Attempts, Exchange(a) PROVE Accounted'
  BY <1>7 DEF Exchange
<1>8. ASSUME NEW a \in Attempts, Invalidate(a) PROVE Accounted'
  BY <1>8 DEF Invalidate
<1>9. ASSUME NEW a \in Attempts, ReleaseEntry(a) PROVE Accounted'
  BY <1>9 DEF ReleaseEntry, Release
<1>10. ASSUME NEW a \in Attempts, PutChecks(a) PROVE Accounted'
  BY <1>10 DEF PutChecks
<1>11. ASSUME NEW a \in Attempts, Insert(a) PROVE Accounted'
  BY <1>11 DEF Insert, CacheSession
<1>12. ASSUME NEW a \in Attempts, Displace(a) PROVE Accounted'
  BY <1>12, Zenon DEF Displace
<1>13. ASSUME NEW a \in Attempts, InsertAgain(a) PROVE Accounted'
  BY <1>13 DEF InsertAgain, CacheSession
<1>14. ASSUME NEW a \in Attempts, Register(a) PROVE Accounted'
  BY <1>14 DEF Register
<1>15. ASSUME NEW a \in Attempts, Publish(a) PROVE Accounted'
  BY <1>15, Zenon DEF Publish
<1>16. ASSUME Drain PROVE Accounted'
  BY <1>16, Zenon DEF Drain
<1>17. ASSUME NEW s \in Attempts, ForceClose(s) PROVE Accounted'
  <2>1. open' \subseteq open /\ UNCHANGED <<entries, pc, sess, failed, overwritten>>
    BY <1>17, Zenon DEF ForceClose
  <2> QED BY <2>1, Zenon
<1>18. ASSUME NEW s \in Attempts, CloserMarks(s) PROVE Accounted'
  BY <1>18, Zenon DEF CloserMarks
<1>19. ASSUME UNCHANGED vars PROVE Accounted'
  BY <1>19, Zenon DEF vars
<1>20. QED
  BY <1>1, <1>2, <1>3, <1>4, <1>5, <1>6, <1>7, <1>8, <1>9, <1>10, <1>11, <1>12, <1>13,
     <1>14, <1>15, <1>16, <1>17, <1>18, <1>19, Zenon DEF Next, Turn

\* What other conversations do does not matter to c.
LEMMA TracksElsewhere ==
    ASSUME NEW c \in Convs, Tracks(c), entries'[c] = entries[c], live'[c] = live[c],
           UNCHANGED <<tracked, draining>>,
           \A b \in Attempts : ConvOf[b] = c => pc'[b] = pc[b] /\ sess'[b] = sess[b]
    PROVE  Tracks(c)'
<1>1. \A b \in Attempts : ConvOf[b] = c => (Busy(b)' <=> Busy(b))
  BY Zenon DEF Busy
<1> QED  BY <1>1, Zenon DEF Tracks

\* A turn that has taken what was cached goes on, or ends, without caching anything.
LEMMA TracksMeanwhile ==
    ASSUME NEW a \in Attempts, Tracks(ConvOf[a]), Busy(a), pc[a] \notin {"register", "publish"},
           pc'[a] \notin {"register", "publish"},
           \A b \in Attempts \ {a} : pc'[b] = pc[b] /\ sess'[b] = sess[b],
           UNCHANGED <<entries, live, tracked, draining>>
    PROVE  Tracks(ConvOf[a])'
<1>1. \A b \in Attempts \ {a} : ConvOf[b] = ConvOf[a] => ~Busy(b) /\ ~Busy(b)' /\ pc'[b] # "publish"
  BY Zenon DEF Tracks, Busy
<1>2. entries[ConvOf[a]] = None
  BY Zenon DEF Tracks
<1> QED  BY <1>1, <1>2, Zenon DEF Tracks

\* Every step of a turn, and of the drain, keeps the registrations of conversations
\* without overlap complete.
LEMMA TrackStep ==
    ASSUME IInv, TrackInv, [Next]_vars
    PROVE  TrackInv'
<1> USE WsAssumption DEF At, Goto, Close, cacheVars, connVars, regVars, attemptVars,
   history, IInv, TypeOK, Sessions, Belongs, Holding, TrackInv, Tracks, Busy
<1>1. ASSUME NEW a \in Attempts, Take(a) PROVE TrackInv'
  <2>1. /\ UNCHANGED <<live, tracked, draining>> /\ pc[a] = "start"
        /\ overlapped' = overlapped \/ overlapped' = overlapped \cup {ConvOf[a]}
        /\ ConvOf[a] \notin overlapped' => \A b \in Attempts \ {a} : ConvOf[b] = ConvOf[a] => ~Busy(b)
        /\ \/ pc' = [pc EXCEPT ![a] = "dial"] /\ entries[ConvOf[a]] = None /\ UNCHANGED <<entries, sess>>
           \/ pc' = [pc EXCEPT ![a] = "checks"] /\ entries' = [entries EXCEPT ![ConvOf[a]] = None]
              /\ sess' = [sess EXCEPT ![a] = entries[ConvOf[a]]]
    BY <1>1, Zenon DEF Take, Rivals
  <2>2. \A c \in Convs : live'[c] # None => ConvOf[live'[c]] = c
    BY <2>1, Zenon
  <2>3. ASSUME NEW c \in Convs \ overlapped', c = ConvOf[a] PROVE Tracks(c)'
    BY <2>1, <2>3
  <2>4. ASSUME NEW c \in Convs \ overlapped', c # ConvOf[a] PROVE Tracks(c)'
    BY <2>1, <2>4, TracksElsewhere
  <2> QED  BY <2>2, <2>3, <2>4, Zenon
<1>2. ASSUME NEW a \in Attempts, TakeClosed(a) PROVE TrackInv'
  BY <1>2 DEF TakeClosed
<1>3. ASSUME NEW a \in Attempts, TakeIdle(a) PROVE TrackInv'
  BY <1>3 DEF TakeIdle
<1>4. ASSUME NEW a \in Attempts, Mismatch(a) PROVE TrackInv'
  BY <1>4 DEF Mismatch
<1>5. ASSUME NEW a \in Attempts, Hit(a) PROVE TrackInv'
  BY <1>5 DEF Hit
<1>6. ASSUME NEW a \in Attempts, Dial(a) PROVE TrackInv'
  <2>1. /\ UNCHANGED <<entries, live, tracked, draining, overlapped>> /\ pc[a] = "dial"
        /\ pc' = [pc EXCEPT ![a] = "exchange"] \/ pc' = [pc EXCEPT ![a] = "done"]
        /\ sess' = [sess EXCEPT ![a] = a] \/ sess' = sess
    BY <1>6, Zenon DEF Dial
  <2>2. \A c \in Convs : live'[c] # None => ConvOf[live'[c]] = c
    BY <2>1, Zenon
  <2>3. ASSUME NEW c \in Convs \ overlapped', c = ConvOf[a] PROVE Tracks(c)'
    BY <2>1, <2>3, TracksMeanwhile
  <2>4. ASSUME NEW c \in Convs \ overlapped', c # ConvOf[a] PROVE Tracks(c)'
    BY <2>1, <2>4, TracksElsewhere
  <2> QED  BY <2>2, <2>3, <2>4, Zenon
<1>7. ASSUME NEW a \in Attempts, Exchange(a) PROVE TrackInv'
  <2>1. /\ UNCHANGED <<entries, live, tracked, draining, overlapped, sess>> /\ pc[a] = "exchange"
        /\ pc' = [pc EXCEPT ![a] = "put"] \/ pc' = [pc EXCEPT ![a] = "failed"]
    BY <1>7, Zenon DEF Exchange
  <2>2. \A c \in Convs : live'[c] # None => ConvOf[live'[c]] = c
    BY <2>1, Zenon
  <2>3. ASSUME NEW c \in Convs \ overlapped', c = ConvOf[a] PROVE Tracks(c)'
    BY <2>1, <2>3, TracksMeanwhile
  <2>4. ASSUME NEW c \in Convs \ overlapped', c # ConvOf[a] PROVE Tracks(c)'
    BY <2>1, <2>4, TracksElsewhere
  <2> QED  BY <2>2, <2>3, <2>4, Zenon
<1>8. ASSUME NEW a \in Attempts, Invalidate(a) PROVE TrackInv'
  <2>1. /\ UNCHANGED <<live, tracked, draining, overlapped, sess>> /\ pc[a] = "failed"
        /\ pc' = [pc EXCEPT ![a] = "releaseDone"] \/ pc' = [pc EXCEPT ![a] = "done"]
        /\ entries' = [entries EXCEPT ![ConvOf[a]] = None]
    BY <1>8, SMTT(20) DEF Invalidate
  <2>2. \A c \in Convs : live'[c] # None => ConvOf[live'[c]] = c
    BY <2>1, Zenon
  <2>3. ASSUME NEW c \in Convs \ overlapped', c = ConvOf[a] PROVE Tracks(c)'
    BY <2>1, <2>3
  <2>4. ASSUME NEW c \in Convs \ overlapped', c # ConvOf[a] PROVE Tracks(c)'
    BY <2>1, <2>4, TracksElsewhere
  <2> QED  BY <2>2, <2>3, <2>4, Zenon
<1>9. ASSUME NEW a \in Attempts, ReleaseEntry(a) PROVE TrackInv'
  <2>1. /\ UNCHANGED <<entries, draining, overlapped, sess>>
        /\ live' = [live EXCEPT ![ConvOf[a]] = None] /\ tracked' = tracked \ {live[ConvOf[a]]}
        /\ pc[a] \in {"releaseDial", "releaseCache", "releaseDone"}
        /\ \/ pc' = [pc EXCEPT ![a] = "dial"] \/ pc' = [pc EXCEPT ![a] = "cache"]
           \/ pc' = [pc EXCEPT ![a] = "done"]
    BY <1>9, Zenon DEF ReleaseEntry, Release
  <2>2. \A c \in Convs : live'[c] # None => ConvOf[live'[c]] = c
    BY <2>1
  <2>3. ASSUME NEW c \in Convs \ overlapped', c = ConvOf[a] PROVE Tracks(c)'
    BY <2>1, <2>3
  <2>4. ASSUME NEW c \in Convs \ overlapped', c # ConvOf[a] PROVE Tracks(c)'
    <3>1. \A s \in tracked : ConvOf[s] = c => s \in tracked'
      BY <2>1, <2>4
    <3>2. live[c] \in tracked => live[c] \in tracked'
      BY <3>1, <2>4
    <3>3. entries[c] \in tracked => entries[c] \in tracked'
      BY <3>1, <2>4
    <3>4. \A b \in Attempts : ConvOf[b] = c /\ pc[b] = "publish" /\ sess[b] \in tracked =>
              sess[b] \in tracked'
      BY <3>1, <2>4, Zenon
    <3>5. entries' = entries /\ live'[c] = live[c] /\ draining' = draining
      BY <2>1, <2>4
    <3>6. \A b \in Attempts : ConvOf[b] = c => pc'[b] = pc[b] /\ sess'[b] = sess[b]
      BY <2>1, <2>4
    <3>7. Tracks(c)
      BY <2>1, <2>4, Zenon
    <3> HIDE DEF IInv, TrackInv
    <3> QED BY <3>2, <3>3, <3>4, <3>5, <3>6, <3>7, Zenon
  <2> QED  BY <2>2, <2>3, <2>4, Zenon
<1>10. ASSUME NEW a \in Attempts, PutChecks(a) PROVE TrackInv'
  <2>1. /\ UNCHANGED <<entries, live, tracked, draining, overlapped, sess>> /\ pc[a] = "put"
        /\ pc' = [pc EXCEPT ![a] = "insert"] \/ pc' = [pc EXCEPT ![a] = "done"]
    BY <1>10, Zenon DEF PutChecks
  <2>2. \A c \in Convs : live'[c] # None => ConvOf[live'[c]] = c
    BY <2>1, Zenon
  <2>3. ASSUME NEW c \in Convs \ overlapped', c = ConvOf[a] PROVE Tracks(c)'
    BY <2>1, <2>3, TracksMeanwhile
  <2>4. ASSUME NEW c \in Convs \ overlapped', c # ConvOf[a] PROVE Tracks(c)'
    BY <2>1, <2>4, TracksElsewhere
  <2> QED  BY <2>2, <2>3, <2>4, Zenon
<1>11. ASSUME NEW a \in Attempts, Insert(a) PROVE TrackInv'
  <2>1. /\ UNCHANGED <<live, tracked, draining, overlapped, sess>> /\ pc[a] = "insert"
        /\ \/ /\ entries' = [entries EXCEPT ![ConvOf[a]] = sess[a]]
              /\ pc' = [pc EXCEPT ![a] = IF live[ConvOf[a]] = None THEN "register" ELSE "done"]
           \/ /\ entries[ConvOf[a]] # None
              /\ pc' = [pc EXCEPT ![a] = "displace"] /\ entries' = entries
    BY <1>11, Zenon DEF Insert, CacheSession
  <2>2. \A c \in Convs : live'[c] # None => ConvOf[live'[c]] = c
    BY <2>1, Zenon
  <2>3. ASSUME NEW c \in Convs \ overlapped', c = ConvOf[a] PROVE Tracks(c)'
    <3>1. entries[c] = None
      BY <2>1, <2>3, Zenon
    <3>2. \A b \in Attempts \ {a} : ConvOf[b] = c => ~Busy(b) /\ ~Busy(b)' /\ pc'[b] # "publish"
      BY <2>1, <2>3
    <3> QED  BY <2>1, <2>3, <3>1, <3>2
  <2>4. ASSUME NEW c \in Convs \ overlapped', c # ConvOf[a] PROVE Tracks(c)'
    BY <2>1, <2>4, TracksElsewhere
  <2> QED  BY <2>2, <2>3, <2>4, Zenon
<1>12. ASSUME NEW a \in Attempts, Displace(a) PROVE TrackInv'
  BY <1>12 DEF Displace
<1>13. ASSUME NEW a \in Attempts, InsertAgain(a) PROVE TrackInv'
  BY <1>13, SMTT(20) DEF InsertAgain, CacheSession
<1>14. ASSUME NEW a \in Attempts, Register(a) PROVE TrackInv'
  BY <1>14 DEF Register
<1>15. ASSUME NEW a \in Attempts, Publish(a) PROVE TrackInv'
  BY <1>15 DEF Publish
<1>16. ASSUME Drain PROVE TrackInv'
  BY <1>16 DEF Drain
<1>17. ASSUME NEW s \in Attempts, ForceClose(s) PROVE TrackInv'
  BY <1>17 DEF ForceClose
<1>18. ASSUME NEW s \in Attempts, CloserMarks(s) PROVE TrackInv'
  BY <1>18 DEF CloserMarks
<1>19. ASSUME UNCHANGED vars PROVE TrackInv'
  BY <1>19 DEF vars
<1>20. QED
  BY <1>1, <1>2, <1>3, <1>4, <1>5, <1>6, <1>7, <1>8, <1>9, <1>10, <1>11, <1>12, <1>13,
     <1>14, <1>15, <1>16, <1>17, <1>18, <1>19, Zenon DEF Next, Turn

\* The inductive invariant holds throughout.
THEOREM Invariance == Spec => []IInv
<1>1. Init => IInv
  BY WsAssumption, ZenonT(40) DEF Init, IInv, TypeOK, Belongs, Exclusive, Unborn, Displaced, Shut, Accounted,
     Sessions, Steps, Holding, Holds
<1>2. IInv /\ [Next]_vars => IInv'
  BY TypeStep, BelongsStep, UnbornStep, ExclusiveStep, DisplacedStep, ShutStep, AccountedStep, Zenon DEF IInv
<1> QED BY <1>1, <1>2, PTL DEF Spec

\* The state of cache, registry and turns stays well typed.
THEOREM TypeCorrect == Spec => []TypeOK
<1>1. IInv => TypeOK BY Zenon DEF IInv
<1> QED BY Invariance, <1>1, PTL

\* However turns of a conversation overlap, no two use one frame stream.
THEOREM NeverShared == Spec => []Exclusive
<1>1. IInv => Exclusive BY Zenon DEF IInv
<1> QED BY Invariance, <1>1, PTL

\* Connections are left open only by a failed exchange or by the race in Put.
THEOREM LeaksNamed == Spec => []Accounted
<1>1. IInv => Accounted BY Zenon DEF IInv
<1> QED BY Invariance, <1>1, PTL

\* A connection in use is closed by another attempt only from within Put.
THEOREM OwnUntilPut == Spec => TakenIsOwn
<1> DEFINE Foreign == \A a, b \in Attempts :
        a # b /\ Turn(b) /\ pc[a] = "exchange" /\ sess[a] \in open \ open' =>
            pc[b] = "displace" /\ old[b] = sess[a]
<1>1. ASSUME IInv, NEW a \in Attempts, NEW b \in Attempts, a # b, Turn(b), pc[a] = "exchange",
             sess[a] \in open \ open'
      PROVE  pc[b] = "displace" /\ old[b] = sess[a]
  <2> USE WsAssumption DEF At, Goto, Close, cacheVars, connVars, regVars, IInv, TypeOK, Sessions,
         Exclusive, Holds, Holding
  <2>1. CASE Take(b)
    BY <1>1, <2>1, Zenon DEF Take
  <2>2. CASE TakeClosed(b)
    BY <1>1, <2>2, Zenon DEF TakeClosed
  <2>3. CASE TakeIdle(b)
    BY <1>1, <2>3, Zenon DEF TakeIdle
  <2>4. CASE Mismatch(b)
    BY <1>1, <2>4, Zenon DEF Mismatch
  <2>5. CASE Hit(b)
    BY <1>1, <2>5, Zenon DEF Hit
  <2>6. CASE Dial(b)
    BY <1>1, <2>6, Zenon DEF Dial
  <2>7. CASE Exchange(b)
    BY <1>1, <2>7, Zenon DEF Exchange
  <2>8. CASE Invalidate(b)
    BY <1>1, <2>8 DEF Invalidate
  <2>9. CASE ReleaseEntry(b)
    BY <1>1, <2>9, Zenon DEF ReleaseEntry, Release
  <2>10. CASE PutChecks(b)
    BY <1>1, <2>10 DEF PutChecks
  <2>11. CASE Insert(b)
    BY <1>1, <2>11, Zenon DEF Insert, CacheSession
  <2>12. CASE Displace(b)
    BY <1>1, <2>12, Zenon DEF Displace
  <2>13. CASE InsertAgain(b)
    BY <1>1, <2>13, Zenon DEF InsertAgain, CacheSession
  <2>14. CASE Register(b)
    BY <1>1, <2>14, Zenon DEF Register
  <2>15. CASE Publish(b)
    BY <1>1, <2>15, Zenon DEF Publish
  <2>16. QED
    BY <1>1, <2>1, <2>2, <2>3, <2>4, <2>5, <2>6, <2>7, <2>8, <2>9, <2>10, <2>11, <2>12,
       <2>13, <2>14, <2>15, Zenon DEF Turn
<1>2. IInv /\ [Next]_vars => [Foreign]_vars
  BY <1>1, Zenon
<1> HIDE DEF Foreign
<1>3. Spec => [][Foreign]_vars
  BY Invariance, <1>2, PTL DEF Spec
<1> QED BY <1>3, Zenon DEF TakenIsOwn, Foreign

\* While the turns of a conversation follow one another, what is cached between them is
\* tracked, unless the registration of an earlier session is still in the way.
THEOREM CachedTracked == Spec => []TrackedUnlessStale
<1>1. Init => TrackInv
  BY Zenon DEF Init, TrackInv, Tracks, Busy
<1>2. TrackInv => TrackedUnlessStale
  BY Zenon DEF TrackInv, Tracks, TrackedUnlessStale
<1> QED BY Invariance, TrackStep, <1>1, <1>2, PTL DEF Spec
=============================================================================
