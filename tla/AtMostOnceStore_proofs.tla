----------------------- MODULE AtMostOnceStore_proofs -----------------------
(***************************************************************************)
(* Proofs about AtMostOnceStore for every number of keys, threads, answers *)
(* and for every limit.                                                    *)
(***************************************************************************)
EXTENDS AtMostOnceStore, FiniteSetTheorems, SequenceTheorems, TLAPS

-----------------------------------------------------------------------------
(* The strengthening that makes the invariants of the store inductive. *)

\* Exactly the thread that sweeps holds the mutex.
HolderSweeps == \A t \in Threads : holder = t <=> calls[t].pc = "sweeping"

\* A request that passed the window test of begin was not past its expiry by the reading it made.
CallsInWindow ==
    \A t \in Threads : calls[t] # Idle => calls[t].now <= ReqTime[calls[t].key] + MaxAge

\* The sweeping thread's reading is at most the latest one, and is the latest one so far unless
\* some thread has come late.
SweepIsLatest ==
    \A t \in Threads :
        holder = t => /\ calls[t].now <= lastSweep
                      /\ ~staleBegin => calls[t].now = lastSweep

\* The map files every entry under its own key, and the expiry is fixed by the key.
MapAgrees ==
    /\ \A k \in DOMAIN tombstones : entries[tombstones[k]].key = k
    /\ \A n \in 1..Len(entries) : entries[n].expires_at = ReqTime[entries[n].key] + MaxAge

\* Only finished requests have a cached response.
CachedAreCompleted ==
    \A n \in 1..Len(entries) : entries[n].is_cached => entries[n].state = "completed"

Live(n) == entries[n].key \in DOMAIN tombstones /\ tombstones[entries[n].key] = n

\* An entry that left the map had expired by some reading the mutex was taken with.
RemovedWereExpired ==
    \A n \in 1..Len(entries) : Live(n) \/ entries[n].expires_at < lastSweep

IInv ==
    /\ TypeOK
    /\ HolderSweeps
    /\ CallsInWindow
    /\ SweepIsLatest
    /\ MapAgrees
    /\ CachedAreCompleted
    /\ InFlightReachable
    /\ LruConsistent
    /\ TombstonesBounded
    /\ RemovedWereExpired
    /\ AtMostOnceUnlessStale

-----------------------------------------------------------------------------
(* Removing one position from a list without repetitions. *)

\* Erasing position i keeps the elements of the list and shortens it by one.
LEMMA RemoveAtType ==
    ASSUME NEW S, NEW s \in Seq(S), NEW i \in 1..Len(s)
    PROVE  /\ RemoveAt(s, i) \in Seq(S)
           /\ Len(RemoveAt(s, i)) = Len(s) - 1
           /\ \A j \in 1..Len(s) - 1 :
                 RemoveAt(s, i)[j] = IF j < i THEN s[j] ELSE s[j + 1]
<1> DEFINE front == SubSeq(s, 1, i - 1)
           back == SubSeq(s, i + 1, Len(s))
<1>0. Len(s) \in Nat
  BY LenProperties
<1>1. /\ front \in Seq(S) /\ Len(front) = i - 1
      /\ \A j \in 1..i - 1 : front[j] = s[j]
  <2>1. CASE i = 1
    BY <1>0, <2>1, SubSeqProperties
  <2>2. CASE i # 1
    BY <1>0, <2>2, SubSeqProperties
  <2>3. QED
    BY <2>1, <2>2
<1>2. /\ back \in Seq(S) /\ Len(back) = Len(s) - i
      /\ \A j \in 1..Len(s) - i : back[j] = s[i + j]
  <2>1. i + 1 \in 1..Len(s) + 1 /\ Len(s) \in i..Len(s)
    BY <1>0
  <2>2. /\ back \in Seq(S)
        /\ Len(back) = IF i + 1 <= Len(s) THEN Len(s) - (i + 1) + 1 ELSE 0
        /\ \A j \in 1..Len(s) - (i + 1) + 1 : back[j] = s[i + 1 + j - 1]
    BY <1>0, <2>1, SubSeqProperties
  <2>3. QED
    BY <1>0, <2>2
<1>3. /\ front \o back \in Seq(S)
      /\ Len(front \o back) = Len(front) + Len(back)
      /\ \A j \in 1..Len(front) + Len(back) :
            (front \o back)[j] = IF j <= Len(front) THEN front[j] ELSE back[j - Len(front)]
  BY <1>1, <1>2, ConcatProperties
<1>4. RemoveAt(s, i) = front \o back
  BY DEF RemoveAt
<1> HIDE DEF front, back
<1>5. Len(front) + Len(back) = Len(s) - 1
  BY <1>0, <1>1, <1>2
<1>6. ASSUME NEW j \in 1..Len(s) - 1
      PROVE  (front \o back)[j] = IF j < i THEN s[j] ELSE s[j + 1]
  BY <1>0, <1>1, <1>2, <1>3, <1>5
<1>7. QED
  BY <1>3, <1>4, <1>5, <1>6

\* The position a key is cached at is a position of the list, if the key is listed at all.
LEMMA CachePositionExists ==
    ASSUME NEW k, \E i \in 1..Len(response_lru) : response_lru[i] = k
    PROVE  /\ CachePosition(k) \in 1..Len(response_lru)
           /\ response_lru[CachePosition(k)] = k
BY DEF CachePosition
-----------------------------------------------------------------------------
(* Type correctness. *)


\* Putting a key in front keeps a list of keys a list of keys.
LEMMA PushFrontType ==
    ASSUME NEW S, NEW s \in Seq(S), NEW k \in S
    PROVE  /\ <<k>> \o s \in Seq(S)
           /\ Len(<<k>> \o s) = Len(s) + 1
           /\ (<<k>> \o s)[1] = k
           /\ \A i \in 2..Len(s) + 1 : (<<k>> \o s)[i] = s[i - 1]
<1>1. <<k>> \in Seq(S) /\ Len(<<k>>) = 1 /\ <<k>>[1] = k
  OBVIOUS
<1>2. Len(s) \in Nat
  BY LenProperties
<1>3. QED
  BY <1>1, <1>2, ConcatProperties

\* Replacing an entry that exists leaves the entries a sequence of the same length.
LEMMA EntryUpdate ==
    ASSUME NEW s \in Seq(Entry), NEW n \in 1..Len(s), NEW e \in Entry
    PROVE  /\ [s EXCEPT ![n] = e] \in Seq(Entry)
           /\ Len([s EXCEPT ![n] = e]) = Len(s)
OBVIOUS

\* What complete does to the entries: entry m gets its result, and at most one entry loses its
\* full response.
LEMMA CompleteEntries ==
    ASSUME TypeOK, NEW m \in 1..Len(entries), NEW a \in Answers,
           CompleteUncached(m, a) \/ CompleteCached(m, a) \/ CompleteEvicting(m, a)
    PROVE  /\ entries' \in Seq(Entry) /\ Len(entries') = Len(entries)
           /\ entries[m].state # "completed"
           /\ \A n \in 1..Len(entries) :
                 LET e == entries[n]
                     done == IF n = m THEN Completed(e, a) ELSE e
                     held == IF n = m THEN Cached(done, a) ELSE e
                 IN  \/ CompleteUncached(m, a) /\ entries'[n] = done
                     \/ ~CompleteUncached(m, a) /\ entries'[n] \in {held, Evicted(held)}
<1> DEFINE done(n) == IF n = m THEN Completed(entries[n], a) ELSE entries[n]
           held(n) == IF n = m THEN Cached(done(n), a) ELSE entries[n]
           kept == [entries EXCEPT ![m] = held(m)]
<1>0. entries[m].state # "completed" /\ entries \in Seq(Entry)
  BY DEF TypeOK, CompleteUncached, CompleteCached, CompleteEvicting, CompleteCommon
<1>1. entries[m] \in Entry
  BY DEF TypeOK
<1>2. done(m) \in Entry /\ held(m) \in Entry
  BY <1>1 DEF Entry, Completed, Cached
<1>3. /\ kept \in Seq(Entry) /\ Len(kept) = Len(entries)
      /\ \A n \in 1..Len(entries) : kept[n] = held(n)
  <2>1. kept \in Seq(Entry) /\ Len(kept) = Len(entries)
    BY <1>0, <1>2, EntryUpdate
  <2>2. QED
    BY <1>0, <2>1
<1>4. CASE CompleteUncached(m, a)
  <2>1. entries' = [entries EXCEPT ![m] = done(m)]
    BY <1>4 DEF CompleteUncached
  <2>2. entries' \in Seq(Entry) /\ Len(entries') = Len(entries)
    BY <1>0, <1>2, <2>1, EntryUpdate
  <2>3. \A n \in 1..Len(entries) : entries'[n] = done(n)
    BY <1>0, <2>1
  <2>4. QED
    BY <1>0, <1>4, <2>2, <2>3
<1>5. CASE CompleteCached(m, a)
  <2>1. entries' = kept
    BY <1>5 DEF CompleteCached
  <2>2. ~CompleteUncached(m, a)
    BY <1>5 DEF CompleteCached, CompleteUncached
  <2>3. QED
    BY <1>0, <1>3, <2>1, <2>2
<1>6. CASE CompleteEvicting(m, a)
  <2> DEFINE k == Last(Pushed(m))
             i == tombstones[k]
  <2>0. ~CompleteUncached(m, a)
    BY <1>6 DEF CompleteEvicting, CompleteUncached
  <2>1. entries' = IF k \in DOMAIN tombstones
                   THEN [kept EXCEPT ![i] = Evicted(kept[i])] ELSE kept
    BY <1>6 DEF CompleteEvicting
  <2>2. ASSUME k \in DOMAIN tombstones
        PROVE  i \in 1..Len(kept) /\ Evicted(kept[i]) \in Entry
    <3>1. i \in 1..Len(entries)
      BY <2>2 DEF TypeOK
    <3>2. kept[i] \in Entry
      BY <1>3, <3>1, ElementOfSeq
    <3>3. QED
      BY <1>3, <3>1, <3>2 DEF Entry, Evicted
  <2> HIDE DEF k, i, kept
  <2>3. entries' \in Seq(Entry) /\ Len(entries') = Len(entries)
    BY <1>3, <2>1, <2>2, EntryUpdate
  <2>4. \A n \in 1..Len(entries) : entries'[n] \in {kept[n], Evicted(kept[n])}
    BY <1>3, <2>1, <2>2
  <2>5. QED
    BY <1>0, <1>3, <2>0, <2>3, <2>4
<1>7. QED
  BY <1>4, <1>5, <1>6

\* The thread that holds the mutex across steps is inside begin.
LEMMA SweepingCall ==
    ASSUME TypeOK, HolderSweeps, NEW t \in Threads, holder = t
    PROVE  calls[t] \in [pc : {"waiting", "sweeping"}, key : Keys, hash : Hashes, now : Nat]
BY DEF TypeOK, HolderSweeps, Call, Idle

\* Every step keeps the state well typed, provided a listed key is found at its cache position.
LEMMA TypeStep ==
    ASSUME TypeOK, LruConsistent, HolderSweeps, [Next]_vars
    PROVE  TypeOK'
<1> USE StoreAssumption
<1>1. CASE Tick
  BY SMTT(30), <1>1 DEF TypeOK, Tick
<1>2. CASE SetBack
  BY SMTT(30), <1>2 DEF TypeOK, SetBack
<1>3. ASSUME NEW t \in Threads, NEW k \in Keys, NEW h \in Hashes, ReadClock(t, k, h)
      PROVE  TypeOK'
  BY <1>3 DEF TypeOK, ReadClock, Call
<1>4. ASSUME NEW t \in Threads, TakeMutex(t)
      PROVE  TypeOK'
  <2>1. calls[t] \in [pc : {"waiting", "sweeping"}, key : Keys, hash : Hashes, now : Nat]
    BY <1>4 DEF TypeOK, TakeMutex, Call, Idle
  <2>2. [calls[t] EXCEPT !.pc = "sweeping"] \in Call
    BY <2>1 DEF Call
  <2>3. calls' = [calls EXCEPT ![t] = [calls[t] EXCEPT !.pc = "sweeping"]]
    BY <1>4 DEF TakeMutex
  <2>4. calls' \in [Threads -> Call]
    BY <2>2, <2>3 DEF TypeOK
  <2>5. QED
    BY <1>4, <2>1, <2>4 DEF TypeOK, TakeMutex
<1>5. ASSUME NEW t \in Threads, NEW k \in Keys, RemoveExpired(t, k)
      PROVE  TypeOK'
  <2>1. Uncached(k) \in Seq(Keys) \/ ~entries[tombstones[k]].is_cached
    BY <1>5, CachePositionExists, RemoveAtType
    DEF TypeOK, LruConsistent, RemoveExpired, Uncached
  <2>2. QED
    BY <1>5, <2>1 DEF TypeOK, RemoveExpired
<1>6. ASSUME NEW t \in Threads, BeginKnown(t)
      PROVE  TypeOK'
  <2> DEFINE k == calls[t].key
             e == entries[tombstones[k]]
  <2>1. calls[t] \in [pc : {"waiting", "sweeping"}, key : Keys, hash : Hashes, now : Nat]
    BY <1>6, SweepingCall DEF BeginKnown, SamePayload, SweepDone
  <2>2. k \in Keys /\ tombstones[k] \in 1..Len(entries) /\ e \in Entry
    BY <1>6, <2>1 DEF TypeOK, BeginKnown, SamePayload
  <2>3. e.is_cached => <<k>> \o Uncached(k) \in Seq(Keys)
    BY ZenonT(30), <1>6, <2>2, CachePositionExists, RemoveAtType, PushFrontType
    DEF TypeOK, LruConsistent, BeginKnown, SamePayload, Uncached
  <2>4. response_lru' \in Seq(Keys)
    BY <1>6, <2>3 DEF TypeOK, BeginKnown, SamePayload
  <2>5. /\ attached' \subseteq 1..Len(entries)
        /\ told' \subseteq Keys \X Hashes \X Answers
    <3>1. attached' \in {attached, attached \cup {tombstones[k]}}
      BY <1>6 DEF BeginKnown, SamePayload
    <3>2. \/ told' = told
          \/ /\ told' = told \cup {<<k, calls[t].hash, e.response_json>>}
             /\ e.response_json # NoAnswer
      BY <1>6 DEF BeginKnown, SamePayload
    <3>3. e.response_json \in Answers \cup {NoAnswer} /\ calls[t].hash \in Hashes
      BY <2>1, <2>2 DEF Entry
    <3>4. told' \subseteq Keys \X Hashes \X Answers
      BY SMTT(30), <2>2, <3>2, <3>3 DEF TypeOK
    <3>5. QED
      BY <2>2, <3>1, <3>4 DEF TypeOK
  <2>6. QED
    BY <1>6, <2>4, <2>5 DEF TypeOK, BeginKnown, SamePayload, Return, Call
<1>7. ASSUME NEW t \in Threads, BeginBusy(t)
      PROVE  TypeOK'
  BY <1>7 DEF TypeOK, BeginBusy, TombstonesFull, Return, Call
<1>8. ASSUME NEW t \in Threads, BeginAccepted(t)
      PROVE  TypeOK'
  <2> DEFINE k == calls[t].key
             e == NewEntry(k, calls[t].hash)
  <2>1. calls[t] \in [pc : {"waiting", "sweeping"}, key : Keys, hash : Hashes, now : Nat]
    BY <1>8, SweepingCall DEF BeginAccepted, TombstonesFull, SweepDone
  <2>2. e \in Entry
    BY <2>1 DEF NewEntry, Entry
  <2>3. entries' \in Seq(Entry) /\ Len(entries') = Len(entries) + 1
    BY <1>8, <2>2 DEF TypeOK, BeginAccepted, TombstonesFull
  <2>4. /\ DOMAIN tombstones' = DOMAIN tombstones \cup {k}
        /\ tombstones' \in [DOMAIN tombstones' -> 1..Len(entries')]
    BY <1>8, <2>3 DEF TypeOK, BeginAccepted, TombstonesFull
  <2>5. attached' \subseteq 1..Len(entries')
    BY <1>8, <2>3 DEF TypeOK, BeginAccepted, TombstonesFull
  <2>6. QED
    BY <1>8, <2>1, <2>3, <2>4, <2>5 DEF TypeOK, BeginAccepted, TombstonesFull, Return, Call
<1>9. ASSUME NEW n \in 1..Len(entries), MarkExecuting(n)
      PROVE  TypeOK'
  <2>0. entries[n] \in Entry
    BY DEF TypeOK
  <2>1. [entries[n] EXCEPT !.state = "executing"] \in Entry
    BY <2>0 DEF Entry
  <2>2. entries' \in Seq(Entry) /\ Len(entries') = Len(entries)
    BY <1>9, <2>1, EntryUpdate DEF TypeOK, MarkExecuting
  <2>3. QED
    BY <1>9, <2>2 DEF TypeOK, MarkExecuting
<1>10. ASSUME NEW n \in 1..Len(entries), NEW a \in Answers,
              CompleteUncached(n, a) \/ CompleteCached(n, a) \/ CompleteEvicting(n, a)
       PROVE  TypeOK'
  <2>1. entries' \in Seq(Entry) /\ Len(entries') = Len(entries)
    BY <1>10, CompleteEntries
  <2>2. entries[n].key \in Keys
    <3>1. entries[n] \in Entry
      BY DEF TypeOK
    <3>2. QED
      BY <3>1 DEF Entry
  <2>3. /\ Pushed(n) \in Seq(Keys) /\ Len(Pushed(n)) = Len(response_lru) + 1
        /\ Len(response_lru) \in Nat
    BY <2>2, PushFrontType, LenProperties DEF TypeOK, Pushed
  <2>4. SubSeq(Pushed(n), 1, Len(response_lru)) \in Seq(Keys)
    BY <2>3, SubSeqProperties
  <2>5. response_lru' \in Seq(Keys)
    BY <1>10, <2>3, <2>4 DEF TypeOK, CompleteUncached, CompleteCached, CompleteEvicting
  <2>6. UNCHANGED <<clock, adjustments, tombstones, calls, holder, attached, told,
                    lastSweep, staleBegin>>
    BY <1>10 DEF CompleteUncached, CompleteCached, CompleteEvicting, CompleteCommon
  <2>7. QED
    BY <2>1, <2>5, <2>6 DEF TypeOK
<1>11. ASSUME NEW n \in 1..Len(entries), WaitCompleted(n)
       PROVE  TypeOK'
  <2>1. entries[n] \in Entry
    BY DEF TypeOK
  <2>2. told' \subseteq Keys \X Hashes \X Answers
    BY SMTT(30), <1>11, <2>1 DEF TypeOK, WaitCompleted, Entry
  <2>3. QED
    BY <1>11, <2>2 DEF TypeOK, WaitCompleted
<1>12. ASSUME NEW n \in 1..Len(entries), WaitTimedOut(n)
       PROVE  TypeOK'
  BY <1>12 DEF TypeOK, WaitTimedOut
<1>13. CASE UNCHANGED vars
  BY <1>13 DEF TypeOK, vars
<1>14. QED
  BY <1>1, <1>2, <1>3, <1>4, <1>5, <1>6, <1>7, <1>8, <1>9, <1>10, <1>11, <1>12, <1>13
  DEF Next, BeginStep, TokenStep, BeginExpired

-----------------------------------------------------------------------------
(* The mutex and the clock readings. *)

\* The mutex has one owner, and the owner's clock reading relates to the latest one as SweepIsLatest
\* says; a late reader sets staleBegin in the same step.
LEMMA CallStep ==
    ASSUME TypeOK, HolderSweeps, CallsInWindow, SweepIsLatest, [Next]_vars
    PROVE  HolderSweeps' /\ CallsInWindow' /\ SweepIsLatest'
<1> USE StoreAssumption
<1> DEFINE Goal == HolderSweeps' /\ CallsInWindow' /\ SweepIsLatest'
<1>0. ASSUME UNCHANGED <<calls, holder, lastSweep, staleBegin>>
      PROVE  Goal
  BY <1>0 DEF HolderSweeps, CallsInWindow, SweepIsLatest
<1>1. ASSUME NEW t \in Threads, NEW k \in Keys, NEW h \in Hashes, ReadClock(t, k, h)
      PROVE  Goal
  <2>1. ~Outside(k, clock) => clock <= ReqTime[k] + MaxAge
    BY DEF TypeOK, Outside
  <2>2. /\ calls' = [calls EXCEPT ![t] =
                       [pc |-> "waiting", key |-> k, hash |-> h, now |-> clock]]
        /\ UNCHANGED <<holder, lastSweep, staleBegin>>
        /\ clock <= ReqTime[k] + MaxAge /\ calls[t] = Idle
    BY <1>1, <2>1 DEF ReadClock
  <2>3. HolderSweeps'
    BY <2>2 DEF TypeOK, HolderSweeps, Idle
  <2>4. CallsInWindow'
    BY <2>2 DEF TypeOK, CallsInWindow
  <2>5. SweepIsLatest'
    <3>1. holder # t
      BY <2>2 DEF HolderSweeps, Idle
    <3>2. \A u \in Threads : holder = u => calls'[u] = calls[u]
      BY <2>2, <3>1 DEF TypeOK
    <3>3. QED
      BY <2>2, <3>2 DEF SweepIsLatest
  <2>6. QED
    BY <2>3, <2>4, <2>5
<1>2. ASSUME NEW t \in Threads, TakeMutex(t)
      PROVE  Goal
  <2>1. calls[t] \in [pc : {"waiting", "sweeping"}, key : Keys, hash : Hashes, now : Nat]
    BY <1>2 DEF TypeOK, TakeMutex, Call, Idle
  <2>2. /\ calls' = [calls EXCEPT ![t] = [calls[t] EXCEPT !.pc = "sweeping"]]
        /\ holder = NoThread /\ holder' = t
        /\ staleBegin' = (staleBegin \/ calls[t].now < lastSweep)
        /\ lastSweep' = IF calls[t].now > lastSweep THEN calls[t].now ELSE lastSweep
    BY <1>2 DEF TakeMutex
  <2>3. /\ calls'[t].pc = "sweeping" /\ calls'[t].now = calls[t].now
        /\ calls'[t].key = calls[t].key /\ calls[t].now \in Nat
        /\ \A u \in Threads \ {t} : calls'[u] = calls[u]
    BY <2>1, <2>2 DEF TypeOK
  <2>4. HolderSweeps'
    BY <2>2, <2>3 DEF HolderSweeps
  <2>5. calls[t] # Idle
    BY <2>1 DEF Idle
  <2>6. CallsInWindow'
    BY <2>3, <2>5 DEF CallsInWindow
  <2>7. SweepIsLatest'
    <3>1. lastSweep \in Nat /\ calls[t].now \in Nat
      BY <2>3 DEF TypeOK
    <3>2. ~staleBegin' => ~(calls[t].now < lastSweep)
      BY <2>2
    <3>3. /\ calls'[t].now <= lastSweep'
          /\ ~staleBegin' => calls'[t].now = lastSweep'
      BY <2>2, <2>3, <3>1, <3>2
    <3>4. QED
      BY <2>2, <3>3 DEF SweepIsLatest
  <2>8. QED
    BY <2>4, <2>6, <2>7
<1>3. ASSUME NEW t \in Threads, BeginKnown(t) \/ BeginBusy(t) \/ BeginAccepted(t)
      PROVE  Goal
  <2>1. holder = t /\ Return(t)
    BY <1>3 DEF BeginKnown, SamePayload, BeginBusy, TombstonesFull, BeginAccepted, SweepDone
  <2>2. /\ calls' = [calls EXCEPT ![t] = Idle] /\ holder' = NoThread
        /\ UNCHANGED <<lastSweep, staleBegin>>
    BY <2>1 DEF Return
  <2>3. HolderSweeps'
    BY <2>1, <2>2 DEF TypeOK, HolderSweeps, Idle
  <2>4. CallsInWindow' /\ SweepIsLatest'
    BY <2>2 DEF TypeOK, CallsInWindow, SweepIsLatest
  <2>5. QED
    BY <2>3, <2>4
<1>4. CASE \E t \in Threads, k \in Keys : RemoveExpired(t, k)
  BY <1>0, <1>4 DEF RemoveExpired
<1>5. CASE Tick \/ SetBack \/ UNCHANGED vars
  BY <1>0, <1>5 DEF Tick, SetBack, vars
<1>6. CASE \E n \in 1..Len(entries) : TokenStep(n)
  BY <1>0, <1>6 DEF TokenStep, MarkExecuting, CompleteUncached, CompleteCached,
                    CompleteEvicting, CompleteCommon, WaitCompleted, WaitTimedOut
<1>7. CASE \E t \in Threads, k \in Keys : BeginExpired(t, k)
  BY <1>0, <1>7 DEF BeginExpired, vars
<1>8. QED
  BY <1>1, <1>2, <1>3, <1>4, <1>5, <1>6, <1>7 DEF Next, BeginStep

-----------------------------------------------------------------------------
(* The entries and the map. *)

\* What any step may do to an entry that exists: its key, payload and expiry never change, a result
\* is final, and a full response can only be dropped.
LEMMA EntryStep ==
    ASSUME TypeOK, [Next]_vars, NEW n \in 1..Len(entries)
    PROVE  /\ n \in 1..Len(entries')
           /\ entries'[n].key = entries[n].key
           /\ entries'[n].hash = entries[n].hash
           /\ entries'[n].expires_at = entries[n].expires_at
           /\ entries'[n].is_cached => entries[n].is_cached \/ entries'[n].state = "completed"
           /\ entries[n].state = "completed" =>
                 /\ entries'[n].state = "completed"
                 /\ entries'[n].answer = entries[n].answer
                 /\ entries'[n].response_json \in {entries[n].response_json, NoAnswer}
<1> DEFINE Goal ==
       /\ n \in 1..Len(entries')
       /\ entries'[n].key = entries[n].key
       /\ entries'[n].hash = entries[n].hash
       /\ entries'[n].expires_at = entries[n].expires_at
       /\ entries'[n].is_cached => entries[n].is_cached \/ entries'[n].state = "completed"
       /\ entries[n].state = "completed" =>
             /\ entries'[n].state = "completed"
             /\ entries'[n].answer = entries[n].answer
             /\ entries'[n].response_json \in {entries[n].response_json, NoAnswer}
<1>0. entries[n] \in Entry /\ Len(entries) \in Nat
  BY LenProperties DEF TypeOK
<1>1. CASE UNCHANGED entries
  BY <1>1
<1>2. ASSUME NEW t \in Threads, BeginAccepted(t)
      PROVE  Goal
  <2>1. entries' = Append(entries, NewEntry(calls[t].key, calls[t].hash))
    BY <1>2 DEF BeginAccepted, TombstonesFull
  <2>2. Len(entries') = Len(entries) + 1 /\ entries'[n] = entries[n]
    BY <1>0, <2>1 DEF TypeOK
  <2>3. QED
    BY <1>0, <2>2
<1>3. ASSUME NEW m \in 1..Len(entries), MarkExecuting(m)
      PROVE  Goal
  <2>1. /\ entries' = [entries EXCEPT ![m] = [entries[m] EXCEPT !.state = "executing"]]
        /\ entries[m].state = "queued"
    BY <1>3 DEF MarkExecuting
  <2>2. Len(entries') = Len(entries)
    BY <2>1 DEF TypeOK
  <2>3. CASE m = n
    BY <1>0, <2>1, <2>2, <2>3 DEF TypeOK, Entry
  <2>4. CASE m # n
    BY <1>0, <2>1, <2>2, <2>4 DEF TypeOK
  <2>5. QED
    BY <2>3, <2>4
<1>4. ASSUME NEW m \in 1..Len(entries), NEW a \in Answers,
             CompleteUncached(m, a) \/ CompleteCached(m, a) \/ CompleteEvicting(m, a)
      PROVE  Goal
  <2> DEFINE e == entries[n]
             done == IF n = m THEN Completed(e, a) ELSE e
             held == IF n = m THEN Cached(done, a) ELSE e
  <2>1. /\ entries'[n] \in {done, held, Evicted(held)}
        /\ Len(entries') = Len(entries)
        /\ e.state = "completed" => n # m
    BY <1>4, CompleteEntries
  <2>2. CASE n = m
    <3>1. e.state # "completed"
      BY <2>1, <2>2
    <3>2. /\ done \in Entry /\ done.state = "completed"
          /\ done.key = e.key /\ done.hash = e.hash /\ done.expires_at = e.expires_at
      BY <1>0, <2>2 DEF Entry, Completed
    <3>3. \A x \in Entry :
             /\ Cached(x, a) \in Entry /\ Cached(x, a).state = x.state
             /\ Cached(x, a).key = x.key /\ Cached(x, a).hash = x.hash
             /\ Cached(x, a).expires_at = x.expires_at
      BY DEF Entry, Cached
    <3>4. \A x \in Entry :
             /\ Evicted(x).state = x.state /\ Evicted(x).key = x.key
             /\ Evicted(x).hash = x.hash /\ Evicted(x).expires_at = x.expires_at
      BY DEF Entry, Evicted
    <3>5. held = Cached(done, a)
      BY <2>2
    <3> HIDE DEF done, held
    <3>6. /\ held \in Entry /\ held.state = "completed"
          /\ held.key = e.key /\ held.hash = e.hash /\ held.expires_at = e.expires_at
      BY <3>2, <3>3, <3>5
    <3>7. \A x \in {done, held, Evicted(held)} :
             /\ x.key = e.key /\ x.hash = e.hash /\ x.expires_at = e.expires_at
             /\ x.state = "completed"
      BY <3>2, <3>4, <3>6
    <3>8. QED
      BY <1>0, <2>1, <3>1, <3>7
  <2>3. CASE n # m
    <3>1. entries'[n] \in {e, Evicted(e)}
      BY <2>1, <2>3
    <3>2. QED
      BY <1>0, <2>1, <3>1 DEF Entry, Evicted
  <2>4. QED
    BY <2>2, <2>3
<1>5. QED
  BY <1>1, <1>2, <1>3, <1>4
  DEF Next, BeginStep, TokenStep, Tick, SetBack, BeginExpired, ReadClock, TakeMutex, RemoveExpired,
      BeginKnown, SamePayload, BeginBusy, TombstonesFull, WaitCompleted, WaitTimedOut, vars

\* Every step but the removal of an expired tombstone and the acceptance of a new key keeps the map.
LEMMA MapUnchanged ==
    ASSUME TypeOK, [Next]_vars
    PROVE  \/ tombstones' = tombstones /\ Len(entries') = Len(entries)
           \/ \E t \in Threads, k \in Keys : RemoveExpired(t, k)
           \/ \E t \in Threads : BeginAccepted(t)
<1>1. CASE \E m \in 1..Len(entries), a \in Answers :
              CompleteUncached(m, a) \/ CompleteCached(m, a) \/ CompleteEvicting(m, a)
  <2>1. tombstones' = tombstones
    BY <1>1 DEF CompleteUncached, CompleteCached, CompleteEvicting, CompleteCommon
  <2>2. QED
    BY <1>1, <2>1, CompleteEntries
<1>2. CASE \E m \in 1..Len(entries) : MarkExecuting(m)
  BY <1>2 DEF MarkExecuting, TypeOK
<1>3. QED
  BY <1>1, <1>2
  DEF Next, BeginStep, TokenStep, Tick, SetBack, BeginExpired, ReadClock, TakeMutex,
      BeginKnown, SamePayload, BeginBusy, TombstonesFull, WaitCompleted, WaitTimedOut, vars

\* The map keeps filing entries under their own keys, every entry in flight stays in it, and an
\* entry leaves it only when it had expired by the reading of the thread that removes it.
LEMMA MapStep ==
    ASSUME IInv, [Next]_vars
    PROVE  /\ MapAgrees' /\ InFlightReachable' /\ RemovedWereExpired'
           /\ AtMostOnceUnlessStale' /\ TombstonesBounded' /\ CachedAreCompleted'
<1> USE StoreAssumption
<1> DEFINE Goal == /\ MapAgrees' /\ InFlightReachable' /\ RemovedWereExpired'
                   /\ AtMostOnceUnlessStale' /\ TombstonesBounded' /\ CachedAreCompleted'
<1>0. /\ Len(entries) \in Nat
      /\ \A n \in 1..Len(entries) : entries[n] \in Entry
      /\ TypeOK
  BY LenProperties DEF IInv, TypeOK
<1>1. /\ lastSweep \in Nat /\ lastSweep' \in Nat
      /\ lastSweep <= lastSweep' /\ (staleBegin => staleBegin')
  <2>1. CASE UNCHANGED <<lastSweep, staleBegin>>
    BY <1>0, <2>1 DEF TypeOK
  <2>2. ASSUME NEW t \in Threads, TakeMutex(t)
        PROVE  /\ lastSweep \in Nat /\ lastSweep' \in Nat
               /\ lastSweep <= lastSweep' /\ (staleBegin => staleBegin')
    <3>1. calls[t].now \in Nat
      BY <1>0, <2>2 DEF TypeOK, TakeMutex, Call, Idle
    <3>2. QED
      BY <1>0, <2>2, <3>1 DEF TypeOK, TakeMutex
  <2>3. QED
    BY <2>1, <2>2
    DEF Next, BeginStep, TokenStep, Tick, SetBack, BeginExpired, ReadClock, RemoveExpired,
        BeginKnown, SamePayload, BeginBusy, TombstonesFull, BeginAccepted, Return, MarkExecuting, CompleteUncached,
        CompleteCached, CompleteEvicting, CompleteCommon, WaitCompleted, WaitTimedOut, vars
<1>2. CASE tombstones' = tombstones /\ Len(entries') = Len(entries)
  <2>1. \A n \in 1..Len(entries) :
           /\ entries'[n].key = entries[n].key
           /\ entries'[n].expires_at = entries[n].expires_at
           /\ entries'[n].is_cached => entries[n].is_cached \/ entries'[n].state = "completed"
           /\ entries[n].state = "completed" => entries'[n].state = "completed"
    BY <1>0, EntryStep
  <2>2. MapAgrees'
    BY <1>0, <1>2, <2>1 DEF IInv, MapAgrees, TypeOK
  <2>3. InFlightReachable'
    BY <1>0, <1>2, <2>1 DEF IInv, InFlightReachable
  <2>4. RemovedWereExpired'
    <3>1. \A n \in 1..Len(entries) :
             entries[n].expires_at < lastSweep => entries[n].expires_at < lastSweep'
      <4>1. \A n \in 1..Len(entries) : entries[n].expires_at \in Nat
        BY <1>0 DEF Entry
      <4>2. QED
        BY <1>1, <4>1
    <3>2. QED
      BY <1>2, <2>1, <3>1 DEF IInv, RemovedWereExpired, Live
  <2>5. AtMostOnceUnlessStale'
    BY <1>0, <1>1, <1>2, <2>1 DEF IInv, AtMostOnceUnlessStale, AtMostOnce
  <2>6. TombstonesBounded'
    BY <1>2 DEF IInv, TombstonesBounded
  <2>7. CachedAreCompleted'
    BY <1>0, <1>2, <2>1 DEF IInv, CachedAreCompleted
  <2>8. QED
    BY <2>2, <2>3, <2>4, <2>5, <2>6, <2>7
<1>3. ASSUME NEW t \in Threads, NEW k \in Keys, RemoveExpired(t, k)
      PROVE  Goal
  <2> DEFINE i == tombstones[k]
  <2>1. /\ entries' = entries /\ lastSweep' = lastSweep /\ staleBegin' = staleBegin
        /\ tombstones' = [x \in DOMAIN tombstones \ {k} |-> tombstones[x]]
        /\ k \in DOMAIN tombstones /\ i \in 1..Len(entries)
        /\ entries[i].state = "completed" /\ calls[t].now > entries[i].expires_at
        /\ holder = t
    BY <1>0, <1>3 DEF RemoveExpired, Expired, TypeOK
  <2>2. calls[t].now \in Nat /\ calls[t].now <= lastSweep /\ lastSweep \in Nat
    BY <1>0, <2>1, SweepingCall DEF IInv, SweepIsLatest, TypeOK
  <2>3. MapAgrees'
    BY <2>1 DEF IInv, MapAgrees
  <2>4. InFlightReachable'
    BY <2>1 DEF IInv, InFlightReachable
  <2>5. RemovedWereExpired'
    <3>1. entries[i].expires_at \in Nat
      BY <1>0, <2>1 DEF Entry
    <3>2. entries[i].expires_at < lastSweep
      BY <2>1, <2>2, <3>1
    <3>3. QED
      BY <2>1, <3>2 DEF IInv, RemovedWereExpired, Live
  <2>6. AtMostOnceUnlessStale' /\ CachedAreCompleted'
    BY <2>1 DEF IInv, AtMostOnceUnlessStale, AtMostOnce, CachedAreCompleted
  <2>7. TombstonesBounded'
    <3>1. IsFiniteSet(DOMAIN tombstones)
      BY <1>0, FS_Subset DEF TypeOK
    <3>2. DOMAIN tombstones' = DOMAIN tombstones \ {k}
      BY <2>1
    <3>3. Cardinality(DOMAIN tombstones) \in Nat
      BY <3>1, FS_CardinalityType
    <3>4. Cardinality(DOMAIN tombstones \ {k}) = Cardinality(DOMAIN tombstones) - 1
      BY <2>1, <3>1, FS_RemoveElement
    <3>5. QED
      BY <3>2, <3>3, <3>4 DEF IInv, TombstonesBounded
  <2>8. QED
    BY <2>3, <2>4, <2>5, <2>6, <2>7
<1>4. ASSUME NEW t \in Threads, BeginAccepted(t)
      PROVE  Goal
  <2> DEFINE k == calls[t].key
             e == NewEntry(k, calls[t].hash)
             n == Len(entries) + 1
  <2>1. /\ lastSweep' = lastSweep /\ staleBegin' = staleBegin /\ holder = t
        /\ entries' = Append(entries, e) /\ k \notin DOMAIN tombstones
        /\ tombstones' = [x \in DOMAIN tombstones \cup {k} |-> IF x = k THEN n ELSE tombstones[x]]
        /\ Cardinality(DOMAIN tombstones) < MaxTombstones
    <3> HIDE DEF e
    <3>1. ~TombstonesFull
      BY <1>4 DEF BeginAccepted
    <3>2. Cardinality(DOMAIN tombstones) < MaxTombstones
      <4>1. IsFiniteSet(DOMAIN tombstones)
        BY <1>0, FS_Subset DEF StoreAssumption, TypeOK
      <4>2. Cardinality(DOMAIN tombstones) \in Nat
        BY <4>1, FS_CardinalityType
      <4>3. QED
        BY <3>1, <4>2 DEF StoreAssumption, TombstonesFull
    <3>3. lastSweep' = lastSweep /\ staleBegin' = staleBegin /\ holder = t
      BY <1>4 DEF BeginAccepted, SweepDone, Return
    <3>4. /\ entries' = Append(entries, e) /\ k \notin DOMAIN tombstones
          /\ tombstones' = [x \in DOMAIN tombstones \cup {k} |-> IF x = k THEN n ELSE tombstones[x]]
      BY <1>4 DEF BeginAccepted, e
    <3>5. QED
      BY <3>2, <3>3, <3>4
  <2>2. calls[t] \in [pc : {"waiting", "sweeping"}, key : Keys, hash : Hashes, now : Nat]
    BY <1>0, <2>1, SweepingCall DEF IInv
  <2>3. /\ e.key = k /\ e.state = "queued" /\ e.is_cached = FALSE
        /\ e.expires_at = ReqTime[k] + MaxAge
    BY DEF NewEntry
  <2> HIDE DEF e
  <2>4. /\ Len(entries') = n /\ entries'[n] = e
        /\ \A m \in 1..Len(entries) : entries'[m] = entries[m]
    BY <1>0, <2>1 DEF TypeOK
  <2>5. DOMAIN tombstones' = DOMAIN tombstones \cup {k}
    BY <2>1
  <2>6. MapAgrees'
    <3>1. ASSUME NEW x \in DOMAIN tombstones'
          PROVE  entries'[tombstones'[x]].key = x
      <4>1. CASE x = k
        BY <2>1, <2>3, <2>4, <2>5, <4>1
      <4>2. CASE x # k
        <5>1. /\ x \in DOMAIN tombstones /\ tombstones'[x] = tombstones[x]
              /\ tombstones[x] \in 1..Len(entries)
          BY <1>0, <2>1, <2>5, <3>1, <4>2 DEF TypeOK
        <5>2. QED
          BY <2>4, <5>1 DEF IInv, MapAgrees
      <4>3. QED
        BY <4>1, <4>2
    <3>2. ASSUME NEW m \in 1..Len(entries')
          PROVE  entries'[m].expires_at = ReqTime[entries'[m].key] + MaxAge
      <4>1. CASE m = n
        BY <2>3, <2>4, <4>1
      <4>2. CASE m # n
        BY <1>0, <2>4, <3>2, <4>2 DEF IInv, MapAgrees
      <4>3. QED
        BY <4>1, <4>2
    <3>3. QED
      BY <3>1, <3>2 DEF MapAgrees
  <2>7. InFlightReachable'
    BY <1>0, <2>1, <2>3, <2>4 DEF IInv, InFlightReachable
  <2>8. RemovedWereExpired'
    BY <1>0, <2>1, <2>3, <2>4 DEF IInv, RemovedWereExpired, Live
  <2>9. AtMostOnceUnlessStale'
    <3>1. ASSUME ~staleBegin, NEW m \in 1..Len(entries), entries[m].key = k
          PROVE  FALSE
      <4>1. entries[m].expires_at < lastSweep
        BY <2>1, <3>1 DEF IInv, RemovedWereExpired, Live
      <4>2. entries[m].expires_at = ReqTime[k] + MaxAge
        BY <3>1 DEF IInv, MapAgrees
      <4>3. calls[t].now = lastSweep
        BY <2>1, <3>1 DEF IInv, SweepIsLatest
      <4>4. calls[t].now <= ReqTime[k] + MaxAge
        BY <2>2 DEF IInv, CallsInWindow, Idle
      <4>5. ReqTime[k] + MaxAge \in Nat /\ lastSweep \in Nat
        BY <1>0, <2>2 DEF TypeOK
      <4>6. QED
        BY <4>1, <4>2, <4>3, <4>4, <4>5
    <3>2. QED
      BY <1>0, <2>1, <2>3, <2>4, <3>1 DEF IInv, AtMostOnceUnlessStale, AtMostOnce
  <2>10. TombstonesBounded'
    <3>1. IsFiniteSet(DOMAIN tombstones)
      BY <1>0, FS_Subset DEF TypeOK
    <3>2. Cardinality(DOMAIN tombstones') = Cardinality(DOMAIN tombstones) + 1
      BY <2>1, <2>5, <3>1, FS_AddElement
    <3>3. QED
      BY <2>1, <3>1, <3>2, FS_CardinalityType DEF TombstonesBounded
  <2>11. CachedAreCompleted'
    BY <1>0, <2>3, <2>4 DEF IInv, CachedAreCompleted
  <2>12. QED
    BY <2>6, <2>7, <2>8, <2>9, <2>10, <2>11
<1>5. QED
  BY <1>0, <1>2, <1>3, <1>4, MapUnchanged

-----------------------------------------------------------------------------
(* The response LRU, seen as a list without repetitions and the set of keys it lists. *)

NoRepeats(s) == \A i, j \in 1..Len(s) : s[i] = s[j] => i = j
Listed(s) == {s[i] : i \in 1..Len(s)}
CachedKeys == {k \in DOMAIN tombstones : entries[tombstones[k]].is_cached}

\* The list names exactly the live entries that hold a response.
LruForm ==
    /\ NoRepeats(response_lru)
    /\ Listed(response_lru) = CachedKeys
    /\ \A n \in 1..Len(entries) :
          entries[n].is_cached <=> entries[n].response_json # NoAnswer
    /\ Len(response_lru) <= MaxCached

\* LruForm and its primed form say the same as LruConsistent.
LEMMA LruForms ==
    /\ LruConsistent => LruForm
    /\ LruForm' => LruConsistent'
<1>1. LruConsistent => LruForm
  BY DEF LruConsistent, LruForm, NoRepeats, Listed, CachedKeys
<1>2. LruForm' => LruConsistent'
  <2>1. SUFFICES ASSUME LruForm' PROVE LruConsistent'
    OBVIOUS
  <2>2. \A i \in 1..Len(response_lru') : response_lru'[i] \in CachedKeys'
    BY <2>1 DEF LruForm, Listed
  <2>3. \A k \in CachedKeys' : \E i \in 1..Len(response_lru') : response_lru'[i] = k
    BY <2>1 DEF LruForm, Listed
  <2>4. QED
    BY <2>1, <2>2, <2>3 DEF LruConsistent, LruForm, NoRepeats, CachedKeys
<1>3. QED
  BY <1>1, <1>2

\* Erasing one position of a list without repetitions takes exactly that element off the list.
LEMMA RemoveListed ==
    ASSUME NEW S, NEW s \in Seq(S), NEW i \in 1..Len(s), NoRepeats(s)
    PROVE  /\ NoRepeats(RemoveAt(s, i))
           /\ Listed(RemoveAt(s, i)) = Listed(s) \ {s[i]}
           /\ Len(RemoveAt(s, i)) = Len(s) - 1
<1> DEFINE r == RemoveAt(s, i)
<1>1. /\ Len(r) = Len(s) - 1 /\ Len(s) \in Nat
      /\ \A j \in 1..Len(s) - 1 : r[j] = IF j < i THEN s[j] ELSE s[j + 1]
  BY RemoveAtType, LenProperties
<1> HIDE DEF r
<1>2. NoRepeats(r)
  BY <1>1 DEF NoRepeats
<1>3. Listed(r) \subseteq Listed(s) \ {s[i]}
  BY <1>1 DEF NoRepeats, Listed
<1>4. ASSUME NEW j \in 1..Len(s), s[j] # s[i]
      PROVE  s[j] \in Listed(r)
  <2>1. CASE j < i
    BY <1>1, <2>1 DEF Listed
  <2>2. CASE j > i
    <3>1. j - 1 \in 1..Len(r) /\ r[j - 1] = s[j]
      BY <1>1, <2>2
    <3>2. QED
      BY <3>1 DEF Listed
  <2>3. QED
    BY <1>1, <1>4, <2>1, <2>2
<1>5. QED
  BY <1>1, <1>2, <1>3, <1>4 DEF r, Listed

\* Pushing a key that is not listed adds exactly that key.
LEMMA PushListed ==
    ASSUME NEW S, NEW s \in Seq(S), NEW k \in S, NoRepeats(s), k \notin Listed(s)
    PROVE  /\ NoRepeats(<<k>> \o s)
           /\ Listed(<<k>> \o s) = Listed(s) \cup {k}
           /\ Len(<<k>> \o s) = Len(s) + 1
<1> DEFINE r == <<k>> \o s
<1>1. /\ Len(r) = Len(s) + 1 /\ Len(s) \in Nat /\ r[1] = k
      /\ \A j \in 2..Len(s) + 1 : r[j] = s[j - 1]
  BY PushFrontType, LenProperties
<1> HIDE DEF r
<1>2. NoRepeats(r)
  <2>1. \A j \in 2..Len(s) + 1 : r[j] # k
    BY <1>1 DEF Listed
  <2>2. QED
    BY <1>1, <2>1 DEF NoRepeats
<1>3. Listed(r) \subseteq Listed(s) \cup {k}
  BY <1>1 DEF Listed
<1>4. ASSUME NEW j \in 1..Len(s)
      PROVE  s[j] \in Listed(r)
  <2>1. j + 1 \in 1..Len(r) /\ r[j + 1] = s[j]
    BY <1>1
  <2>2. QED
    BY <2>1 DEF Listed
<1>5. k \in Listed(r)
  BY <1>1 DEF Listed
<1>6. Listed(r) = Listed(s) \cup {k}
  <2>1. Listed(s) \subseteq Listed(r)
    BY <1>4 DEF Listed
  <2>2. QED
    BY <1>3, <1>5, <2>1
<1>7. QED
  BY <1>1, <1>2, <1>6 DEF r

\* Popping the back takes exactly the last element off the list.
LEMMA PopListed ==
    ASSUME NEW S, NEW s \in Seq(S), NoRepeats(s), Len(s) > 0
    PROVE  /\ NoRepeats(SubSeq(s, 1, Len(s) - 1))
           /\ Listed(SubSeq(s, 1, Len(s) - 1)) = Listed(s) \ {Last(s)}
           /\ Len(SubSeq(s, 1, Len(s) - 1)) = Len(s) - 1
           /\ Last(s) \in Listed(s)
<1> DEFINE r == SubSeq(s, 1, Len(s) - 1)
<1>0. Len(s) \in Nat
  BY LenProperties
<1>1. /\ Len(r) = Len(s) - 1
      /\ \A j \in 1..Len(s) - 1 : r[j] = s[j]
  <2>1. /\ 1 \in Int /\ Len(s) - 1 \in Int
        /\ \A i \in 1..Len(s) - 1 : s[i] \in S
    BY <1>0, ElementOfSeq
  <2>2. /\ Len(r) = IF 1 <= Len(s) - 1 THEN Len(s) - 1 - 1 + 1 ELSE 0
        /\ \A j \in 1..Len(s) - 1 - 1 + 1 : r[j] = s[1 + j - 1]
    BY <2>1, SubSeqProperties
  <2>3. Len(r) = Len(s) - 1
    BY <1>0, <2>2
  <2>4. ASSUME NEW j \in 1..Len(s) - 1
        PROVE  r[j] = s[j]
    <3>1. j \in 1..Len(s) - 1 - 1 + 1 /\ 1 + j - 1 = j
      BY <1>0
    <3>2. QED
      BY <2>2, <3>1
  <2>5. QED
    BY <2>3, <2>4
<1> HIDE DEF r
<1>2. NoRepeats(r)
  BY <1>0, <1>1 DEF NoRepeats
<1>3. Listed(r) \subseteq Listed(s) \ {Last(s)}
  BY <1>0, <1>1 DEF NoRepeats, Listed, Last
<1>4. ASSUME NEW j \in 1..Len(s), s[j] # Last(s)
      PROVE  s[j] \in Listed(r)
  BY <1>0, <1>1, <1>4 DEF Listed, Last
<1>5. QED
  BY <1>0, <1>1, <1>2, <1>3, <1>4 DEF r, Listed, Last

\* Every step keeps the list and the is_cached members in agreement.
LEMMA LruStep ==
    ASSUME IInv, [Next]_vars
    PROVE  LruConsistent'
<1> USE StoreAssumption
<1>0. /\ TypeOK /\ LruForm /\ MapAgrees /\ InFlightReachable /\ CachedAreCompleted
      /\ response_lru \in Seq(Keys) /\ Len(response_lru) \in Nat /\ Len(entries) \in Nat
      /\ \A n \in 1..Len(entries) : entries[n] \in Entry
  BY LruForms, LenProperties DEF IInv, TypeOK
<1>1. SUFFICES LruForm'
  BY LruForms
<1>2. CASE UNCHANGED <<entries, tombstones, response_lru>>
  BY <1>0, <1>2 DEF LruForm, NoRepeats, Listed, CachedKeys
<1>3. ASSUME NEW m \in 1..Len(entries), MarkExecuting(m)
      PROVE  LruForm'
  <2>1. /\ entries' = [entries EXCEPT ![m] = [entries[m] EXCEPT !.state = "executing"]]
        /\ tombstones' = tombstones /\ response_lru' = response_lru
    BY <1>3 DEF MarkExecuting
  <2>2. /\ Len(entries') = Len(entries)
        /\ \A n \in 1..Len(entries) : /\ entries'[n].is_cached = entries[n].is_cached
                                      /\ entries'[n].response_json = entries[n].response_json
    <3>1. Len(entries') = Len(entries)
      BY <1>0, <2>1 DEF TypeOK
    <3>2. /\ entries'[m].is_cached = entries[m].is_cached
          /\ entries'[m].response_json = entries[m].response_json
      BY <1>0, <2>1 DEF TypeOK, Entry
    <3>3. \A n \in 1..Len(entries) : n # m => entries'[n] = entries[n]
      BY <1>0, <2>1 DEF TypeOK
    <3>4. QED
      BY <3>1, <3>2, <3>3
  <2>3. CachedKeys' = CachedKeys
    BY <1>0, <2>1, <2>2 DEF TypeOK, CachedKeys
  <2>4. QED
    BY <1>0, <2>1, <2>2, <2>3 DEF LruForm, NoRepeats, Listed
<1>4. ASSUME NEW t \in Threads, NEW k \in Keys, RemoveExpired(t, k)
      PROVE  LruForm'
  <2> DEFINE i == CachePosition(k)
  <2>1. /\ entries' = entries /\ k \in DOMAIN tombstones
        /\ tombstones' = [x \in DOMAIN tombstones \ {k} |-> tombstones[x]]
        /\ response_lru' = IF entries[tombstones[k]].is_cached
                           THEN RemoveAt(response_lru, i) ELSE response_lru
    BY <1>4 DEF RemoveExpired, Uncached
  <2>2. CachedKeys' = CachedKeys \ {k}
    BY <2>1 DEF CachedKeys
  <2>3. CASE entries[tombstones[k]].is_cached
    <3>1. k \in Listed(response_lru)
      BY <1>0, <2>1, <2>3 DEF LruForm, CachedKeys
    <3>2. i \in 1..Len(response_lru) /\ response_lru[i] = k
      BY <3>1, CachePositionExists DEF Listed
    <3> HIDE DEF i
    <3>3. /\ NoRepeats(response_lru') /\ Listed(response_lru') = Listed(response_lru) \ {k}
          /\ Len(response_lru') = Len(response_lru) - 1
      BY <1>0, <2>1, <2>3, <3>2, RemoveListed DEF LruForm
    <3>4. Listed(response_lru') = CachedKeys' /\ Len(response_lru') <= MaxCached
      BY <1>0, <2>2, <3>3 DEF LruForm
    <3>5. QED
      BY <1>0, <2>1, <3>3, <3>4 DEF LruForm
  <2>4. CASE ~entries[tombstones[k]].is_cached
    <3>1. CachedKeys' = CachedKeys
      BY <2>2, <2>4 DEF CachedKeys
    <3>2. QED
      BY <1>0, <2>1, <2>4, <3>1 DEF LruForm, NoRepeats, Listed
  <2>5. QED
    BY <2>3, <2>4
<1>5. ASSUME NEW t \in Threads, BeginKnown(t)
      PROVE  LruForm'
  <2> DEFINE k == calls[t].key
             i == CachePosition(k)
             rest == RemoveAt(response_lru, i)
  <2>1. /\ entries' = entries /\ tombstones' = tombstones /\ k \in DOMAIN tombstones
        /\ \/ response_lru' = response_lru
           \/ /\ entries[tombstones[k]].is_cached
              /\ response_lru' = <<k>> \o rest
    BY <1>5 DEF BeginKnown, SamePayload, Uncached
  <2>2. CachedKeys' = CachedKeys
    BY <2>1 DEF CachedKeys
  <2>3. CASE response_lru' = response_lru
    BY <1>0, <2>1, <2>2, <2>3 DEF LruForm, NoRepeats, Listed
  <2>4. CASE entries[tombstones[k]].is_cached /\ response_lru' = <<k>> \o rest
    <3>0. k \in Keys
      BY <1>0, <2>1 DEF TypeOK
    <3>1. k \in Listed(response_lru)
      BY <1>0, <2>1, <2>4 DEF LruForm, CachedKeys
    <3>2. i \in 1..Len(response_lru) /\ response_lru[i] = k
      BY <3>1, CachePositionExists DEF Listed
    <3> HIDE DEF i
    <3>3. /\ NoRepeats(rest) /\ Listed(rest) = Listed(response_lru) \ {k}
          /\ Len(rest) = Len(response_lru) - 1 /\ rest \in Seq(Keys)
      BY SMTT(30), <1>0, <3>2, RemoveListed, RemoveAtType DEF LruForm
    <3> HIDE DEF rest, k
    <3>4. /\ NoRepeats(response_lru')
          /\ Listed(response_lru') = Listed(rest) \cup {k}
          /\ Len(response_lru') = Len(rest) + 1
      BY <2>4, <3>0, <3>3, PushListed
    <3>5. Listed(response_lru') = Listed(response_lru) /\ Len(response_lru') = Len(response_lru)
      BY <1>0, <3>1, <3>3, <3>4
    <3>6. QED
      BY <1>0, <2>1, <2>2, <3>4, <3>5 DEF LruForm, NoRepeats, Listed
  <2>5. QED
    BY <2>1, <2>3, <2>4
<1>6. ASSUME NEW t \in Threads, BeginAccepted(t)
      PROVE  LruForm'
  <2> DEFINE k == calls[t].key
             e == NewEntry(k, calls[t].hash)
             n == Len(entries) + 1
  <2>1. /\ entries' = Append(entries, e) /\ k \notin DOMAIN tombstones
        /\ tombstones' = [x \in DOMAIN tombstones \cup {k} |-> IF x = k THEN n ELSE tombstones[x]]
        /\ response_lru' = response_lru
    BY <1>6 DEF BeginAccepted, TombstonesFull
  <2>2. e.is_cached = FALSE /\ e.response_json = NoAnswer
    BY DEF NewEntry
  <2> HIDE DEF e
  <2>3. /\ Len(entries') = n /\ entries'[n] = e
        /\ \A m \in 1..Len(entries) : entries'[m] = entries[m]
    BY <1>0, <2>1 DEF TypeOK
  <2>4. /\ tombstones'[k] = n /\ DOMAIN tombstones' = DOMAIN tombstones \cup {k}
        /\ \A x \in DOMAIN tombstones : tombstones'[x] = tombstones[x]
    BY <2>1
  <2> HIDE DEF k
  <2>5. CachedKeys' = CachedKeys
    BY <1>0, <2>2, <2>3, <2>4 DEF TypeOK, CachedKeys
  <2>6. \A m \in 1..Len(entries') :
           entries'[m].is_cached <=> entries'[m].response_json # NoAnswer
    BY <1>0, <2>2, <2>3 DEF LruForm
  <2>7. QED
    BY <1>0, <2>1, <2>5, <2>6 DEF LruForm, NoRepeats, Listed
<1>7. ASSUME NEW m \in 1..Len(entries), NEW a \in Answers,
             CompleteUncached(m, a) \/ CompleteCached(m, a) \/ CompleteEvicting(m, a)
      PROVE  LruForm'
  <2> DEFINE k == entries[m].key
             done == Completed(entries[m], a)
             held == Cached(done, a)
             kept == [entries EXCEPT ![m] = held]
  <2>1. /\ entries[m].state # "completed" /\ tombstones' = tombstones
        /\ entries' \in Seq(Entry) /\ Len(entries') = Len(entries)
    BY <1>0, <1>7, CompleteEntries
    DEF CompleteUncached, CompleteCached, CompleteEvicting, CompleteCommon
  <2>2. /\ k \in Keys /\ k \in DOMAIN tombstones /\ tombstones[k] = m
        /\ ~entries[m].is_cached /\ entries[m].response_json = NoAnswer
    BY <1>0, <2>1 DEF InFlightReachable, CachedAreCompleted, LruForm, TypeOK
  <2>3. k \notin CachedKeys /\ k \notin Listed(response_lru)
    BY <1>0, <2>2 DEF LruForm, CachedKeys
  <2>4. \A x \in DOMAIN tombstones : x # k => tombstones[x] # m
    BY <1>0 DEF MapAgrees
  <2>5. /\ done.is_cached = FALSE /\ done.response_json = NoAnswer
        /\ held.is_cached = TRUE /\ held.response_json = a /\ a # NoAnswer
    BY <1>0, <2>2 DEF Completed, Cached, Entry
  <2>6. /\ Pushed(m) \in Seq(Keys) /\ NoRepeats(Pushed(m))
        /\ Listed(Pushed(m)) = Listed(response_lru) \cup {k}
        /\ Len(Pushed(m)) = Len(response_lru) + 1
    BY <1>0, <2>2, <2>3, PushListed, PushFrontType DEF LruForm, Pushed
  <2> HIDE DEF done, held
  <2>7. CASE CompleteUncached(m, a)
    <3>1. entries' = [entries EXCEPT ![m] = done] /\ response_lru' = response_lru
      BY <2>7 DEF CompleteUncached, done
    <3>2. \A n \in 1..Len(entries) : /\ entries'[n].is_cached = entries[n].is_cached
                                     /\ entries'[n].response_json = entries[n].response_json
      <4>1. entries'[m] = done /\ \A n \in 1..Len(entries) : n # m => entries'[n] = entries[n]
        BY <1>0, <3>1 DEF TypeOK
      <4>2. entries[m].is_cached \in BOOLEAN
        BY <1>0 DEF Entry
      <4>3. QED
        BY <2>2, <2>5, <4>1, <4>2
    <3>3. CachedKeys' = CachedKeys
      BY <1>0, <2>1, <3>2 DEF TypeOK, CachedKeys
    <3>4. QED
      BY <1>0, <2>1, <3>1, <3>2, <3>3 DEF LruForm
  <2>8. /\ kept \in Seq(Entry) /\ Len(kept) = Len(entries)
        /\ kept[m] = held /\ \A n \in 1..Len(entries) : n # m => kept[n] = entries[n]
    <3>1. held \in Entry
      BY <1>0 DEF done, held, Completed, Cached, Entry
    <3>2. QED
      BY <1>0, <3>1, EntryUpdate DEF TypeOK
  <2>9. CASE CompleteCached(m, a)
    <3>1. entries' = kept /\ response_lru' = Pushed(m) /\ Len(response_lru) < MaxCached
      BY <2>9 DEF CompleteCached, held, done
    <3>2. CachedKeys' = CachedKeys \cup {k}
      BY <1>0, <2>1, <2>2, <2>4, <2>5, <2>8, <3>1 DEF TypeOK, CachedKeys
    <3>3. \A n \in 1..Len(entries') :
             entries'[n].is_cached <=> entries'[n].response_json # NoAnswer
      BY <1>0, <2>1, <2>5, <2>8, <3>1 DEF LruForm
    <3>4. QED
      BY <1>0, <2>6, <3>1, <3>2, <3>3 DEF LruForm
  <2>10. CASE CompleteEvicting(m, a)
    <3> DEFINE x == Last(Pushed(m))
               i == tombstones[x]
    <3>1. /\ entries' = IF x \in DOMAIN tombstones
                        THEN [kept EXCEPT ![i] = Evicted(kept[i])] ELSE kept
          /\ response_lru' = SubSeq(Pushed(m), 1, Len(response_lru))
      BY <2>10 DEF CompleteEvicting, held, done
    <3>2. /\ NoRepeats(response_lru') /\ Listed(response_lru') = Listed(Pushed(m)) \ {x}
          /\ Len(response_lru') = Len(response_lru) /\ x \in Listed(Pushed(m))
      <4>1. Len(Pushed(m)) > 0 /\ Len(response_lru) = Len(Pushed(m)) - 1
        BY <1>0, <2>6
      <4>2. QED
        BY <2>6, <3>1, <4>1, PopListed
    <3> HIDE DEF x, kept
    <3>3. x \in CachedKeys \cup {k} /\ x \in DOMAIN tombstones /\ i \in 1..Len(entries)
      BY <1>0, <2>2, <2>6, <3>2 DEF LruForm, CachedKeys, TypeOK
    <3>4. /\ entries'[i] = Evicted(kept[i])
          /\ \A n \in 1..Len(entries) : n # i => entries'[n] = kept[n]
      BY <2>8, <3>1, <3>3
    <3>5. entries'[i].is_cached = FALSE /\ entries'[i].response_json = NoAnswer
      <4>1. kept[i] \in Entry
        BY <2>8, <3>3, ElementOfSeq
      <4>2. QED
        BY <3>4, <4>1 DEF Evicted, Entry
    <3>6. CachedKeys' = (CachedKeys \cup {k}) \ {x}
      <4>1. ASSUME NEW y \in DOMAIN tombstones
            PROVE  y \in CachedKeys' <=> y \in (CachedKeys \cup {k}) \ {x}
        <5>1. /\ tombstones[y] \in 1..Len(entries) /\ (y # x => tombstones[y] # i)
              /\ y \in CachedKeys' <=> entries'[tombstones[y]].is_cached
          BY <1>0, <2>1, <3>3, <4>1 DEF TypeOK, MapAgrees, CachedKeys
        <5>2. CASE y = x
          BY <3>5, <5>1, <5>2
        <5>3. CASE y # x /\ y = k
          BY <2>2, <2>5, <2>8, <3>4, <5>1, <5>3
        <5>4. CASE y # x /\ y # k
          BY <2>4, <2>8, <3>4, <5>1, <5>4 DEF CachedKeys
        <5>5. QED
          BY <5>2, <5>3, <5>4
      <4>2. CachedKeys' \subseteq DOMAIN tombstones /\ CachedKeys \subseteq DOMAIN tombstones
        BY <2>1 DEF CachedKeys
      <4>3. QED
        BY <2>2, <4>1, <4>2
    <3>7. ASSUME NEW n \in 1..Len(entries')
          PROVE  entries'[n].is_cached <=> entries'[n].response_json # NoAnswer
      <4>1. CASE n = i
        BY <3>5, <4>1
      <4>2. CASE n # i /\ n = m
        BY <2>1, <2>5, <2>8, <3>4, <4>2
      <4>3. CASE n # i /\ n # m
        BY <1>0, <2>1, <2>8, <3>4, <4>3 DEF LruForm
      <4>4. QED
        BY <4>1, <4>2, <4>3
    <3>8. QED
      BY <1>0, <2>6, <3>2, <3>6, <3>7 DEF LruForm
  <2>11. QED
    BY <1>7, <2>7, <2>9, <2>10
<1>8. QED
  BY <1>2, <1>3, <1>4, <1>5, <1>6, <1>7
  DEF Next, BeginStep, TokenStep, Tick, SetBack, BeginExpired, ReadClock, TakeMutex,
      BeginBusy, TombstonesFull, WaitCompleted, WaitTimedOut, Return, vars

-----------------------------------------------------------------------------
(* The theorems. *)

LEMMA InitIInv == Init => IInv
<1> SUFFICES ASSUME Init PROVE IInv
  OBVIOUS
<1> USE StoreAssumption
<1>1. TypeOK
  <2>1. DOMAIN tombstones = {} /\ tombstones \in [DOMAIN tombstones -> 1..Len(entries)]
    BY DEF Init
  <2>2. calls \in [Threads -> Call]
    BY DEF Init, Call
  <2>3. /\ entries \in Seq(Entry) /\ response_lru \in Seq(Keys)
        /\ attached \subseteq 1..Len(entries) /\ told \subseteq Keys \X Hashes \X Answers
    BY DEF Init
  <2>4. /\ clock \in Nat /\ adjustments \in Nat /\ holder \in Threads \cup {NoThread}
        /\ lastSweep \in Nat /\ staleBegin \in BOOLEAN
    BY DEF Init
  <2>5. QED
    BY <2>1, <2>2, <2>3, <2>4 DEF TypeOK
<1>2. HolderSweeps /\ CallsInWindow /\ SweepIsLatest
  BY DEF Init, HolderSweeps, CallsInWindow, SweepIsLatest, Idle
<1>3. /\ MapAgrees /\ CachedAreCompleted /\ InFlightReachable /\ RemovedWereExpired
      /\ AtMostOnceUnlessStale
  BY DEF Init, MapAgrees, CachedAreCompleted, InFlightReachable, RemovedWereExpired,
         AtMostOnceUnlessStale, AtMostOnce
<1>4. LruConsistent
  BY DEF Init, LruConsistent
<1>5. TombstonesBounded
  <2>1. DOMAIN tombstones = {}
    BY DEF Init
  <2>2. QED
    BY <2>1, FS_EmptySet DEF TombstonesBounded
<1>6. QED
  BY <1>1, <1>2, <1>3, <1>4, <1>5 DEF IInv

LEMMA NextIInv == IInv /\ [Next]_vars => IInv'
<1> SUFFICES ASSUME IInv, [Next]_vars PROVE IInv'
  OBVIOUS
<1>1. TypeOK'
  BY TypeStep DEF IInv
<1>2. HolderSweeps' /\ CallsInWindow' /\ SweepIsLatest'
  BY CallStep DEF IInv
<1>3. QED
  BY <1>1, <1>2, MapStep, LruStep DEF IInv

\* The inductive invariant holds throughout.
LEMMA Inductive == Spec => []IInv
BY InitIInv, NextIInv, PTL DEF Spec

\* The store's state stays well typed.
THEOREM TypeCorrect == Spec => []TypeOK
<1>1. IInv => TypeOK
  BY DEF IInv
<1>2. QED
  BY <1>1, Inductive, PTL

\* A request that is queued or executing stays in the tombstone map until it completes, whatever
\* the clock does: a resend of it always attaches.
THEOREM InFlightStaysReachable == Spec => []InFlightReachable
<1>1. IInv => InFlightReachable
  BY DEF IInv
<1>2. QED
  BY <1>1, Inductive, PTL

\* cache_position never dangles, and the response LRU stays inside its limit.
THEOREM LruStaysConsistent == Spec => []LruConsistent
<1>1. IInv => LruConsistent
  BY DEF IInv
<1>2. QED
  BY <1>1, Inductive, PTL

\* The tombstone table stays inside its limit.
THEOREM TombstonesStayBounded == Spec => []TombstonesBounded
<1>1. IInv => TombstonesBounded
  BY DEF IInv
<1>2. QED
  BY <1>1, Inductive, PTL

\* No key is taken up twice as long as every begin takes the mutex with a clock reading that is not
\* older than those already used: the order of the two steps of begin is all that can break it.
THEOREM OnceUnlessStale == Spec => []AtMostOnceUnlessStale
<1>1. IInv => AtMostOnceUnlessStale
  BY DEF IInv
<1>2. QED
  BY <1>1, Inductive, PTL

\* The result of a request is final, and an evicted response never comes back.
THEOREM FinalResults == Spec => ResultsAreFinal
<1> DEFINE A == \A n \in 1..Len(entries) :
          entries[n].state = "completed" =>
              /\ entries'[n].state = "completed"
              /\ entries'[n].answer = entries[n].answer
              /\ entries'[n].response_json \in {entries[n].response_json, NoAnswer}
<1>1. IInv /\ [Next]_vars => [A]_vars
  BY EntryStep DEF IInv
<1>2. [][Next]_vars /\ []IInv => [][A]_vars
  BY <1>1, PTL
<1>3. QED
  BY <1>2, Inductive DEF Spec, ResultsAreFinal
=============================================================================
