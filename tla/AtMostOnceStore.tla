-------------------------- MODULE AtMostOnceStore --------------------------
(***************************************************************************)
(* at_most_once_store (Bridge): the tombstone table of mutation requests   *)
(* and the LRU of their complete responses, shared by the session threads  *)
(* that call begin and the gate worker that calls mark_executing, complete *)
(* and wait_for_completion.                                                *)
(*                                                                         *)
(* begin reads the clock BEFORE it takes the mutex, so the reading and the *)
(* locked part are separate steps.  The loop of remove_expired runs with   *)
(* the mutex held, one tombstone per step.                                 *)
(***************************************************************************)
EXTENDS Integers, Sequences, FiniteSets, SequencesExt

CONSTANTS
    Keys,            \* mutation_key: (serverEpoch, clientInstanceId, requestId)
    ReqTime,         \* ReqTime[k]: the UUIDv7 timestamp inside the request id of k
    UuidV7,          \* the keys whose request id is a UUIDv7 at all
    Hashes,          \* payload SHA-256 values
    Answers,         \* outcome, revision, digest and response of an execution
    LargeAnswers,    \* the answers whose JSON exceeds maximum_response_bytes
    NoAnswer,        \* an absent response_json / a completion not yet reached
    Threads,         \* session threads
    NoThread,        \* the mutex is free
    MaxAge,          \* MAXIMUM_REQUEST_AGE
    FutureSkew,      \* MAXIMUM_FUTURE_SKEW
    MaxTombstones,   \* limits.maximum_tombstones
    MaxCached,       \* limits.maximum_cached_responses
    MaxClock,        \* bound: the clock stops here
    MaxAdjustments   \* bound: how often the system clock is set back

ASSUME StoreAssumption ==
    /\ IsFiniteSet(Keys)
    /\ ReqTime \in [Keys -> Nat]
    /\ LargeAnswers \subseteq Answers
    /\ NoAnswer \notin Answers
    /\ NoThread \notin Threads
    /\ MaxAge \in Nat /\ FutureSkew \in Nat
    /\ MaxTombstones \in Nat \ {0}
    /\ MaxCached \in Nat
    /\ MaxClock \in Nat /\ MaxAdjustments \in Nat

VARIABLES
    clock,         \* system_clock
    adjustments,   \* how often it was set back so far
    entries,       \* every mutation_entry ever allocated, in order; a token is an index
    tombstones,    \* the map from keys to entries (indices)
    response_lru,  \* keys, most recently used first
    calls,         \* calls[t]: the begin call thread t is in
    holder,        \* who holds the mutex across steps
    attached,      \* entries that somebody waits for
    told,          \* history: <<key, payload hash, response>> handed to a resend or a waiter
    lastSweep,     \* history: the latest clock reading the mutex was taken with
    staleBegin     \* history: some begin ran with an older reading than that

vars == <<clock, adjustments, entries, tombstones, response_lru, calls, holder,
          attached, told, lastSweep, staleBegin>>

Entry == [key : Keys, hash : Hashes, expires_at : Nat,
          state : {"queued", "executing", "completed"},
          answer : Answers \cup {NoAnswer},          \* outcome / revision / digest: kept
          response_json : Answers \cup {NoAnswer},   \* the full response: may be evicted
          is_cached : BOOLEAN]

Idle == [pc |-> "idle"]
Call == {Idle} \cup [pc : {"waiting", "sweeping"}, key : Keys, hash : Hashes, now : Nat]

Init ==
    /\ clock = 0 /\ adjustments = 0
    /\ entries = <<>>
    /\ tombstones = [k \in {} |-> 0]
    /\ response_lru = <<>>
    /\ calls = [t \in Threads |-> Idle]
    /\ holder = NoThread
    /\ attached = {} /\ told = {}
    /\ lastSweep = 0 /\ staleBegin = FALSE

-----------------------------------------------------------------------------
(* The clock. *)

Tick ==
    /\ clock < MaxClock
    /\ clock' = clock + 1
    /\ UNCHANGED <<adjustments, entries, tombstones, response_lru, calls, holder,
                   attached, told, lastSweep, staleBegin>>

\* system_clock is not steady: the user or a time service may set it back.
SetBack ==
    /\ adjustments < MaxAdjustments
    /\ adjustments' = adjustments + 1
    /\ clock' \in 0..clock
    /\ UNCHANGED <<entries, tombstones, response_lru, calls, holder, attached, told,
                   lastSweep, staleBegin>>

-----------------------------------------------------------------------------
(* begin *)

Outside(k, now) == ReqTime[k] < now - MaxAge \/ ReqTime[k] > now + FutureSkew

\* request_expired: the answer is given before the mutex is taken and leaves no trace.
BeginExpired(t, k) ==
    /\ calls[t] = Idle
    /\ k \notin UuidV7 \/ Outside(k, clock)
    /\ UNCHANGED vars

\* The clock reading and the window test, without the mutex.
ReadClock(t, k, h) ==
    /\ calls[t] = Idle
    /\ k \in UuidV7 /\ ~Outside(k, clock)
    /\ calls' = [calls EXCEPT ![t] = [pc |-> "waiting", key |-> k, hash |-> h, now |-> clock]]
    /\ UNCHANGED <<clock, adjustments, entries, tombstones, response_lru, holder,
                   attached, told, lastSweep, staleBegin>>

TakeMutex(t) ==
    /\ calls[t].pc = "waiting" /\ holder = NoThread
    /\ holder' = t
    /\ calls' = [calls EXCEPT ![t].pc = "sweeping"]
    /\ staleBegin' = (staleBegin \/ calls[t].now < lastSweep)
    /\ lastSweep' = IF calls[t].now > lastSweep THEN calls[t].now ELSE lastSweep
    /\ UNCHANGED <<clock, adjustments, entries, tombstones, response_lru, attached, told>>

\* Seeded fault: the sweep does not ask whether the execution has ended.
Expired_Unfinished(k, now) == now > entries[tombstones[k]].expires_at
Expired(k, now) ==
    LET e == entries[tombstones[k]]
    IN  e.state = "completed" /\ now > e.expires_at

CachePosition(k) == CHOOSE i \in 1..Len(response_lru) : response_lru[i] = k

\* response_lru.erase(entry->cache_position)
Uncached(k) == RemoveAt(response_lru, CachePosition(k))

\* One round of the loop in remove_expired.
RemoveExpired(t, k) ==
    /\ holder = t /\ k \in DOMAIN tombstones /\ Expired(k, calls[t].now)
    /\ response_lru' = IF entries[tombstones[k]].is_cached THEN Uncached(k) ELSE response_lru
    /\ tombstones' = [x \in DOMAIN tombstones \ {k} |-> tombstones[x]]
    /\ UNCHANGED <<clock, adjustments, entries, calls, holder, attached, told,
                   lastSweep, staleBegin>>

Return(t) ==
    /\ calls' = [calls EXCEPT ![t] = Idle]
    /\ holder' = NoThread
    /\ UNCHANGED <<clock, adjustments, lastSweep, staleBegin>>

SweepDone(t) ==
    /\ holder = t
    /\ \A k \in DOMAIN tombstones : ~Expired(k, calls[t].now)

\* Seeded fault: the payload hash is not compared.
SamePayload_Unchecked(e, t) == TRUE
SamePayload(e, t) == e.hash = calls[t].hash

\* The key is known: conflict, attach, cached or result_evicted.
BeginKnown(t) ==
    LET k == calls[t].key
        n == tombstones[k]
        e == entries[n]
    IN  /\ SweepDone(t) /\ k \in DOMAIN tombstones
        /\ Return(t)
        /\ \/ /\ ~SamePayload(e, t)
              /\ UNCHANGED <<response_lru, attached, told>>
           \/ /\ SamePayload(e, t) /\ e.state # "completed"
              /\ attached' = attached \cup {n}
              /\ UNCHANGED <<response_lru, told>>
           \/ /\ SamePayload(e, t) /\ e.state = "completed" /\ e.response_json # NoAnswer
              /\ response_lru' = IF e.is_cached THEN <<k>> \o Uncached(k) ELSE response_lru
              /\ told' = told \cup {<<k, calls[t].hash, e.response_json>>}
              /\ UNCHANGED attached
           \/ /\ SamePayload(e, t) /\ e.state = "completed" /\ e.response_json = NoAnswer
              /\ UNCHANGED <<response_lru, attached, told>>
        /\ UNCHANGED <<entries, tombstones>>

\* Seeded fault: an off-by-one in the capacity test.
TombstonesFull_OffByOne == Cardinality(DOMAIN tombstones) > MaxTombstones
TombstonesFull == Cardinality(DOMAIN tombstones) >= MaxTombstones

BeginBusy(t) ==
    /\ SweepDone(t) /\ calls[t].key \notin DOMAIN tombstones
    /\ TombstonesFull
    /\ Return(t)
    /\ UNCHANGED <<entries, tombstones, response_lru, attached, told>>

\* Seeded fault: the tombstone is kept until the timestamp of the request, not MaxAge longer.
NewEntry_ShortLived(k, h) ==
    [key |-> k, hash |-> h, expires_at |-> ReqTime[k], state |-> "queued",
     answer |-> NoAnswer, response_json |-> NoAnswer, is_cached |-> FALSE]
NewEntry(k, h) ==
    [key |-> k, hash |-> h, expires_at |-> ReqTime[k] + MaxAge, state |-> "queued",
     answer |-> NoAnswer, response_json |-> NoAnswer, is_cached |-> FALSE]

\* Seeded fault: the tombstone is inserted, the entry is not.
BeginAccepted_HalfDone(t) ==
    /\ SweepDone(t) /\ calls[t].key \notin DOMAIN tombstones /\ ~TombstonesFull
    /\ tombstones' = [x \in DOMAIN tombstones \cup {calls[t].key} |->
                         IF x = calls[t].key THEN Len(entries) + 1 ELSE tombstones[x]]
    /\ Return(t)
    /\ UNCHANGED <<entries, response_lru, attached, told>>
BeginAccepted(t) ==
    LET k == calls[t].key
    IN  /\ SweepDone(t) /\ k \notin DOMAIN tombstones
        /\ ~TombstonesFull
        /\ entries' = Append(entries, NewEntry(k, calls[t].hash))
        /\ tombstones' = [x \in DOMAIN tombstones \cup {k} |->
                             IF x = k THEN Len(entries) + 1 ELSE tombstones[x]]
        /\ Return(t)
        /\ UNCHANGED <<response_lru, attached, told>>

-----------------------------------------------------------------------------
(* mark_executing, complete and wait_for_completion, each one critical section. *)

\* Seeded fault: the state is not checked before it is overwritten.
MarkExecuting_Unchecked(n) ==
    /\ holder = NoThread
    /\ entries' = [entries EXCEPT ![n].state = "executing"]
    /\ UNCHANGED <<clock, adjustments, tombstones, response_lru, calls, holder,
                   attached, told, lastSweep, staleBegin>>
MarkExecuting(n) ==
    /\ holder = NoThread
    /\ entries[n].state = "queued"
    /\ entries' = [entries EXCEPT ![n].state = "executing"]
    /\ UNCHANGED <<clock, adjustments, tombstones, response_lru, calls, holder,
                   attached, told, lastSweep, staleBegin>>

Completed(e, a) == [e EXCEPT !.state = "completed", !.answer = a]
Cached(e, a) == [e EXCEPT !.response_json = a, !.is_cached = TRUE]
\* Seeded fault: is_cached stays set when the response is dropped.
Evicted_StillCached(e) == [e EXCEPT !.response_json = NoAnswer]
Evicted(e) == [e EXCEPT !.response_json = NoAnswer, !.is_cached = FALSE]

Pushed(n) == <<entries[n].key>> \o response_lru

\* Seeded fault: an entry may be completed again.
CompleteCommon_Again(n) ==
    /\ holder = NoThread
    /\ UNCHANGED <<clock, adjustments, tombstones, calls, holder, attached, told,
                   lastSweep, staleBegin>>
CompleteCommon(n) ==
    /\ holder = NoThread
    /\ entries[n].state # "completed"
    /\ UNCHANGED <<clock, adjustments, tombstones, calls, holder, attached, told,
                   lastSweep, staleBegin>>

\* The full response is not kept: caching is off, or it exceeds maximum_response_bytes.
CompleteUncached(n, a) ==
    /\ CompleteCommon(n)
    /\ MaxCached = 0 \/ a \in LargeAnswers
    /\ entries' = [entries EXCEPT ![n] = Completed(@, a)]
    /\ UNCHANGED response_lru

CompleteCached(n, a) ==
    /\ CompleteCommon(n)
    /\ MaxCached # 0 /\ a \notin LargeAnswers
    /\ Len(response_lru) < MaxCached
    /\ entries' = [entries EXCEPT ![n] = Cached(Completed(@, a), a)]
    /\ response_lru' = Pushed(n)

\* The list holds at most MaxCached keys before the push, so the loop of cache_response runs once.
CompleteEvicting(n, a) ==
    /\ CompleteCommon(n)
    /\ MaxCached # 0 /\ a \notin LargeAnswers
    /\ Len(response_lru) >= MaxCached
    /\ LET kept == [entries EXCEPT ![n] = Cached(Completed(@, a), a)]
           k == Last(Pushed(n))
       IN  entries' = IF k \in DOMAIN tombstones
                      THEN [kept EXCEPT ![tombstones[k]] = Evicted(@)]
                      ELSE kept
    /\ response_lru' = SubSeq(Pushed(n), 1, Len(response_lru))

\* wait_for_completion wakes up on a completed entry and copies its record.
WaitCompleted(n) ==
    /\ holder = NoThread
    /\ n \in attached /\ entries[n].state = "completed"
    /\ attached' = attached \ {n}
    /\ told' = IF entries[n].response_json = NoAnswer THEN told
               ELSE told \cup {<<entries[n].key, entries[n].hash, entries[n].response_json>>}
    /\ UNCHANGED <<clock, adjustments, entries, tombstones, response_lru, calls, holder,
                   lastSweep, staleBegin>>

WaitTimedOut(n) ==
    /\ holder = NoThread
    /\ n \in attached /\ entries[n].state # "completed"
    /\ attached' = attached \ {n}
    /\ UNCHANGED <<clock, adjustments, entries, tombstones, response_lru, calls, holder,
                   told, lastSweep, staleBegin>>

-----------------------------------------------------------------------------
BeginStep(t) ==
    \/ \E k \in Keys : BeginExpired(t, k)
    \/ \E k \in Keys, h \in Hashes : ReadClock(t, k, h)
    \/ TakeMutex(t)
    \/ \E k \in Keys : RemoveExpired(t, k)
    \/ BeginKnown(t)
    \/ BeginBusy(t)
    \/ BeginAccepted(t)

TokenStep(n) ==
    \/ MarkExecuting(n)
    \/ \E a \in Answers : CompleteUncached(n, a)
    \/ \E a \in Answers : CompleteCached(n, a)
    \/ \E a \in Answers : CompleteEvicting(n, a)
    \/ WaitCompleted(n)
    \/ WaitTimedOut(n)

Next ==
    \/ Tick
    \/ SetBack
    \/ \E t \in Threads : BeginStep(t)
    \/ \E n \in 1..Len(entries) : TokenStep(n)

Spec == Init /\ [][Next]_vars

-----------------------------------------------------------------------------
(* Properties *)

\* Type correctness of the store's state.
TypeOK ==
    /\ clock \in Nat /\ adjustments \in Nat
    /\ entries \in Seq(Entry)
    /\ DOMAIN tombstones \subseteq Keys
    /\ tombstones \in [DOMAIN tombstones -> 1..Len(entries)]
    /\ response_lru \in Seq(Keys)
    /\ calls \in [Threads -> Call]
    /\ holder \in Threads \cup {NoThread}
    /\ attached \subseteq 1..Len(entries)
    /\ told \subseteq Keys \X Hashes \X Answers
    /\ lastSweep \in Nat /\ staleBegin \in BOOLEAN

\* An entry whose request is still queued or executing is the one its key maps to, so a resend
\* attaches to it and never starts a second execution beside it (remove_expired skips it).
InFlightReachable ==
    \A n \in 1..Len(entries) :
        entries[n].state # "completed" =>
            /\ entries[n].key \in DOMAIN tombstones
            /\ tombstones[entries[n].key] = n

\* The response LRU and the is_cached / response_json members of the live entries agree: a key is
\* listed exactly once when its response is held, so cache_position never dangles, and both tables
\* stay inside their limits.
LruConsistent ==
    /\ \A i, j \in 1..Len(response_lru) : response_lru[i] = response_lru[j] => i = j
    /\ \A i \in 1..Len(response_lru) :
          /\ response_lru[i] \in DOMAIN tombstones
          /\ entries[tombstones[response_lru[i]]].is_cached
    /\ \A k \in DOMAIN tombstones :
          entries[tombstones[k]].is_cached =>
              \E i \in 1..Len(response_lru) : response_lru[i] = k
    /\ \A n \in 1..Len(entries) :
          entries[n].is_cached <=> entries[n].response_json # NoAnswer
    /\ Len(response_lru) <= MaxCached

\* The tombstone table never outgrows its limit.
TombstonesBounded == Cardinality(DOMAIN tombstones) <= MaxTombstones

\* A key is taken up for execution once.
AtMostOnce ==
    \A m, n \in 1..Len(entries) : entries[m].key = entries[n].key => m = n

\* As long as the mutex is taken in the order of the clock readings, an expired and removed
\* tombstone can never be followed by a second execution of its key.
AtMostOnceUnlessStale == ~staleBegin => AtMostOnce

\* Whoever asks again with a key, or waits for it, is told one and the same answer, and only when
\* the payload is the one that was executed.
ToldConsistent ==
    \A m \in 1..Len(entries) : \A x \in told :
        /\ (~staleBegin /\ x[1] = entries[m].key) =>
               /\ entries[m].state = "completed"
               /\ x[2] = entries[m].hash
               /\ x[3] = entries[m].answer

\* A final result never changes afterwards, and an evicted response never comes back: a resend that
\* was refused with request_result_evicted stays refused.
ResultsAreFinal ==
    [][\A n \in 1..Len(entries) :
          entries[n].state = "completed" =>
              /\ entries'[n].state = "completed"
              /\ entries'[n].answer = entries[n].answer
              /\ entries'[n].response_json \in {entries[n].response_json, NoAnswer}]_vars

-----------------------------------------------------------------------------
(* The ledger this store implements: the phase of a key is the state of the entry made for it. *)

EntriesOf(k) == {n \in 1..Len(entries) : entries[n].key = k}

LedgerPhase ==
    [k \in Keys |-> IF EntriesOf(k) = {} THEN "new"
                    ELSE entries[CHOOSE n \in EntriesOf(k) : TRUE].state]

LedgerAnswer ==
    [k \in Keys |-> IF EntriesOf(k) = {} THEN NoAnswer
                    ELSE entries[CHOOSE n \in EntriesOf(k) : TRUE].answer]

LedgerTold == {<<x[1], x[3]>> : x \in told}

Ledger == INSTANCE MutationLedger WITH
    phase <- LedgerPhase, answer <- LedgerAnswer, told <- LedgerTold

\* The store behaves like the ledger: every key goes new -> queued -> executing -> completed
\* once and has one answer, as long as the mutex is taken in the order of the clock readings.
ImplementsLedger ==
    Ledger!Init /\ [][staleBegin' \/ Ledger!Next]_<<LedgerPhase, LedgerAnswer, LedgerTold>>
=============================================================================
