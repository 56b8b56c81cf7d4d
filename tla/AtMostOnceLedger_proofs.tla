---------------------- MODULE AtMostOnceLedger_proofs ----------------------
(***************************************************************************)
(* What AtMostOnceStore tells those who ask again, and that it implements  *)
(* MutationLedger, for every number of keys, threads, answers and for      *)
(* every limit.                                                            *)
(***************************************************************************)
EXTENDS AtMostOnceStore_proofs

-----------------------------------------------------------------------------
(* Told responses are backed by finished entries. *)

\* The full response that is still held is the one the execution ended with.
HeldIsTheAnswer ==
    \A n \in 1..Len(entries) :
        entries[n].response_json # NoAnswer => entries[n].response_json = entries[n].answer

Backs(n, x) ==
    /\ entries[n].state = "completed"
    /\ entries[n].key = x[1] /\ entries[n].hash = x[2] /\ entries[n].answer = x[3]

\* Whatever was handed to a resend or a waiter is the answer of a finished entry with that key and
\* payload, be the clock readings in order or not.
ToldBacked == \A x \in told : \E n \in 1..Len(entries) : Backs(n, x)

ToldInv == IInv /\ HeldIsTheAnswer /\ ToldBacked

\* A response that is handed out belongs to a finished entry: only those have one.
LEMMA HeldIsCompleted ==
    ASSUME ToldInv, NEW n \in 1..Len(entries), entries[n].response_json # NoAnswer
    PROVE  /\ Backs(n, <<entries[n].key, entries[n].hash, entries[n].response_json>>)
           /\ entries[n].state = "completed"
           /\ entries[n].answer = entries[n].response_json
BY DEF ToldInv, IInv, LruConsistent, CachedAreCompleted, HeldIsTheAnswer, Backs

\* A step hands out at most one response, and it is the one a finished entry holds.
LEMMA ToldStep ==
    ASSUME ToldInv, [Next]_vars
    PROVE  \/ told' = told
           \/ /\ entries' = entries
              /\ \E n \in 1..Len(entries) :
                    /\ entries[n].response_json # NoAnswer
                    /\ told' = told \cup
                          {<<entries[n].key, entries[n].hash, entries[n].response_json>>}
<1> DEFINE Goal == \/ told' = told
                   \/ /\ entries' = entries
                      /\ \E n \in 1..Len(entries) :
                            /\ entries[n].response_json # NoAnswer
                            /\ told' = told \cup
                                  {<<entries[n].key, entries[n].hash, entries[n].response_json>>}
<1>1. ASSUME NEW t \in Threads, BeginKnown(t)
      PROVE  Goal
  <2> DEFINE k == calls[t].key
             n == tombstones[k]
  <2>1. n \in 1..Len(entries) /\ entries[n].key = k
    BY <1>1 DEF ToldInv, IInv, TypeOK, MapAgrees, BeginKnown
  <2>2. \/ told' = told
        \/ /\ entries' = entries /\ entries[n].hash = calls[t].hash
           /\ entries[n].response_json # NoAnswer
           /\ told' = told \cup {<<k, calls[t].hash, entries[n].response_json>>}
    BY <1>1 DEF BeginKnown, SamePayload
  <2>3. QED
    BY <2>1, <2>2
<1>2. ASSUME NEW n \in 1..Len(entries), WaitCompleted(n)
      PROVE  Goal
  BY <1>2 DEF WaitCompleted
<1>3. QED
  BY <1>1, <1>2
  DEF Next, BeginStep, TokenStep, Tick, SetBack, BeginExpired, ReadClock, TakeMutex,
      RemoveExpired, BeginBusy, BeginAccepted, MarkExecuting, CompleteUncached, CompleteCached,
      CompleteEvicting, CompleteCommon, WaitTimedOut, vars

\* Every step that touches an entry keeps a held response equal to the answer.
LEMMA HeldStep ==
    ASSUME ToldInv, [Next]_vars
    PROVE  HeldIsTheAnswer'
<1>0. /\ TypeOK /\ HeldIsTheAnswer /\ Len(entries) \in Nat
      /\ \A n \in 1..Len(entries) : entries[n] \in Entry
  BY LenProperties DEF ToldInv, IInv, TypeOK
<1>1. CASE UNCHANGED entries
  BY <1>0, <1>1 DEF HeldIsTheAnswer
<1>2. ASSUME NEW t \in Threads, BeginAccepted(t)
      PROVE  HeldIsTheAnswer'
  <2> DEFINE e == NewEntry(calls[t].key, calls[t].hash)
  <2>1. entries' = Append(entries, e)
    BY <1>2 DEF BeginAccepted
  <2>2. e.response_json = NoAnswer
    BY DEF NewEntry
  <2> HIDE DEF e
  <2>3. QED
    BY <1>0, <2>1, <2>2 DEF TypeOK, HeldIsTheAnswer
<1>3. ASSUME NEW m \in 1..Len(entries), MarkExecuting(m)
      PROVE  HeldIsTheAnswer'
  BY <1>0, <1>3 DEF TypeOK, MarkExecuting, HeldIsTheAnswer, Entry
<1>4. ASSUME NEW m \in 1..Len(entries), NEW a \in Answers,
             CompleteUncached(m, a) \/ CompleteCached(m, a) \/ CompleteEvicting(m, a)
      PROVE  HeldIsTheAnswer'
  <2> DEFINE done(e) == Completed(e, a)
             held(e) == Cached(done(e), a)
  <2>1. /\ entries[m].state # "completed" /\ Len(entries') = Len(entries)
        /\ entries'[m] \in {done(entries[m]), held(entries[m]), Evicted(held(entries[m]))}
        /\ \A n \in 1..Len(entries) \ {m} : entries'[n] \in {entries[n], Evicted(entries[n])}
    BY <1>0, <1>4, CompleteEntries
  <2>2. entries[m].response_json = NoAnswer
    BY <1>0, <2>1 DEF ToldInv, IInv, LruConsistent, CachedAreCompleted
  <2>3. \A e \in Entry :
           /\ done(e) \in Entry /\ done(e).response_json = e.response_json
           /\ held(e) \in Entry /\ held(e).response_json = a /\ held(e).answer = a
           /\ Evicted(e).response_json = NoAnswer
    BY DEF Entry, Completed, Cached, Evicted
  <2> HIDE DEF done, held
  <2>4. ASSUME NEW n \in 1..Len(entries)
        PROVE  entries'[n].response_json # NoAnswer =>
                  entries'[n].response_json = entries'[n].answer
    <3>0. entries[n] \in Entry /\ entries[m] \in Entry
      BY <1>0
    <3>1. CASE n = m
      BY <2>1, <2>2, <2>3, <3>0, <3>1
    <3>2. CASE n # m
      <4>1. \/ entries'[n] = entries[n]
            \/ entries'[n].response_json = NoAnswer
        BY <2>1, <2>3, <3>0, <3>2
      <4>2. QED
        BY <1>0, <4>1 DEF HeldIsTheAnswer
    <3>3. QED
      BY <3>1, <3>2
  <2>5. QED
    BY <2>1, <2>4 DEF HeldIsTheAnswer
<1>5. QED
  BY <1>1, <1>2, <1>3, <1>4
  DEF Next, BeginStep, TokenStep, Tick, SetBack, BeginExpired, ReadClock, TakeMutex,
      RemoveExpired, BeginKnown, BeginBusy, WaitCompleted, WaitTimedOut, vars

LEMMA InitToldInv == Init => ToldInv
<1>1. Init => HeldIsTheAnswer /\ ToldBacked
  BY DEF Init, HeldIsTheAnswer, ToldBacked
<1>2. QED
  BY <1>1, InitIInv DEF ToldInv

LEMMA NextToldInv == ToldInv /\ [Next]_vars => ToldInv'
<1> SUFFICES ASSUME ToldInv, [Next]_vars PROVE ToldInv'
  OBVIOUS
<1>1. IInv'
  BY NextIInv DEF ToldInv
<1>2. ASSUME NEW n \in 1..Len(entries), NEW x, Backs(n, x)
      PROVE  n \in 1..Len(entries') /\ Backs(n, x)'
  BY <1>2, EntryStep DEF ToldInv, IInv, Backs
<1>3. ToldBacked'
  <2>1. ASSUME NEW x \in told'
        PROVE  \E n \in 1..Len(entries) : Backs(n, x)
    BY <2>1, ToldStep, HeldIsCompleted DEF ToldInv, ToldBacked
  <2>2. QED
    BY <1>2, <2>1 DEF ToldBacked
<1>4. QED
  BY <1>1, <1>3, HeldStep DEF ToldInv

LEMMA ToldInductive == Spec => []ToldInv
BY InitToldInv, NextToldInv, PTL DEF Spec

\* Whoever asks again with a key, or waits for it, is told the answer of its one execution, and only
\* for the payload that was executed, as long as no begin came with an older clock reading.
THEOREM ToldTheSame == Spec => []ToldConsistent
<1>1. ToldInv => ToldConsistent
  BY DEF ToldInv, IInv, AtMostOnceUnlessStale, AtMostOnce, ToldBacked, Backs, ToldConsistent
<1>2. QED
  BY <1>1, ToldInductive, PTL

-----------------------------------------------------------------------------
(* The refinement.  While no key has two entries the ledger's phase and answer of a key are the     *)
(* state and the answer of its one entry.                                                           *)

\* How the ledger reads the entries.
LedgerReading ==
    AtMostOnce =>
        /\ LedgerPhase = [k \in Keys |-> LedgerPhase[k]]
        /\ LedgerAnswer = [k \in Keys |-> LedgerAnswer[k]]
        /\ \A k \in Keys :
              (\A n \in 1..Len(entries) : entries[n].key # k) =>
                  LedgerPhase[k] = "new" /\ LedgerAnswer[k] = NoAnswer
        /\ \A n \in 1..Len(entries) :
              entries[n].key \in Keys =>
                  /\ LedgerPhase[entries[n].key] = entries[n].state
                  /\ LedgerAnswer[entries[n].key] = entries[n].answer

\* The CHOOSE in the mapping finds the one entry there is.
LEMMA LedgerReads == LedgerReading
<1> SUFFICES ASSUME AtMostOnce PROVE LedgerReading
  BY DEF LedgerReading
<1>1. ASSUME NEW k \in Keys, \A n \in 1..Len(entries) : entries[n].key # k
      PROVE  LedgerPhase[k] = "new" /\ LedgerAnswer[k] = NoAnswer
  <2>1. EntriesOf(k) = {}
    BY <1>1 DEF EntriesOf
  <2>2. QED
    BY <2>1 DEF LedgerPhase, LedgerAnswer
<1>2. ASSUME NEW n \in 1..Len(entries), entries[n].key \in Keys
      PROVE  /\ LedgerPhase[entries[n].key] = entries[n].state
             /\ LedgerAnswer[entries[n].key] = entries[n].answer
  <2> DEFINE k == entries[n].key
             c == CHOOSE m \in EntriesOf(k) : TRUE
  <2>1. EntriesOf(k) = {n}
    BY DEF EntriesOf, AtMostOnce
  <2>2. c = n
    BY <2>1
  <2>3. /\ LedgerPhase[k] = IF EntriesOf(k) = {} THEN "new" ELSE entries[c].state
        /\ LedgerAnswer[k] = IF EntriesOf(k) = {} THEN NoAnswer ELSE entries[c].answer
    BY <1>2 DEF LedgerPhase, LedgerAnswer
  <2>4. QED
    BY <2>1, <2>2, <2>3
<1>3. /\ LedgerPhase = [k \in Keys |-> LedgerPhase[k]]
      /\ LedgerAnswer = [k \in Keys |-> LedgerAnswer[k]]
  BY DEF LedgerPhase, LedgerAnswer
<1>4. QED
  BY <1>1, <1>2, <1>3 DEF LedgerReading

LEMMA LedgerReadsNext == LedgerReading'
BY LedgerReads, PTL

\* A step that touches the result of one entry moves the ledger at that entry's key alone.
LEMMA LedgerUpdate ==
    ASSUME TypeOK, AtMostOnce, AtMostOnce', NEW m \in 1..Len(entries),
           Len(entries') = Len(entries),
           \A n \in 1..Len(entries) : entries'[n].key = entries[n].key,
           \A n \in 1..Len(entries) \ {m} : /\ entries'[n].state = entries[n].state
                                            /\ entries'[n].answer = entries[n].answer
    PROVE  /\ LedgerPhase' = [LedgerPhase EXCEPT ![entries[m].key] = entries'[m].state]
           /\ LedgerAnswer' = [LedgerAnswer EXCEPT ![entries[m].key] = entries'[m].answer]
           /\ LedgerPhase[entries[m].key] = entries[m].state
           /\ LedgerAnswer[entries[m].key] = entries[m].answer
           /\ entries[m].key \in Keys
<1> DEFINE k == entries[m].key
<1>0. \A n \in 1..Len(entries) : entries[n] \in Entry
  BY DEF TypeOK
<1>1. \A n \in 1..Len(entries) : entries[n].key \in Keys
  BY <1>0 DEF Entry
<1>2. LedgerReading /\ LedgerReading'
  BY LedgerReads, LedgerReadsNext
<1>3. ASSUME NEW x \in Keys
      PROVE  /\ LedgerPhase'[x] = IF x = k THEN entries'[m].state ELSE LedgerPhase[x]
             /\ LedgerAnswer'[x] = IF x = k THEN entries'[m].answer ELSE LedgerAnswer[x]
  <2>1. CASE \A n \in 1..Len(entries) : entries[n].key # x
    BY <1>2, <2>1 DEF LedgerReading
  <2>2. ASSUME NEW n \in 1..Len(entries), entries[n].key = x
        PROVE  /\ LedgerPhase'[x] = IF x = k THEN entries'[m].state ELSE LedgerPhase[x]
               /\ LedgerAnswer'[x] = IF x = k THEN entries'[m].answer ELSE LedgerAnswer[x]
    <3>1. x = k <=> n = m
      BY <2>2 DEF AtMostOnce
    <3>2. /\ LedgerPhase[x] = entries[n].state /\ LedgerAnswer[x] = entries[n].answer
          /\ LedgerPhase'[x] = entries'[n].state /\ LedgerAnswer'[x] = entries'[n].answer
      BY <1>1, <1>2, <2>2 DEF LedgerReading
    <3>3. QED
      BY <3>1, <3>2
  <2>3. QED
    BY <2>1, <2>2
<1>4. /\ LedgerPhase' = [x \in Keys |-> LedgerPhase'[x]]
      /\ LedgerAnswer' = [x \in Keys |-> LedgerAnswer'[x]]
      /\ LedgerPhase = [x \in Keys |-> LedgerPhase[x]]
      /\ LedgerAnswer = [x \in Keys |-> LedgerAnswer[x]]
      /\ k \in Keys /\ LedgerPhase[k] = entries[m].state /\ LedgerAnswer[k] = entries[m].answer
  BY <1>1, <1>2 DEF LedgerReading
<1> HIDE DEF k
<1>5. /\ LedgerPhase' = [LedgerPhase EXCEPT ![k] = entries'[m].state]
      /\ LedgerAnswer' = [LedgerAnswer EXCEPT ![k] = entries'[m].answer]
  BY <1>3, <1>4
<1>6. QED
  BY <1>4, <1>5 DEF k

\* A new entry takes its key from new to queued.
LEMMA LedgerAccepts ==
    ASSUME TypeOK, AtMostOnce, AtMostOnce', NEW e, e.key \in Keys, e.answer = NoAnswer,
           entries' = Append(entries, e)
    PROVE  /\ LedgerPhase[e.key] = "new"
           /\ LedgerPhase' = [LedgerPhase EXCEPT ![e.key] = e.state]
           /\ LedgerAnswer' = LedgerAnswer
<1> DEFINE k == e.key
<1>0. /\ Len(entries) \in Nat /\ Len(entries') = Len(entries) + 1
      /\ entries'[Len(entries) + 1] = e
      /\ \A n \in 1..Len(entries) : entries'[n] = entries[n] /\ entries[n].key \in Keys
  <2>1. \A n \in 1..Len(entries) : entries[n] \in Entry
    BY DEF TypeOK
  <2>2. QED
    BY <2>1, LenProperties DEF TypeOK, Entry
<1>1. \A n \in 1..Len(entries) : entries[n].key # k
  BY <1>0 DEF AtMostOnce
<1>2. LedgerReading /\ LedgerReading'
  BY LedgerReads, LedgerReadsNext
<1>3. LedgerPhase[k] = "new" /\ LedgerAnswer[k] = NoAnswer
  BY <1>1, <1>2 DEF LedgerReading
<1>4. LedgerPhase'[k] = e.state /\ LedgerAnswer'[k] = NoAnswer
  BY <1>0, <1>2 DEF LedgerReading
<1>5. ASSUME NEW x \in Keys, x # k
      PROVE  LedgerPhase'[x] = LedgerPhase[x] /\ LedgerAnswer'[x] = LedgerAnswer[x]
  <2>1. CASE \A n \in 1..Len(entries) : entries[n].key # x
    <3>1. \A n \in 1..Len(entries') : entries'[n].key # x
      BY <1>0, <1>5, <2>1
    <3>2. QED
      BY <1>2, <2>1, <3>1 DEF LedgerReading
  <2>2. ASSUME NEW n \in 1..Len(entries), entries[n].key = x
        PROVE  LedgerPhase'[x] = LedgerPhase[x] /\ LedgerAnswer'[x] = LedgerAnswer[x]
    BY <1>0, <1>2, <2>2 DEF LedgerReading
  <2>3. QED
    BY <2>1, <2>2
<1>6. /\ LedgerPhase' = [x \in Keys |-> LedgerPhase'[x]]
      /\ LedgerAnswer' = [x \in Keys |-> LedgerAnswer'[x]]
      /\ LedgerPhase = [x \in Keys |-> LedgerPhase[x]]
      /\ LedgerAnswer = [x \in Keys |-> LedgerAnswer[x]]
  BY <1>2 DEF LedgerReading
<1> HIDE DEF k
<1>7. LedgerPhase' = [LedgerPhase EXCEPT ![k] = e.state] /\ LedgerAnswer' = LedgerAnswer
  BY <1>3, <1>4, <1>5, <1>6
<1>8. QED
  BY <1>3, <1>7 DEF k

\* Every step of the store is a step of the ledger or leaves it alone, unless some begin came with an
\* older clock reading than one already used.
LEMMA LedgerStep ==
    ASSUME ToldInv, ToldInv', [Next]_vars, ~staleBegin'
    PROVE  Ledger!Next \/ UNCHANGED <<LedgerPhase, LedgerAnswer, LedgerTold>>
<1> DEFINE Goal == Ledger!Next \/ UNCHANGED <<LedgerPhase, LedgerAnswer, LedgerTold>>
<1>1. AtMostOnce /\ AtMostOnce'
  <2>1. ~staleBegin
    BY DEF Next, BeginStep, TokenStep, Tick, SetBack, BeginExpired, ReadClock, TakeMutex,
           RemoveExpired, BeginKnown, BeginBusy, BeginAccepted, Return, MarkExecuting,
           CompleteUncached, CompleteCached, CompleteEvicting, CompleteCommon, WaitCompleted,
           WaitTimedOut, vars
  <2>2. QED
    BY <2>1 DEF ToldInv, IInv, AtMostOnceUnlessStale
<1>2. TypeOK /\ \A n \in 1..Len(entries) : entries[n] \in Entry
  BY DEF ToldInv, IInv, TypeOK
<1>3. CASE UNCHANGED entries
  <2>1. UNCHANGED <<LedgerPhase, LedgerAnswer>>
    BY <1>3 DEF LedgerPhase, LedgerAnswer, EntriesOf
  <2>2. CASE told' = told
    BY <2>1, <2>2 DEF LedgerTold
  <2>3. ASSUME NEW n \in 1..Len(entries), entries[n].response_json # NoAnswer,
               told' = told \cup {<<entries[n].key, entries[n].hash, entries[n].response_json>>}
        PROVE  Goal
    <3> DEFINE k == entries[n].key
    <3>1. /\ entries[n].state = "completed" /\ k \in Keys
          /\ entries[n].answer = entries[n].response_json
      BY <1>2, <2>3, HeldIsCompleted DEF Entry
    <3>2. LedgerPhase[k] = "completed" /\ LedgerAnswer[k] = entries[n].response_json
      BY <1>1, <3>1, LedgerReads DEF LedgerReading
    <3>3. LedgerTold' = LedgerTold \cup {<<k, LedgerAnswer[k]>>}
      <4> DEFINE x == <<k, entries[n].hash, entries[n].response_json>>
      <4>1. x[1] = k /\ x[3] = LedgerAnswer[k] /\ told' = told \cup {x}
        BY <2>3, <3>2
      <4> HIDE DEF x
      <4>2. QED
        BY <4>1 DEF LedgerTold
    <3>4. Ledger!Tell(k)
      BY <2>1, <3>2, <3>3 DEF Ledger!Tell
    <3>5. QED
      BY <3>1, <3>4 DEF Ledger!Next
  <2>4. QED
    BY <2>2, <2>3, ToldStep
<1>4. ASSUME NEW t \in Threads, BeginAccepted(t)
      PROVE  Goal
  <2> DEFINE k == calls[t].key
             e == NewEntry(k, calls[t].hash)
  <2>1. entries' = Append(entries, e) /\ told' = told /\ holder = t
    BY <1>4 DEF BeginAccepted, SweepDone
  <2>2. k \in Keys
    BY <2>1, SweepingCall DEF ToldInv, IInv
  <2>3. e.key = k /\ e.state = "queued" /\ e.answer = NoAnswer
    BY DEF NewEntry
  <2> HIDE DEF e, k
  <2>4. /\ LedgerPhase[k] = "new"
        /\ LedgerPhase' = [LedgerPhase EXCEPT ![k] = "queued"]
        /\ LedgerAnswer' = LedgerAnswer
    BY <1>1, <1>2, <2>1, <2>2, <2>3, LedgerAccepts
  <2>5. Ledger!Accept(k)
    BY <2>1, <2>4 DEF Ledger!Accept, LedgerTold
  <2>6. QED
    BY <2>2, <2>5 DEF Ledger!Next
<1>5. ASSUME NEW m \in 1..Len(entries), MarkExecuting(m)
      PROVE  Goal
  <2> DEFINE k == entries[m].key
  <2>1. /\ entries' = [entries EXCEPT ![m] = [entries[m] EXCEPT !.state = "executing"]]
        /\ entries[m].state = "queued" /\ told' = told
    BY <1>5 DEF MarkExecuting
  <2>2. /\ Len(entries') = Len(entries)
        /\ \A n \in 1..Len(entries) : n # m => entries'[n] = entries[n]
        /\ entries'[m].key = k /\ entries'[m].state = "executing"
        /\ entries'[m].answer = entries[m].answer
    BY <1>2, <2>1 DEF TypeOK, Entry
  <2>3. /\ LedgerPhase' = [LedgerPhase EXCEPT ![k] = "executing"]
        /\ LedgerAnswer' = [LedgerAnswer EXCEPT ![k] = entries[m].answer]
        /\ LedgerPhase[k] = "queued" /\ LedgerAnswer[k] = entries[m].answer /\ k \in Keys
    BY <1>1, <1>2, <2>1, <2>2, LedgerUpdate
  <2>4. LedgerAnswer' = LedgerAnswer
    BY <2>3 DEF LedgerAnswer
  <2>5. Ledger!Execute(k)
    BY <2>1, <2>3, <2>4 DEF Ledger!Execute, LedgerTold
  <2>6. QED
    BY <2>3, <2>5 DEF Ledger!Next
<1>6. ASSUME NEW m \in 1..Len(entries), NEW a \in Answers,
             CompleteUncached(m, a) \/ CompleteCached(m, a) \/ CompleteEvicting(m, a)
      PROVE  Goal
  <2> DEFINE k == entries[m].key
             done(e) == Completed(e, a)
             held(e) == Cached(done(e), a)
  <2>1. /\ entries[m].state # "completed" /\ Len(entries') = Len(entries)
        /\ entries'[m] \in {done(entries[m]), held(entries[m]), Evicted(held(entries[m]))}
        /\ \A n \in 1..Len(entries) \ {m} : entries'[n] \in {entries[n], Evicted(entries[n])}
    BY <1>2, <1>6, CompleteEntries
  <2>2. \A e \in Entry :
           /\ done(e) \in Entry /\ done(e).key = e.key
           /\ done(e).state = "completed" /\ done(e).answer = a
           /\ held(e) \in Entry /\ held(e).key = e.key
           /\ held(e).state = "completed" /\ held(e).answer = a
           /\ Evicted(e).key = e.key /\ Evicted(e).state = e.state
           /\ Evicted(e).answer = e.answer
    BY DEF Entry, Completed, Cached, Evicted
  <2> HIDE DEF done, held
  <2>3. /\ entries'[m].key = k /\ entries'[m].state = "completed" /\ entries'[m].answer = a
    BY <1>2, <2>1, <2>2
  <2>4. \A n \in 1..Len(entries) \ {m} : /\ entries'[n].key = entries[n].key
                                         /\ entries'[n].state = entries[n].state
                                         /\ entries'[n].answer = entries[n].answer
    BY <1>2, <2>1, <2>2
  <2>5. /\ LedgerPhase' = [LedgerPhase EXCEPT ![k] = "completed"]
        /\ LedgerAnswer' = [LedgerAnswer EXCEPT ![k] = a]
        /\ LedgerPhase[k] = entries[m].state /\ k \in Keys
    <3>1. \A n \in 1..Len(entries) : entries'[n].key = entries[n].key
      BY <2>3, <2>4
    <3>2. QED
      BY <1>1, <1>2, <2>1, <2>3, <2>4, <3>1, LedgerUpdate
  <2>6. LedgerPhase[k] \in {"queued", "executing"}
    BY <1>2, <2>1, <2>5 DEF Entry
  <2>7. told' = told
    BY <1>6 DEF CompleteUncached, CompleteCached, CompleteEvicting, CompleteCommon
  <2>8. Ledger!Finish(k, a)
    BY <2>5, <2>6, <2>7 DEF Ledger!Finish, LedgerTold
  <2>9. QED
    BY <2>5, <2>8 DEF Ledger!Next
<1>7. QED
  BY <1>3, <1>4, <1>5, <1>6
  DEF Next, BeginStep, TokenStep, Tick, SetBack, BeginExpired, ReadClock, TakeMutex,
      RemoveExpired, BeginKnown, BeginBusy, WaitCompleted, WaitTimedOut, vars

\* The store implements the ledger: every key goes new, queued, executing, completed once and has one
\* answer, as long as every begin takes the mutex with a clock reading not older than those already
\* used.
THEOREM StoreImplementsLedger == Spec => ImplementsLedger
<1>1. Init => Ledger!Init
  BY DEF Init, Ledger!Init, LedgerPhase, LedgerAnswer, LedgerTold, EntriesOf
<1>2. /\ ToldInv /\ ToldInv' /\ [Next]_vars
      => [staleBegin' \/ Ledger!Next]_<<LedgerPhase, LedgerAnswer, LedgerTold>>
  BY LedgerStep
<1>3. QED
  BY <1>1, <1>2, ToldInductive, PTL DEF Spec, ImplementsLedger
=============================================================================
