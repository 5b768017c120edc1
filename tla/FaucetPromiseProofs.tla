------------------------ MODULE FaucetPromiseProofs ------------------------
(***************************************************************************)
(* What the intake promises of single requests, for any number of          *)
(* handlers, requests, addresses, crashes and I/O errors: the policy of    *)
(* the profile, one owner for every pending request, and the abstract      *)
(* lifecycle.                                                              *)
(*                                                                         *)
(* All three rest on the invariant of FaucetIntakeProofs and on one fact   *)
(* about its steps: the journal grows only by an entry that Writes allows. *)
(* The policy then follows from what the last state of the history knows   *)
(* of the entries before it (Known).  Ownership needs the other half of    *)
(* what IInv says: not only is a request in someone's hands a pending one, *)
(* no pending request is out of everyone's hands (Placed).                 *)
(***************************************************************************)
EXTENDS FaucetIntakeProofs

\* The entries the service appends, with what it asked before.
Writes(e) ==
    /\ phase # "replaying"
    /\ Record(e)
    /\ Legal(store, e)
    /\ e.type = "accepted" =>
        /\ store.idempotency[e.key] = NoId
        /\ ~InCooldown(store, e.address, e.at)
        /\ ~CapReached(store, e.address, e.at)
        /\ ~BudgetSpent(store, e.at)
    /\ e.type = "confirmed" => store.requests[e.id].status = "submitted"

\* The acceptances of an address on a day.
Served(a, d) ==
    {i \in DOMAIN journal : /\ journal[i].type = "accepted"
                            /\ journal[i].address = a
                            /\ BudgetDay(journal[i].at) = d}

\* The store knows the key and the time of every acceptance in the journal, and
\* counts them by address and day.
Known ==
    /\ \A i \in DOMAIN journal : journal[i].type = "accepted" =>
        /\ Durable.idempotency[journal[i].key] # NoId
        /\ Durable.lastAccepted[journal[i].address] >= journal[i].at
    /\ \A a \in Addresses, d \in Days :
        Durable.dailyCount[a][d] = Cardinality(Served(a, d))

PolicyInv == Known /\ PolicyRespected

InQueue(id) == \E i \in 1..Len(queue) : queue[i] = id
InHandler(id) == \E h \in Handlers : Offered(h) /\ handlers[h].id = id

Holds(id) == InQueue(id) \/ InHandler(id) \/ working = id \/ id \in todo

\* A pending request is in someone's hands, or its failure could not be written.
Placed ==
    phase # "replaying" => \A id \in Ids : Live(id) => Holds(id) \/ id \in orphans

\* Nobody holds a request whose failure could not be written.
Orphaned ==
    /\ phase = "replaying" => orphans = {}
    /\ \A id \in orphans : Live(id) /\ ~Holds(id)

OwnerInv == Placed /\ Orphaned
-----------------------------------------------------------------------------
(* How the journal grows. *)

LEMMA FundAcceptWrites ==
    ASSUME IInv, NEW h \in Handlers, FundAccept(h)
    PROVE  \E e \in Entry : Writes(e)
<1> DEFINE c == handlers[h].call
           e == AcceptedEntry(handlers[h].id, c.key, c.address, c.at)
<1>1. /\ handlers[h].pc = "accept" /\ c \in Call /\ handlers[h].id \in Ids
      /\ Record(e)
  BY HandlerParts DEF IInv, FundAccept
<1>2. /\ ~Replayed(store, c.key, c.address, c.at)
      /\ ~InCooldown(store, c.address, c.at) /\ ~CapReached(store, c.address, c.at)
      /\ ~BudgetSpent(store, c.at)
  BY DEF FundAccept, Denied
<1>3. /\ e.type = "accepted" /\ e.id = handlers[h].id /\ e.address = c.address
      /\ e.at = c.at /\ e.key = IdempotencyKeyFor(c.key, c.address, c.at)
  BY DEF AcceptedEntry
<1>4. phase = "running" /\ store.requests[handlers[h].id].status = "absent"
  BY <1>1 DEF IInv, Quiet, IdleHandler, Owned
<1>5. e \in Entry
  <2>1. BudgetDay(c.at) \in Days
    BY <1>1, BudgetDayType DEF Call
  <2>2. IdempotencyKeyFor(c.key, c.address, c.at) \in ScopedKey
    BY <1>1, <2>1 DEF IdempotencyKeyFor, ScopedKey, Call
  <2> QED
    BY <1>1, <2>2 DEF AcceptedEntry, Entry, Call
<1> HIDE DEF e
<1>6. Legal(store, e)
  BY <1>3, <1>4 DEF Legal
<1>7. store.idempotency[e.key] = NoId
  BY <1>2, <1>3 DEF Replayed
<1>8. Writes(e)
  BY <1>1, <1>2, <1>3, <1>4, <1>6, <1>7 DEF Writes
<1> QED
  BY <1>5, <1>8

\* The end of a request that is pending, or a submission of it.
LEMMA ProgressWrites ==
    ASSUME IInv, phase # "replaying", NEW e \in Entry,
           e.type \in {"submitted", "confirmed", "failed"}, Live(e.id), Record(e),
           e.type = "confirmed" => store.requests[e.id].status = "submitted"
    PROVE  Writes(e)
BY DEF Writes, Legal, Live

LEMMA WorkerWrites ==
    ASSUME IInv, Worker
    PROVE  UNCHANGED disk \/ \E e \in Entry : Writes(e)
<1>1. step # "top" => phase # "replaying" /\ working \in Ids /\ Live(working)
  BY DEF IInv, Quiet, Owned, TypeOK
<1>2. CASE WorkerTake \/ WorkerBegin \/ WorkerDefer \/ WorkerTerminal \/ WorkerSubmitFails
  BY <1>2 DEF WorkerTake, WorkerBegin, WorkerDefer, WorkerTerminal, WorkerSubmitFails, AppendFails
<1>3. CASE WorkerSubmit
  <2>1. PICK sub \in Submissions : Record(SubmittedEntry(working, sub))
    BY <1>3 DEF WorkerSubmit
  <2>2. step # "top"
    BY <1>3 DEF WorkerSubmit
  <2>3. /\ SubmittedEntry(working, sub) \in Entry
        /\ SubmittedEntry(working, sub).type = "submitted"
        /\ SubmittedEntry(working, sub).id = working
    BY <1>1, <2>2 DEF SubmittedEntry, Entry
  <2> QED
    BY <1>1, <2>1, <2>2, <2>3, ProgressWrites
<1>4. CASE WorkerConfirm
  <2>1. step # "top" /\ store.requests[working].status = "submitted"
    BY <1>4 DEF WorkerConfirm
  <2>2. /\ ConfirmedEntry(working) \in Entry /\ ConfirmedEntry(working).type = "confirmed"
        /\ ConfirmedEntry(working).id = working
    BY <1>1, <2>1 DEF ConfirmedEntry, Entry
  <2>3. Record(ConfirmedEntry(working)) \/ UNCHANGED disk
    BY <1>4 DEF WorkerConfirm, AppendFails
  <2> QED
    BY <1>1, <2>1, <2>2, <2>3, ProgressWrites
<1>5. CASE WorkerFail
  <2>1. step # "top"
    BY <1>5 DEF WorkerFail
  <2>2. /\ FailedEntry(working) \in Entry /\ FailedEntry(working).type = "failed"
        /\ FailedEntry(working).id = working
    BY <1>1, <2>1 DEF FailedEntry, Entry
  <2>3. Record(FailedEntry(working)) \/ UNCHANGED disk
    BY <1>5 DEF WorkerFail, AppendFails
  <2> QED
    BY <1>1, <2>1, <2>2, <2>3, ProgressWrites
<1> QED
  BY <1>2, <1>3, <1>4, <1>5 DEF Worker

\* The failures written for want of a place in the queue.
LEMMA FailedWrites ==
    ASSUME IInv, phase # "replaying", NEW id \in Ids, Live(id), Record(FailedEntry(id))
    PROVE  \E e \in Entry : Writes(e)
<1>1. /\ FailedEntry(id) \in Entry /\ FailedEntry(id).type = "failed"
      /\ FailedEntry(id).id = id
  BY DEF FailedEntry, Entry
<1> QED
  BY <1>1, ProgressWrites

LEMMA JournalSteps ==
    ASSUME IInv, [Next]_vars
    PROVE  UNCHANGED disk \/ \E e \in Entry : Writes(e)
<1>1. ASSUME NEW h \in Handlers, Fund(h)
      PROVE  UNCHANGED disk \/ \E e \in Entry : Writes(e)
  <2>1. CASE FundAccept(h)
    BY <2>1, FundAcceptWrites
  <2>2. CASE FundEnqueue(h)
    <3>1. /\ handlers[h].pc = "enqueue" /\ handlers[h].id \in Ids /\ Live(handlers[h].id)
          /\ phase # "replaying"
      BY <2>2, HandlerParts DEF FundEnqueue, IInv, Owned, Offered, Quiet, IdleHandler
    <3>2. Record(FailedEntry(handlers[h].id)) \/ UNCHANGED disk
      BY <2>2 DEF FundEnqueue, AppendFails
    <3> QED
      BY <3>1, <3>2, FailedWrites
  <2>3. CASE FundArrive(h) \/ FundCheck(h) \/ FundTurnedAway(h) \/ FundRefused(h)
    BY <2>3 DEF FundArrive, FundCheck, FundTurnedAway, FundRefused, AppendFails
  <2> QED
    BY <1>1, <2>1, <2>2, <2>3 DEF Fund
<1>2. CASE Worker
  BY <1>2, WorkerWrites
<1>3. ASSUME NEW e \in {PausedEntry, ResumedEntry, RefillEntry}, Administer(e)
      PROVE  Writes(e) /\ e \in Entry
  <2>1. e \in Entry /\ e.type \in {"paused", "resumed", "refill"}
    BY DEF PausedEntry, ResumedEntry, RefillEntry, Entry
  <2> QED
    BY <1>3, <2>1 DEF Administer, Writes, Legal
<1>4. CASE ReconcileRequest
  <2>1. PICK id \in todo : Record(FailedEntry(id)) \/ UNCHANGED disk
    BY <1>4 DEF ReconcileRequest
  <2>2. phase # "replaying" /\ id \in Ids /\ Live(id)
    BY <1>4 DEF ReconcileRequest, IInv, Owned, TypeOK
  <2> QED
    BY <2>1, <2>2, FailedWrites
<1>5. CASE Tick \/ Crash \/ ReplayEntry \/ ReplayDone \/ ReconcileDone \/ UNCHANGED vars
  BY <1>5 DEF Tick, Crash, ReplayEntry, ReplayDone, ReconcileDone, vars
<1> QED
  BY <1>1, <1>2, <1>3, <1>4, <1>5 DEF Next, Boot, Pause, Resume, ObserveRefill

\* A written entry extends the journal and the history by one.
LEMMA WrittenExtends ==
    ASSUME IInv, NEW e \in Entry, Writes(e)
    PROVE  /\ Durable \in Store /\ store = Durable
           /\ journal' = Append(journal, e) /\ Len(journal) \in Nat
           /\ Len(journal') = Len(journal) + 1
           /\ journal'[Len(journal')] = e
           /\ \A i \in 1..Len(journal) : journal'[i] = journal[i]
           /\ Durable' = ApplyEntry(Durable, e)
<1>1. /\ journal' = Append(journal, e) /\ hist' = Append(hist, ApplyEntry(store, e))
      /\ phase # "replaying"
  BY DEF Writes, Record
<1>2. /\ journal \in Seq(Entry) /\ hist \in Seq(Store) /\ store = hist[Len(hist)]
      /\ Len(hist) = Len(journal) + 1 /\ store \in Store
  BY <1>1 DEF IInv, TypeOK, Position, Chained
<1>3. /\ Len(journal) \in Nat /\ Len(journal') = Len(journal) + 1
      /\ journal'[Len(journal')] = e
      /\ \A i \in 1..Len(journal) : journal'[i] = journal[i]
  BY <1>1, <1>2
<1>4. Durable' = ApplyEntry(store, e)
  <2>1. ApplyEntry(store, e) \in Store
    BY <1>2, ApplyEntryType
  <2>2. Len(hist') = Len(hist) + 1 /\ hist'[Len(hist) + 1] = ApplyEntry(store, e)
    BY SMTT(30), <1>1, <1>2, <2>1
  <2> QED
    BY <2>2 DEF Durable
<1> QED
  BY <1>1, <1>2, <1>3, <1>4 DEF Durable
-----------------------------------------------------------------------------
(* The lifecycle. *)

\* An acceptance sets the time of its request; no other entry changes a time.
LEMMA ApplyTimes ==
    ASSUME NEW s \in Store, NEW e \in Entry, NEW id \in Ids
    PROVE  ApplyEntry(s, e).requests[id].at =
                IF e.type = "accepted" /\ e.id = id THEN e.at ELSE s.requests[id].at
<1>1. s.requests \in [Ids -> Request] /\ s = [s EXCEPT !.requests = s.requests]
  BY DEF Store
<1>2. \A x \in Ids : s.requests[x] \in Request
  BY <1>1
<1>3. CASE e.type = "accepted"
  BY Zenon, <1>1, <1>3 DEF ApplyEntry, ApplyAccepted, Store, Entry
<1>4. CASE e.type = "submitted"
  BY Zenon, <1>1, <1>2, <1>4 DEF ApplyEntry, Store, Entry, Request
<1>5. CASE e.type = "confirmed"
  BY Zenon, <1>1, <1>2, <1>5 DEF ApplyEntry, Store, Entry, Request
<1>6. CASE e.type = "failed"
  BY Zenon, <1>1, <1>2, <1>6 DEF ApplyEntry, ApplyFailed, Store, Entry, Request
<1>7. CASE e.type \in {"paused", "resumed", "refill", "rotated"}
  <2>1. ApplyEntry(s, e).requests = s.requests
    BY <1>7, ApplyStatus
  <2> QED
    BY <1>7, <2>1
<1> QED
  BY <1>3, <1>4, <1>5, <1>6, <1>7 DEF Entry

Statuses == [id \in Ids |-> Durable.requests[id].status]
DaysOf == [id \in Ids |-> BudgetDay(Durable.requests[id].at)]

LEMMA LifecycleInit == Init => Lifecycle!Init
<1> SUFFICES ASSUME Init PROVE Lifecycle!Init
  OBVIOUS
<1>1. Durable = EmptyStore
  BY DEF Init, Durable
<1>2. \A id \in Ids : Durable.requests[id] = NoRequest
  BY <1>1 DEF EmptyStore
<1>3. BudgetDay(0) \in Days
  BY ProfileAssumption, BudgetDayType DEF Times
<1> QED
  BY <1>2, <1>3 DEF Lifecycle!Init, NoRequest

LEMMA SameCardinality == ASSUME NEW S PROVE Lifecycle!Cardinality(S) = Cardinality(S)
BY Zenon DEF Cardinality, Lifecycle!Cardinality

\* An acceptance that passed the budget check is one of the lifecycle.
LEMMA LifecycleAccept ==
    ASSUME IInv, NEW e \in Entry, Writes(e), e.type = "accepted"
    PROVE  e.id \in Ids /\ BudgetDay(e.at) \in Days /\ Lifecycle!Accept(e.id, BudgetDay(e.at))
<1> DEFINE d == BudgetDay(e.at)
<1>1. e.id \in Ids /\ d \in Days
  BY BudgetDayType DEF Entry
<1>2. /\ Durable \in Store /\ store = Durable /\ Durable' = ApplyEntry(Durable, e)
  BY WrittenExtends
<1>3. Durable.requests[e.id].status = "absent" /\ ~(Durable.spent[d] + Amount > Budget)
  BY <1>2 DEF Writes, Legal, BudgetSpent
<1>4. Durable.spent[d] = Amount * Cardinality(Held(Durable, d))
  <2>1. Conserved(Durable)
    BY DEF IInv, Chained, TypeOK, Durable
  <2> QED
    BY <1>1, <2>1 DEF Conserved
<1>5. Amount * Cardinality(Held(Durable, d)) + Amount <= Budget
  <2>1. Durable.spent[d] \in Nat
    BY <1>1, <1>2 DEF Store
  <2> QED
    BY <1>3, <1>4, <2>1, ProfileAssumption
<1>6. Lifecycle!Holding(d) = Held(Durable, d)
  BY DEF Lifecycle!Holding, Held
<1>7. /\ \A id \in Ids : id # e.id => Durable'.requests[id] = Durable.requests[id]
      /\ Durable'.requests[e.id].status = "queued"
      /\ BudgetDay(Durable'.requests[e.id].at) = d
  BY <1>1, <1>2, ApplyStatus, ApplyTimes
<1>8. Statuses' = [Statuses EXCEPT ![e.id] = "queued"] /\ DaysOf' = [DaysOf EXCEPT ![e.id] = d]
  BY Zenon, <1>1, <1>7 DEF Statuses, DaysOf
<1> HIDE DEF d
<1>9. Statuses[e.id] = "absent"
  BY <1>1, <1>3 DEF Statuses
<1> QED
  BY SMTT(30), <1>1, <1>5, <1>6, <1>8, <1>9, SameCardinality DEF Lifecycle!Accept, Statuses, DaysOf, d

\* A submission, a confirmation or a failure is one of the lifecycle; a second
\* submission is invisible there.
LEMMA LifecycleProgress ==
    ASSUME IInv, NEW e \in Entry, Writes(e), e.type \in {"submitted", "confirmed", "failed"}
    PROVE  [Lifecycle!Next]_(Lifecycle!vars)
<1>1. Durable \in Store /\ store = Durable /\ Durable' = ApplyEntry(Durable, e) /\ e.id \in Ids
  BY WrittenExtends, ApplyStatus
<1>2. /\ \A id \in Ids : id # e.id => Durable'.requests[id].status = Durable.requests[id].status
      /\ Durable'.requests[e.id].status = e.type
      /\ \A id \in Ids : Durable'.requests[id].at = Durable.requests[id].at
  BY <1>1, ApplyStatus, ApplyTimes
<1>3. Statuses' = [Statuses EXCEPT ![e.id] = e.type] /\ UNCHANGED DaysOf
  BY Zenon, <1>1, <1>2 DEF Statuses, DaysOf
<1>4. /\ Statuses[e.id] \in Pending
      /\ e.type = "confirmed" => Statuses[e.id] = "submitted"
  BY <1>1 DEF Writes, Legal, Statuses
<1>5. CASE e.type = "submitted" /\ Statuses[e.id] = "submitted"
  <2>1. Statuses' = Statuses
    BY <1>1, <1>3, <1>5 DEF Statuses
  <2> QED
    BY <1>3, <2>1 DEF Lifecycle!vars, Statuses, DaysOf
<1>6. CASE e.type = "submitted" /\ Statuses[e.id] = "queued"
  <2>1. Lifecycle!Submit(e.id)
    BY <1>3, <1>6 DEF Lifecycle!Submit, Statuses, DaysOf
  <2> QED
    BY <1>1, <2>1 DEF Lifecycle!Next
<1>7. CASE e.type = "confirmed"
  <2>1. Lifecycle!Confirm(e.id)
    BY <1>3, <1>4, <1>7 DEF Lifecycle!Confirm, Statuses, DaysOf
  <2> QED
    BY <1>1, <2>1 DEF Lifecycle!Next
<1>8. CASE e.type = "failed"
  <2>1. Lifecycle!Fail(e.id)
    BY <1>3, <1>4, <1>8 DEF Lifecycle!Fail, Statuses, DaysOf, Pending
  <2> QED
    BY SMTT(30), <1>1, <2>1 DEF Lifecycle!Next
<1> QED
  BY SMTT(30), <1>4, <1>5, <1>6, <1>7, <1>8 DEF Pending

LEMMA LifecycleStep == IInv /\ [Next]_vars => [Lifecycle!Next]_(Lifecycle!vars)
<1> SUFFICES ASSUME IInv, [Next]_vars PROVE [Lifecycle!Next]_(Lifecycle!vars)
  OBVIOUS
<1>1. CASE UNCHANGED disk
  BY <1>1 DEF disk, Durable, Lifecycle!vars
<1>2. ASSUME NEW e \in Entry, Writes(e) PROVE [Lifecycle!Next]_(Lifecycle!vars)
  <2>1. CASE e.type = "accepted"
    BY <1>2, <2>1, LifecycleAccept DEF Lifecycle!Next
  <2>2. CASE e.type \in {"submitted", "confirmed", "failed"}
    BY <1>2, <2>2, LifecycleProgress
  <2>3. CASE e.type \in {"paused", "resumed", "refill", "rotated"}
    <3>1. Durable \in Store /\ Durable' = ApplyEntry(Durable, e)
      BY <1>2, WrittenExtends
    <3>2. Durable'.requests = Durable.requests
      BY <2>3, <3>1, ApplyStatus
    <3> QED
      BY <3>2 DEF Lifecycle!vars
  <2> QED
    BY <2>1, <2>2, <2>3 DEF Entry
<1> QED
  BY <1>1, <1>2, JournalSteps

\* The service implements the lifecycle and budget it promises: each step of
\* handlers, worker, restart and operator is a step of the lifecycle of one
\* request as the journal tells it, or no step at all (handleFund, process,
\* reconcile, NewStore).
THEOREM IntakeImplementsLifecycle == Spec => ImplementsLifecycle
  BY LifecycleInit, LifecycleStep, InitInvariant, NextInvariant, PTL
  DEF Spec, ImplementsLifecycle, Lifecycle!Spec
-----------------------------------------------------------------------------
(* The policy. *)

\* What applyEntry does to the tables Accept asks.
LEMMA ApplyTables ==
    ASSUME NEW s \in Store, NEW e \in Entry
    PROVE  LET t == ApplyEntry(s, e) IN
           /\ e.type # "accepted" => /\ t.idempotency = s.idempotency
                                     /\ t.lastAccepted = s.lastAccepted
                                     /\ t.dailyCount = s.dailyCount
           /\ e.type = "accepted" =>
                /\ t.idempotency = [s.idempotency EXCEPT ![e.key] = e.id]
                /\ t.lastAccepted = [s.lastAccepted EXCEPT ![e.address] = e.at]
                /\ t.dailyCount = [s.dailyCount EXCEPT ![e.address][BudgetDay(e.at)] = @ + 1]
<1>1. CASE e.type = "accepted"
  BY Zenon, <1>1 DEF ApplyEntry, ApplyAccepted, Store
<1>2. CASE e.type = "failed"
  BY Zenon, <1>2 DEF ApplyEntry, ApplyFailed, Store
<1>3. CASE e.type \in {"submitted", "confirmed", "paused", "resumed", "refill", "rotated"}
  BY <1>3 DEF ApplyEntry, Store
<1> QED
  BY <1>1, <1>2, <1>3 DEF Entry

LEMMA ServedFinite ==
    ASSUME IInv, NEW a, NEW d
    PROVE  IsFiniteSet(Served(a, d)) /\ Cardinality(Served(a, d)) \in Nat
<1>1. DOMAIN journal = 1..Len(journal) /\ Len(journal) \in Nat
  BY DEF IInv, TypeOK
<1>2. IsFiniteSet(1..Len(journal))
  BY <1>1, FS_Interval
<1>3. Served(a, d) \subseteq 1..Len(journal)
  BY <1>1 DEF Served
<1> QED
  BY <1>2, <1>3, FS_Subset, FS_CardinalityType

\* An acceptance that passed the checks keeps what is known of the journal, and the policy.
LEMMA AcceptKeepsPolicy ==
    ASSUME IInv, PolicyInv, NEW e \in Entry, Writes(e), e.type = "accepted"
    PROVE  PolicyInv'
<1> DEFINE n == Len(journal)
           day == BudgetDay(e.at)
<1>1. /\ Durable \in Store /\ store = Durable /\ Durable' = ApplyEntry(Durable, e)
      /\ n \in Nat /\ Len(journal') = n + 1 /\ journal'[n + 1] = e
      /\ \A i \in 1..n : journal'[i] = journal[i]
      /\ DOMAIN journal = 1..n /\ DOMAIN journal' = 1..(n + 1)
  <2>1. journal \in Seq(Entry) /\ journal' \in Seq(Entry)
    BY SMTT(30), WrittenExtends DEF IInv, TypeOK
  <2>2. n \in Nat /\ DOMAIN journal = 1..n /\ DOMAIN journal' = 1..Len(journal')
    BY <2>1
  <2>3. /\ Durable \in Store /\ store = Durable /\ Durable' = ApplyEntry(Durable, e)
        /\ Len(journal') = n + 1 /\ journal'[n + 1] = e
        /\ \A i \in 1..n : journal'[i] = journal[i]
    BY Zenon, WrittenExtends
  <2> QED
    BY Zenon, <2>2, <2>3
<1>2. \A i \in 1..n : journal[i] \in Entry
  BY <1>1 DEF IInv, TypeOK
<1>3. /\ e.address \in Addresses /\ e.at \in Times /\ e.key \in ScopedKey /\ e.id \in Ids
      /\ day \in Days
  BY BudgetDayType DEF Entry
<1>4. /\ \A i \in 1..n : journal[i].type = "accepted" =>
            /\ journal[i].address \in Addresses /\ journal[i].key \in ScopedKey
            /\ journal[i].at \in Times
  BY SMTT(30), <1>2 DEF Entry
<1>5. /\ Durable.idempotency \in [ScopedKey -> Ids \cup {NoId}]
      /\ Durable.lastAccepted \in [Addresses -> Times \cup {Never}]
      /\ Durable.dailyCount \in [Addresses -> [Days -> Nat]]
  BY SMTT(30), <1>1 DEF Store
<1>6. /\ Durable'.idempotency = [Durable.idempotency EXCEPT ![e.key] = e.id]
      /\ Durable'.lastAccepted = [Durable.lastAccepted EXCEPT ![e.address] = e.at]
      /\ Durable'.dailyCount = [Durable.dailyCount EXCEPT ![e.address][day] = @ + 1]
  BY SMTT(30), <1>1, ApplyTables
<1>7. /\ Durable.idempotency[e.key] = NoId
      /\ ~InCooldown(Durable, e.address, e.at)
      /\ Durable.dailyCount[e.address][day] < DailyCap
  BY SMTT(30), <1>1, <1>3, <1>5, ProfileAssumption DEF Writes, CapReached
<1>8. /\ \A i \in 1..n : journal[i].type = "accepted" =>
            /\ Durable.idempotency[journal[i].key] # NoId
            /\ Durable.lastAccepted[journal[i].address] >= journal[i].at
      /\ \A a \in Addresses, d \in Days :
            Durable.dailyCount[a][d] = Cardinality(Served(a, d))
  BY <1>1 DEF PolicyInv, Known
<1>9. \A i \in 1..n : journal[i].type = "accepted" /\ journal[i].address = e.address =>
        e.at >= journal[i].at + Cooldown
  <2> SUFFICES ASSUME NEW i \in 1..n, journal[i].type = "accepted", journal[i].address = e.address
               PROVE  e.at >= journal[i].at + Cooldown
    OBVIOUS
  <2> DEFINE last == Durable.lastAccepted[e.address]
  <2>1. last >= journal[i].at /\ journal[i].at \in Times
    BY <1>4, <1>8
  <2>2. last \in Times \cup {Never}
    BY <1>3, <1>5
  <2>3. last # Never => e.at >= last + Cooldown
    BY SMTT(30), <1>3, <1>7, <2>2, ProfileAssumption DEF InCooldown, Times, Never
  <2> HIDE DEF last
  <2> QED
    BY SMTT(30), <1>3, <2>1, <2>2, <2>3, ProfileAssumption DEF Times, Never
<1>10. ASSUME NEW i \in 1..(n + 1), journal'[i].type = "accepted"
       PROVE  /\ Durable'.idempotency[journal'[i].key] # NoId
              /\ Durable'.lastAccepted[journal'[i].address] >= journal'[i].at
  <2>1. CASE i = n + 1
    BY SMTT(30), <1>1, <1>3, <1>5, <1>6, <2>1, IdAssumption, ProfileAssumption DEF Times
  <2>2. CASE i \in 1..n
    <3>1. journal'[i] = journal[i]
      BY SMTT(30), <1>1, <2>2
    <3>2. Durable'.idempotency[journal[i].key] # NoId
      BY SMTT(30), <1>3, <1>4, <1>5, <1>6, <1>8, <1>10, <2>2, <3>1, IdAssumption
    <3>3. CASE journal[i].address = e.address
      <4>1. e.at >= journal[i].at
        BY SMTT(30), <1>3, <1>4, <1>9, <1>10, <2>2, <3>1, <3>3, ProfileAssumption DEF Times
      <4>2. Durable'.lastAccepted[e.address] = e.at
        BY SMTT(30), <1>3, <1>5, <1>6
      <4> QED
        BY SMTT(30), <3>1, <3>2, <3>3, <4>1, <4>2
    <3>4. CASE journal[i].address # e.address
      <4>1. Durable'.lastAccepted[journal[i].address] = Durable.lastAccepted[journal[i].address]
        BY SMTT(30), <1>4, <1>5, <1>6, <1>10, <2>2, <3>1, <3>4
      <4> QED
        BY SMTT(30), <1>8, <1>10, <2>2, <3>1, <3>2, <4>1
    <3> QED
      BY <3>3, <3>4
  <2> QED
    BY SMTT(30), <1>1, <2>1, <2>2
<1>11. ASSUME NEW a \in Addresses, NEW d \in Days
       PROVE  /\ Durable'.dailyCount[a][d] = Cardinality(Served(a, d)')
              /\ Cardinality(Served(a, d)') <= DailyCap
  <2>1. /\ IsFiniteSet(Served(a, d)) /\ Cardinality(Served(a, d)) \in Nat
        /\ n + 1 \notin Served(a, d)
    <3>1. n + 1 \notin Served(a, d)
      BY <1>1 DEF Served
    <3> QED
      BY Zenon, <3>1, ServedFinite
  <2>2. Cardinality(Served(a, d)) <= DailyCap
    BY SMTT(30) DEF PolicyInv, PolicyRespected, DailyCapRespected, Served
  <2>3. CASE a = e.address /\ d = day
    <3>1. Served(a, d)' = Served(a, d) \cup {n + 1}
      BY <1>1, <2>3 DEF Served
    <3>2. Cardinality(Served(a, d)') = Cardinality(Served(a, d)) + 1
      BY Zenon, <2>1, <3>1, FS_AddElement
    <3>3. Durable'.dailyCount[a][d] = Durable.dailyCount[a][d] + 1
      BY SMTT(30), <1>3, <1>5, <1>6, <2>3
    <3> QED
      BY SMTT(30), <1>7, <1>8, <2>1, <2>3, <3>2, <3>3, ProfileAssumption
  <2>4. CASE ~(a = e.address /\ d = day)
    <3>1. Served(a, d)' = Served(a, d)
      BY SMTT(30), <1>1, <2>4 DEF Served
    <3>2. Durable'.dailyCount[a][d] = Durable.dailyCount[a][d]
      BY SMTT(30), <1>3, <1>5, <1>6, <2>4
    <3> QED
      BY SMTT(30), <1>8, <2>2, <3>1, <3>2
  <2> QED
    BY <2>3, <2>4
<1>12. Known'
  BY SMTT(30), <1>1, <1>10, <1>11 DEF Known
<1>13. AcceptedOncePerKey'
  <2>1. \A i \in 1..n : journal[i].type = "accepted" => journal[i].key # e.key
    BY <1>7, <1>8
  <2>2. \A i, j \in 1..n : journal[i].type = "accepted" /\ journal[j].type = "accepted"
            /\ journal[i].key = journal[j].key => i = j
    BY <1>1 DEF PolicyInv, PolicyRespected, AcceptedOncePerKey
  <2>3. \A i \in 1..(n + 1) : i \in 1..n \/ i = n + 1
    BY <1>1
  <2> HIDE DEF n
  <2> QED
    BY SMTT(30), <1>1, <2>1, <2>2, <2>3 DEF AcceptedOncePerKey
<1>14. CooldownRespected'
  <2>1. \A i, j \in 1..n : i < j /\ journal[i].type = "accepted" /\ journal[j].type = "accepted"
            /\ journal[i].address = journal[j].address => journal[j].at >= journal[i].at + Cooldown
    BY <1>1 DEF PolicyInv, PolicyRespected, CooldownRespected
  <2>2. \A i, j \in 1..(n + 1) : i < j => i \in 1..n /\ (j \in 1..n \/ j = n + 1)
    BY <1>1
  <2> HIDE DEF n
  <2>3. ASSUME NEW i \in 1..(n + 1), NEW j \in 1..(n + 1), i < j,
               journal'[i].type = "accepted", journal'[j].type = "accepted",
               journal'[i].address = journal'[j].address
        PROVE  journal'[j].at >= journal'[i].at + Cooldown
    <3>1. i \in 1..n /\ journal'[i] = journal[i]
      BY SMTT(30), <1>1, <2>2, <2>3
    <3>2. CASE j \in 1..n
      BY SMTT(30), <1>1, <2>1, <2>3, <3>1, <3>2
    <3>3. CASE j = n + 1
      BY SMTT(30), <1>1, <1>9, <2>3, <3>1, <3>3
    <3> QED
      BY SMTT(30), <2>2, <2>3, <3>2, <3>3
  <2> QED
    BY <1>1, <2>3 DEF CooldownRespected
<1>15. DailyCapRespected'
  BY <1>11 DEF DailyCapRespected, Served
<1> QED
  BY <1>12, <1>13, <1>14, <1>15 DEF PolicyInv, PolicyRespected

LEMMA PolicyStep == IInv /\ PolicyInv /\ [Next]_vars => PolicyInv'
<1> SUFFICES ASSUME IInv, PolicyInv, [Next]_vars PROVE PolicyInv'
  BY SMTT(30)
<1>1. CASE UNCHANGED disk
  BY <1>1 DEF disk, PolicyInv, Known, Durable, Served, PolicyRespected, AcceptedOncePerKey,
              CooldownRespected, DailyCapRespected
<1>2. ASSUME NEW e \in Entry, Writes(e) PROVE PolicyInv'
  <2>1. CASE e.type = "accepted"
    BY <1>2, <2>1, AcceptKeepsPolicy
  <2>2. CASE e.type # "accepted"
    <3> DEFINE n == Len(journal)
    <3>1. /\ Durable'.idempotency = Durable.idempotency
          /\ Durable'.lastAccepted = Durable.lastAccepted
          /\ Durable'.dailyCount = Durable.dailyCount
      <4>1. Durable \in Store /\ Durable' = ApplyEntry(Durable, e)
        BY <1>2, WrittenExtends
      <4> QED
        BY Zenon, <2>2, <4>1, ApplyTables
    <3>2. /\ n \in Nat /\ DOMAIN journal = 1..n /\ DOMAIN journal' = 1..(n + 1)
          /\ journal'[n + 1] = e /\ \A i \in 1..n : journal'[i] = journal[i]
      <4>1. journal \in Seq(Entry) /\ journal' \in Seq(Entry)
        BY SMTT(30), <1>2, WrittenExtends DEF IInv, TypeOK
      <4> QED
        BY SMTT(30), <1>2, <4>1, WrittenExtends
    <3>3. \A i \in DOMAIN journal' : journal'[i].type = "accepted" =>
            i \in DOMAIN journal /\ journal'[i] = journal[i]
      BY <2>2, <3>2
    <3>4. \A i \in DOMAIN journal : i \in DOMAIN journal' /\ journal'[i] = journal[i]
      BY <3>2
    <3>5. ASSUME NEW a, NEW d PROVE Served(a, d)' = Served(a, d)
      BY <3>3, <3>4 DEF Served
    <3>6. Known'
      BY SMTT(30), <3>1, <3>3, <3>5 DEF PolicyInv, Known
    <3>7. AcceptedOncePerKey' /\ CooldownRespected'
      BY SMTT(30), <3>3 DEF PolicyInv, PolicyRespected, AcceptedOncePerKey, CooldownRespected
    <3>8. DailyCapRespected'
      BY <3>5 DEF PolicyInv, PolicyRespected, DailyCapRespected, Served
    <3> QED
      BY <3>6, <3>7, <3>8 DEF PolicyInv, PolicyRespected
  <2> QED
    BY <2>1, <2>2
<1> QED
  BY <1>1, <1>2, JournalSteps

LEMMA PolicyInit == Init => PolicyInv
<1> SUFFICES ASSUME Init PROVE PolicyInv
  OBVIOUS
<1>1. DOMAIN journal = {} /\ Durable = EmptyStore
  BY DEF Init, Durable
<1>2. \A a, d : Served(a, d) = {}
  BY <1>1 DEF Served
<1>3. Cardinality({}) = 0
  BY FS_EmptySet
<1>4. Known
  BY Zenon, <1>1, <1>2, <1>3 DEF Known, EmptyStore
<1>5. AcceptedOncePerKey /\ CooldownRespected
  BY <1>1 DEF AcceptedOncePerKey, CooldownRespected
<1>6. DailyCapRespected
  BY <1>2, <1>3, ProfileAssumption DEF DailyCapRespected, Served
<1> QED
  BY <1>4, <1>5, <1>6 DEF PolicyInv, PolicyRespected

\* However many handlers check before one of them takes the lock, and over any
\* number of restarts, no client key is accepted twice and no address is served
\* inside its cooldown or beyond its daily cap (handleFund, Accept, applyEntry).
THEOREM PolicyIsRespected == Spec => []PolicyRespected
<1>1. PolicyInv => PolicyRespected
  BY DEF PolicyInv
<1> QED
  BY <1>1, PolicyInit, PolicyStep, InitInvariant, NextInvariant, PTL DEF Spec
-----------------------------------------------------------------------------
(* Ownership. *)

\* A step that moves no request keeps the owners.
LEMMA KeepsOwners ==
    ASSUME OwnerInv, phase' = "replaying" <=> phase = "replaying",
           UNCHANGED <<queue, working, todo, orphans>>,
           \A h \in Handlers : Offered(h)' <=> Offered(h),
           \A h \in Handlers : Offered(h) => handlers'[h].id = handlers[h].id,
           \A id \in Ids : Live(id)' <=> Live(id),
           orphans \subseteq Ids
    PROVE  OwnerInv'
<1>1. \A id : InQueue(id)' <=> InQueue(id)
  BY DEF InQueue
<1>2. \A id : InHandler(id)' <=> InHandler(id)
  BY DEF InHandler
<1>3. \A id : Holds(id)' <=> Holds(id)
  BY SMTT(30), <1>1, <1>2 DEF Holds
<1> QED
  BY <1>3 DEF OwnerInv, Placed, Orphaned

\* The requests that are pending after an entry about one of them.
LEMMA RecordedLive ==
    ASSUME IInv, NEW e \in Entry, Record(e)
    PROVE  /\ e.type \in {"paused", "resumed", "refill"} => \A x \in Ids : Live(x)' <=> Live(x)
           /\ e.type \in {"accepted", "submitted", "confirmed", "failed"} =>
                /\ e.id \in Ids
                /\ \A x \in Ids \ {e.id} : Live(x)' <=> Live(x)
                /\ Live(e.id)' <=> e.type \in {"accepted", "submitted"}
<1>1. store \in Store /\ store' = ApplyEntry(store, e)
  BY DEF IInv, TypeOK, Record
<1> QED
  BY <1>1, ApplyStatus DEF Live, Pending

\* The ways of FundEnqueue and WorkerFail, and of RecordConfirmed, to let go of a
\* request: it has ended, or it is an orphan.
LEMMA LetsGo ==
    ASSUME OwnerInv, phase # "replaying", phase' = phase, orphans \subseteq Ids,
           NEW id \in Ids, ~Holds(id)', Live(id), id \notin orphans,
           \A x \in Ids \ {id} : (Live(x)' <=> Live(x)) /\ (Holds(x)' <=> Holds(x)),
           \/ ~Live(id)' /\ orphans' = orphans
           \/ Live(id)' /\ orphans' = orphans \cup {id}
    PROVE  OwnerInv'
BY DEF OwnerInv, Placed, Orphaned

\* A request goes from one pair of hands to another.
LEMMA HandsOver ==
    ASSUME OwnerInv, phase # "replaying", phase' = phase, orphans \subseteq Ids,
           NEW id \in Ids, Holds(id)', id \notin orphans,
           \A x \in Ids \ {id} : (Live(x)' <=> Live(x)) /\ (Holds(x)' <=> Holds(x)),
           UNCHANGED orphans
    PROVE  OwnerInv'
BY DEF OwnerInv, Placed, Orphaned

\* Who holds what after one handler has stopped offering its request.
LEMMA HandlerLetsGo ==
    ASSUME IInv, NEW h \in Handlers, Offered(h), NEW id \in Ids, handlers[h].id = id,
           handlers' = [handlers EXCEPT ![h] = IdleHandler]
    PROVE  /\ ~InHandler(id)'
           /\ \A x : x # id => (InHandler(x)' <=> InHandler(x))
<1>1. /\ handlers'[h] = IdleHandler /\ \A g \in Handlers : g # h => handlers'[g] = handlers[g]
  BY Zenon, HandlerReturns
<1>2. ~Offered(h)' /\ \A g \in Handlers : g # h => (Offered(g)' <=> Offered(g))
  BY <1>1 DEF Offered, IdleHandler
<1>3. handlers[h].id # NoId
  BY HandlerParts, IdAssumption DEF IInv, Offered
<1>4. \A g \in Handlers : g # h => handlers[g].id # id
  BY <1>3 DEF IInv, OwnIds
<1>5. \A x : InHandler(x)' <=> \E g \in Handlers : g # h /\ Offered(g) /\ handlers[g].id = x
  <2>1. \A g \in Handlers : Offered(g)' <=> g # h /\ Offered(g)
    BY Zenon, <1>2
  <2>2. \A g \in Handlers : g # h => handlers'[g].id = handlers[g].id
    BY Zenon, <1>1
  <2> QED
    BY Zenon, <2>1, <2>2 DEF InHandler
<1> QED
  BY Zenon, <1>4, <1>5 DEF InHandler

\* A handler that offers a request is the only one to hold it.
LEMMA HandlerHoldsAlone ==
    ASSUME IInv, OwnerInv, NEW h \in Handlers, Offered(h)
    PROVE  /\ handlers[h].id \in Ids /\ Live(handlers[h].id) /\ phase = "running"
           /\ ~InQueue(handlers[h].id) /\ working # handlers[h].id
           /\ todo = {} /\ handlers[h].id \notin orphans
<1>1. handlers[h].id \in Ids
  BY SMTT(30), HandlerParts DEF IInv, Offered
<1>2. Live(handlers[h].id)
  BY DEF IInv, Owned
<1>3. phase = "running" /\ todo = {}
  BY DEF IInv, Quiet, Offered, IdleHandler
<1>4. ~InQueue(handlers[h].id) /\ working # handlers[h].id
  BY Zenon DEF IInv, Apart, InQueue
<1>5. handlers[h].id \notin orphans
  BY Zenon DEF OwnerInv, Orphaned, Holds, InHandler
<1> QED
  BY SMTT(30), <1>1, <1>2, <1>3, <1>4, <1>5

\* So is the worker.
LEMMA WorkerHoldsAlone ==
    ASSUME IInv, OwnerInv, working # NoId
    PROVE  /\ working \in Ids /\ Live(working) /\ phase = "running"
           /\ ~InQueue(working) /\ ~InHandler(working)
           /\ todo = {} /\ working \notin orphans
<1>1. working \in Ids /\ Live(working)
  BY DEF IInv, TypeOK, Owned
<1>2. phase = "running" /\ todo = {}
  BY DEF IInv, Quiet
<1>3. ~InQueue(working) /\ ~InHandler(working)
  BY Zenon DEF IInv, Apart, InQueue, InHandler
<1>4. working \notin orphans
  BY Zenon DEF OwnerInv, Orphaned, Holds
<1> QED
  BY SMTT(30), <1>1, <1>2, <1>3, <1>4

\* What is held after an element was appended to the queue.
LEMMA QueueGrows ==
    ASSUME queue \in Seq(Ids), NEW id \in Ids, queue' = Append(queue, id)
    PROVE  /\ InQueue(id)'
           /\ \A x : x # id => (InQueue(x)' <=> InQueue(x))
<1>1. /\ Len(queue) \in Nat /\ Len(queue') = Len(queue) + 1 /\ queue'[Len(queue) + 1] = id
      /\ \A i \in 1..Len(queue) : queue'[i] = queue[i]
  OBVIOUS
<1>2. \A i : i \in 1..Len(queue') <=> i \in 1..Len(queue) \/ i = Len(queue) + 1
  BY <1>1
<1> QED
  BY Zenon, <1>1, <1>2 DEF InQueue

LEMMA HandlerKeepsOwners ==
    ASSUME IInv, OwnerInv, NEW h \in Handlers, ~Offered(h), ~Offered(h)',
           \A g \in Handlers : g # h => handlers'[g] = handlers[g],
           UNCHANGED <<store, phase, queue, working, todo, orphans>>
    PROVE  OwnerInv'
<1>1. \A g \in Handlers : Offered(g)' <=> Offered(g)
  BY DEF Offered
<1>2. \A g \in Handlers : Offered(g) => handlers'[g].id = handlers[g].id
  BY Zenon
<1>3. \A id \in Ids : Live(id)' <=> Live(id)
  BY DEF Live
<1>4. orphans \subseteq Ids
  BY SMTT(30) DEF IInv, TypeOK
<1> QED
  BY SMTT(30), <1>1, <1>2, <1>3, <1>4, KeepsOwners

\* The handler's steps before it has journaled its request.
LEMMA FundKeepsOwners ==
    ASSUME IInv, OwnerInv, NEW h \in Handlers,
           FundArrive(h) \/ FundCheck(h) \/ FundTurnedAway(h) \/ FundRefused(h)
    PROVE  OwnerInv'
<1>1. handlers \in [Handlers -> HandlerState]
  BY DEF IInv, TypeOK
<1>2. UNCHANGED <<store, phase, queue, working, todo, orphans>>
  BY DEF FundArrive, FundCheck, FundTurnedAway, FundRefused, AppendFails,
         bootVars, workerVars, bounds
<1>3. ~Offered(h)
  BY SMTT(30) DEF FundArrive, FundCheck, FundTurnedAway, FundRefused, Offered
<1>4. /\ \A g \in Handlers : g # h => handlers'[g] = handlers[g]
      /\ ~Offered(h)'
  <2>1. CASE FundArrive(h)
    BY <1>1, <2>1 DEF FundArrive, Offered
  <2>2. CASE FundCheck(h)
    <3>1. PICK id \in Ids : handlers' = [handlers EXCEPT ![h].pc = "accept", ![h].id = id]
      BY ZenonT(30), <2>2 DEF FundCheck
    <3>2. handlers[h].pc = "check" /\ handlers[h] \in HandlerState
      BY ZenonT(30), <1>1, <2>2 DEF FundCheck
    <3> QED
      BY <1>1, <3>1, <3>2 DEF Offered, HandlerState, IdleHandler
  <2>3. CASE FundTurnedAway(h) \/ FundRefused(h)
    BY <1>1, <2>3 DEF FundTurnedAway, FundRefused, Offered, IdleHandler
  <2> QED
    BY SMTT(30), <2>1, <2>2, <2>3
<1> QED
  BY SMTT(30), <1>2, <1>3, <1>4, HandlerKeepsOwners

LEMMA FundAcceptOwners ==
    ASSUME IInv, OwnerInv, NEW h \in Handlers, FundAccept(h)
    PROVE  OwnerInv'
<1> DEFINE c == handlers[h].call
           e == AcceptedEntry(handlers[h].id, c.key, c.address, c.at)
<1>1. PICK id \in Ids : id = handlers[h].id
  BY SMTT(30), HandlerParts DEF FundAccept, IInv
<1>2. e \in Entry /\ e.type = "accepted" /\ e.id = id
  <2>1. c.key \in ClientKeys /\ c.address \in Addresses /\ c.at \in Times
    BY SMTT(30), HandlerParts DEF FundAccept, IInv, Call
  <2>2. IdempotencyKeyFor(c.key, c.address, c.at) \in ScopedKey
    BY <2>1, BudgetDayType DEF IdempotencyKeyFor, ScopedKey
  <2> QED
    BY Zenon, <1>1, <2>1, <2>2 DEF AcceptedEntry, Entry
<1>3. /\ handlers[h].pc = "accept" /\ Record(e)
      /\ handlers' = [handlers EXCEPT ![h].pc = "enqueue"]
      /\ UNCHANGED <<phase, queue, working, todo, orphans>>
  BY DEF FundAccept, Record, bootVars, workerVars
<1>4. /\ Live(id)' /\ \A x \in Ids \ {id} : Live(x)' <=> Live(x)
  BY SMTT(30), <1>2, <1>3, RecordedLive
<1>5. phase = "running"
  BY <1>3 DEF IInv, Quiet, IdleHandler
<1>6. /\ \A g \in Handlers : g # h => handlers'[g] = handlers[g]
      /\ Offered(h)' /\ handlers'[h].id = id
  BY <1>1, <1>3, HandlerParts DEF IInv, TypeOK, HandlerState, IdleHandler, Offered
<1>7. InHandler(id)' /\ \A x \in Ids \ {id} : InHandler(x)' <=> InHandler(x)
  <2>1. \A g \in Handlers : g # h => (Offered(g)' <=> Offered(g))
    BY <1>6 DEF Offered
  <2> QED
    BY Zenon, <1>1, <1>6, <2>1 DEF InHandler
<1>8. Holds(id)' /\ \A x \in Ids \ {id} : Holds(x)' <=> Holds(x)
  BY <1>3, <1>7 DEF Holds, InQueue
<1>9. id \notin orphans /\ orphans \subseteq Ids
  BY SMTT(60), <1>1, <1>3 DEF OwnerInv, Orphaned, IInv, Owned, Live, Pending, TypeOK
<1> QED
  BY SMTT(30), <1>3, <1>4, <1>5, <1>8, <1>9, HandsOver

LEMMA FundEnqueueOwners ==
    ASSUME IInv, OwnerInv, NEW h \in Handlers, FundEnqueue(h), IInv'
    PROVE  OwnerInv'
<1>1. Offered(h) /\ handlers' = [handlers EXCEPT ![h] = IdleHandler]
      /\ UNCHANGED <<phase, working, todo>>
  BY DEF FundEnqueue, Offered, bootVars, workerVars
<1>2. PICK id \in Ids : id = handlers[h].id
  BY SMTT(30), <1>1, HandlerHoldsAlone
<1>3. /\ Live(id) /\ phase = "running" /\ ~InQueue(id) /\ working # id
      /\ todo = {} /\ id \notin orphans /\ orphans \subseteq Ids
  BY <1>1, <1>2, HandlerHoldsAlone DEF IInv, TypeOK
<1>4. ~InHandler(id)' /\ \A x : x # id => (InHandler(x)' <=> InHandler(x))
  BY Zenon, <1>1, <1>2, HandlerLetsGo
<1>5. CASE queue' = Append(queue, id) /\ UNCHANGED <<store, orphans>>
  <2>1. InQueue(id)' /\ \A x : x # id => (InQueue(x)' <=> InQueue(x))
    BY <1>5, QueueGrows DEF IInv, TypeOK
  <2>2. Holds(id)' /\ \A x \in Ids \ {id} : Holds(x)' <=> Holds(x)
    BY SMTT(30), <1>1, <1>4, <2>1 DEF Holds
  <2>3. \A x \in Ids \ {id} : Live(x)' <=> Live(x)
    BY <1>5 DEF Live
  <2> QED
    BY SMTT(30), <1>1, <1>3, <1>5, <2>2, <2>3, HandsOver
<1>6. ASSUME UNCHANGED queue
      PROVE  ~Holds(id)' /\ \A x \in Ids \ {id} : Holds(x)' <=> Holds(x)
  <2>1. \A x : InQueue(x)' <=> InQueue(x)
    BY <1>6 DEF InQueue
  <2> QED
    BY Zenon, <1>1, <1>3, <1>4, <2>1 DEF Holds
<1>7. CASE Record(FailedEntry(id)) /\ UNCHANGED queue
  <2>1. /\ FailedEntry(id) \in Entry /\ FailedEntry(id).type = "failed"
        /\ FailedEntry(id).id = id
    BY DEF FailedEntry, Entry
  <2>2. ~Live(id)' /\ \A x \in Ids \ {id} : Live(x)' <=> Live(x)
    BY <1>7, <2>1, RecordedLive
  <2>3. UNCHANGED orphans
    BY <1>7 DEF Record
  <2> QED
    BY SMTT(30), <1>1, <1>3, <1>6, <1>7, <2>2, <2>3, LetsGo
<1>8. CASE AppendFails /\ orphans' = orphans \cup {id} /\ UNCHANGED queue
  <2>1. \A x \in Ids : Live(x)' <=> Live(x)
    BY <1>8 DEF AppendFails, Live
  <2> QED
    BY SMTT(30), <1>1, <1>3, <1>6, <1>8, <2>1, LetsGo
<1> QED
  BY Zenon, <1>2, <1>5, <1>7, <1>8 DEF FundEnqueue

LEMMA WorkerTakeOwners ==
    ASSUME IInv, OwnerInv, WorkerTake
    PROVE  OwnerInv'
<1>1. /\ phase = "running" /\ working = NoId /\ queue \in Seq(Ids) /\ queue # <<>>
      /\ working' = Head(queue) /\ queue' = Tail(queue)
      /\ UNCHANGED <<store, phase, todo, handlers, orphans>>
  BY DEF WorkerTake, IInv, TypeOK, bootVars, bounds
<1>2. /\ Len(queue) \in Nat \ {0} /\ Len(queue') = Len(queue) - 1
      /\ \A i \in 1..Len(queue') : queue'[i] = queue[i + 1]
  BY <1>1
<1>3. PICK id \in Ids : id = working' /\ id = queue[1]
  BY <1>1
<1>4. \A x \in Ids : InQueue(x) <=> x = id \/ InQueue(x)'
  <2>1. ASSUME NEW x \in Ids, NEW i \in 1..Len(queue), queue[i] = x, x # id
        PROVE  InQueue(x)'
    <3>1. i - 1 \in 1..Len(queue') /\ queue'[i - 1] = queue[i]
      BY <1>2, <1>3, <2>1
    <3> QED
      BY <2>1, <3>1 DEF InQueue
  <2>2. ASSUME NEW x \in Ids, NEW i \in 1..Len(queue'), queue'[i] = x
        PROVE  InQueue(x)
    <3>1. i + 1 \in 1..Len(queue) /\ queue[i + 1] = x
      BY <1>2, <2>2
    <3> QED
      BY <3>1 DEF InQueue
  <2>3. InQueue(id)
    <3>1. 1 \in 1..Len(queue)
      BY <1>2
    <3> QED
      BY <1>3, <3>1 DEF InQueue
  <2> QED
    BY Zenon, <2>1, <2>2, <2>3 DEF InQueue
<1>5. \A x \in Ids : (Live(x)' <=> Live(x)) /\ (InHandler(x)' <=> InHandler(x))
  BY <1>1 DEF Live, InHandler, Offered
<1>6. \A x \in Ids \ {id} : Holds(x)' <=> Holds(x)
  <2>1. \A x \in Ids : x # working
    BY SMTT(30), <1>1, IdAssumption
  <2> QED
    BY SMTT(30), <1>1, <1>3, <1>4, <1>5, <2>1 DEF Holds
<1>7. Holds(id)' /\ id \notin orphans /\ orphans \subseteq Ids
  BY <1>3, <1>4 DEF Holds, OwnerInv, Orphaned, IInv, TypeOK
<1> QED
  BY SMTT(30), <1>1, <1>5, <1>6, <1>7, HandsOver

\* process at work on its request.
LEMMA WorkerOwners ==
    ASSUME IInv, OwnerInv, Worker, ~WorkerTake
    PROVE  OwnerInv'
<1>1. /\ working # NoId
      /\ UNCHANGED <<phase, todo, queue, handlers>>
  <2>1. step # "top" => working # NoId
    BY DEF IInv, Quiet
  <2> QED
    BY <2>1 DEF Worker, WorkerBegin, WorkerDefer, WorkerSubmit, WorkerSubmitFails, WorkerConfirm,
                WorkerTerminal, WorkerFail, bootVars
<1>2. PICK id \in Ids : id = working
  BY SMTT(30), <1>1, WorkerHoldsAlone
<1>3. /\ Live(id) /\ phase = "running" /\ ~InQueue(id) /\ ~InHandler(id) /\ todo = {}
      /\ id \notin orphans /\ orphans \subseteq Ids /\ id # NoId
  BY SMTT(30), <1>1, <1>2, WorkerHoldsAlone DEF IInv, TypeOK
<1>4. \A x \in Ids : (InQueue(x)' <=> InQueue(x)) /\ (InHandler(x)' <=> InHandler(x))
  BY <1>1 DEF InQueue, InHandler, Offered
<1>5. CASE UNCHANGED <<working, orphans>> /\ \A x \in Ids : Live(x)' <=> Live(x)
  <2>1. \A x \in Ids : Holds(x)' <=> Holds(x)
    BY SMTT(30), <1>1, <1>4, <1>5 DEF Holds
  <2> QED
    BY SMTT(30), <1>1, <1>3, <1>5, <2>1 DEF OwnerInv, Placed, Orphaned
<1>6. ASSUME working' = NoId
      PROVE  ~Holds(id)' /\ \A x \in Ids \ {id} : Holds(x)' <=> Holds(x)
  <2>1. \A x \in Ids : x # NoId
    BY IdAssumption
  <2> QED
    BY SMTT(30), <1>1, <1>2, <1>3, <1>4, <1>6, <2>1 DEF Holds
<1>7. ASSUME NEW e \in Entry, Record(e), e.type \in {"confirmed", "failed"}, e.id = id,
             working' = NoId
      PROVE  OwnerInv'
  <2>1. ~Live(id)' /\ \A x \in Ids \ {id} : Live(x)' <=> Live(x)
    BY <1>7, RecordedLive
  <2>2. UNCHANGED orphans
    BY SMTT(30), <1>7 DEF Record
  <2> QED
    BY SMTT(30), <1>1, <1>3, <1>6, <1>7, <2>1, <2>2, LetsGo
<1>8. CASE WorkerBegin \/ WorkerDefer \/ WorkerTerminal
  BY SMTT(30), <1>5, <1>8 DEF WorkerBegin, WorkerDefer, WorkerTerminal, bounds, Live
<1>9. CASE WorkerSubmit
  <2>1. PICK sub \in Submissions : Record(SubmittedEntry(id, sub))
    BY SMTT(30), <1>2, <1>9 DEF WorkerSubmit
  <2>2. /\ SubmittedEntry(id, sub) \in Entry /\ SubmittedEntry(id, sub).type = "submitted"
        /\ SubmittedEntry(id, sub).id = id
    BY DEF SubmittedEntry, Entry
  <2>3. \A x \in Ids : Live(x)' <=> Live(x)
    BY SMTT(30), <1>3, <2>1, <2>2, RecordedLive
  <2> QED
    BY SMTT(30), <1>5, <1>9, <2>1, <2>3 DEF WorkerSubmit, Record
<1>10. CASE WorkerSubmitFails
  BY SMTT(30), <1>5, <1>10 DEF WorkerSubmitFails, AppendFails, Live
<1>11. CASE WorkerConfirm
  <2>1. /\ ConfirmedEntry(id) \in Entry /\ ConfirmedEntry(id).type = "confirmed"
        /\ ConfirmedEntry(id).id = id
    BY DEF ConfirmedEntry, Entry
  <2>2. CASE Record(ConfirmedEntry(id)) /\ working' = NoId
    BY <1>7, <2>1, <2>2
  <2>3. CASE AppendFails /\ UNCHANGED <<working, orphans>>
    BY <1>5, <2>3 DEF AppendFails, Live
  <2> QED
    BY SMTT(30), <1>2, <1>11, <2>2, <2>3 DEF WorkerConfirm
<1>12. CASE WorkerFail
  <2>1. /\ FailedEntry(id) \in Entry /\ FailedEntry(id).type = "failed"
        /\ FailedEntry(id).id = id
    BY DEF FailedEntry, Entry
  <2>2. CASE Record(FailedEntry(id)) /\ working' = NoId
    BY SMTT(30), <1>7, <2>1, <2>2
  <2>3. CASE AppendFails /\ orphans' = orphans \cup {id} /\ working' = NoId
    <3>1. \A x \in Ids : Live(x)' <=> Live(x)
      BY <2>3 DEF AppendFails, Live
    <3> QED
      BY SMTT(30), <1>1, <1>3, <1>6, <2>3, <3>1, LetsGo
  <2> QED
    BY SMTT(30), <1>2, <1>12, <2>2, <2>3 DEF WorkerFail
<1> QED
  BY SMTT(30), <1>8, <1>9, <1>10, <1>11, <1>12 DEF Worker

LEMMA ReconcileOwners ==
    ASSUME IInv, OwnerInv, ReconcileRequest
    PROVE  OwnerInv'
<1>1. PICK id \in todo :
        /\ todo' = todo \ {id}
        /\ \/ queue' = Append(queue, id) /\ UNCHANGED <<store, orphans>>
           \/ Record(FailedEntry(id)) /\ UNCHANGED queue
  BY ZenonT(30) DEF ReconcileRequest
<1>2. /\ phase = "reconciling" /\ UNCHANGED <<phase, working, handlers>>
      /\ id \in Ids /\ Live(id) /\ id # NoId /\ orphans \subseteq Ids
  BY SMTT(30), IdAssumption DEF ReconcileRequest, IInv, Owned, TypeOK, workerVars
<1>3. /\ working = NoId /\ ~InHandler(id)
  BY <1>2 DEF IInv, Quiet, InHandler, Offered, IdleHandler
<1>4. ~InQueue(id)
  BY Zenon DEF IInv, Apart, InQueue
<1>5. id \notin orphans
  BY DEF OwnerInv, Orphaned, Holds
<1>6. \A x \in Ids : InHandler(x)' <=> InHandler(x)
  BY <1>2 DEF InHandler, Offered
<1>7. CASE queue' = Append(queue, id) /\ UNCHANGED <<store, orphans>>
  <2>1. InQueue(id)' /\ \A x : x # id => (InQueue(x)' <=> InQueue(x))
    BY SMTT(30), <1>2, <1>7, QueueGrows DEF IInv, TypeOK
  <2>2. Holds(id)' /\ \A x \in Ids \ {id} : Holds(x)' <=> Holds(x)
    BY SMTT(30), <1>1, <1>2, <1>6, <2>1 DEF Holds
  <2>3. \A x \in Ids \ {id} : Live(x)' <=> Live(x)
    BY <1>7 DEF Live
  <2> QED
    BY SMTT(30), <1>2, <1>5, <1>7, <2>2, <2>3, HandsOver
<1>8. CASE Record(FailedEntry(id)) /\ UNCHANGED queue
  <2>1. /\ FailedEntry(id) \in Entry /\ FailedEntry(id).type = "failed"
        /\ FailedEntry(id).id = id
    BY SMTT(30), <1>2 DEF FailedEntry, Entry
  <2>2. ~Live(id)' /\ \A x \in Ids \ {id} : Live(x)' <=> Live(x)
    BY SMTT(30), <1>2, <1>8, <2>1, RecordedLive
  <2>3. \A x \in Ids : InQueue(x)' <=> InQueue(x)
    BY <1>8 DEF InQueue
  <2>4. ~Holds(id)' /\ \A x \in Ids \ {id} : Holds(x)' <=> Holds(x)
    BY SMTT(30), <1>1, <1>2, <1>3, <1>4, <1>6, <2>3 DEF Holds
  <2>5. UNCHANGED orphans
    BY SMTT(30), <1>8 DEF Record
  <2> QED
    BY SMTT(30), <1>2, <1>5, <2>2, <2>4, <2>5, LetsGo
<1> QED
  BY <1>1, <1>7, <1>8

\* Steps that neither touch a request nor move one.
LEMMA StillOwners ==
    ASSUME IInv, OwnerInv, phase' = "replaying" <=> phase = "replaying",
           UNCHANGED <<queue, working, todo, orphans, handlers>>,
           \A x \in Ids : Live(x)' <=> Live(x)
    PROVE  OwnerInv'
<1>1. \A h \in Handlers : (Offered(h)' <=> Offered(h)) /\ handlers'[h].id = handlers[h].id
  BY DEF Offered
<1>2. orphans \subseteq Ids
  BY DEF IInv, TypeOK
<1> QED
  BY SMTT(30), <1>1, <1>2, KeepsOwners

LEMMA BootOwners ==
    ASSUME IInv, OwnerInv, Boot
    PROVE  OwnerInv'
<1>1. CASE ReplayEntry
  BY <1>1 DEF ReplayEntry, OwnerInv, Placed, Orphaned, bounds
<1>2. CASE ReplayDone
  <2>1. /\ orphans' = {} /\ todo' = PendingIds(store) /\ UNCHANGED store
        /\ phase' = "reconciling"
    BY <1>2 DEF ReplayDone, OwnerInv, Orphaned, bounds
  <2>2. \A x \in Ids : Live(x)' => x \in todo'
    BY <2>1 DEF Live, PendingIds
  <2> QED
    BY <2>1, <2>2 DEF OwnerInv, Placed, Orphaned, Holds
<1>3. CASE ReconcileRequest
  BY <1>3, ReconcileOwners
<1>4. CASE ReconcileDone
  <2>1. \A x \in Ids : Live(x)' <=> Live(x)
    BY <1>4 DEF ReconcileDone, Live
  <2> QED
    BY SMTT(30), <1>4, <2>1, StillOwners DEF ReconcileDone, workerVars, bounds
<1> QED
  BY SMTT(30), <1>1, <1>2, <1>3, <1>4 DEF Boot

LEMMA OwnerStep == IInv /\ OwnerInv /\ [Next]_vars /\ IInv' => OwnerInv'
<1> SUFFICES ASSUME IInv, OwnerInv, [Next]_vars, IInv'
             PROVE  OwnerInv'
  OBVIOUS
<1>1. ASSUME NEW h \in Handlers, Fund(h)
      PROVE  OwnerInv'
  BY SMTT(30), <1>1, FundKeepsOwners, FundAcceptOwners, FundEnqueueOwners DEF Fund
<1>2. CASE Worker
  BY SMTT(30), <1>2, WorkerTakeOwners, WorkerOwners
<1>3. ASSUME NEW e \in {PausedEntry, ResumedEntry, RefillEntry}, Administer(e)
      PROVE  OwnerInv'
  <2>1. e \in Entry /\ e.type \in {"paused", "resumed", "refill"}
    BY DEF PausedEntry, ResumedEntry, RefillEntry, Entry
  <2>2. /\ Record(e)
        /\ UNCHANGED <<phase, queue, working, todo, orphans, handlers>>
    BY <1>3 DEF Administer, Record, bootVars, workerVars
  <2>3. \A x \in Ids : Live(x)' <=> Live(x)
    BY SMTT(30), <2>1, <2>2, RecordedLive
  <2> QED
    BY SMTT(30), <2>2, <2>3, StillOwners
<1>4. CASE Tick \/ UNCHANGED vars
  <2>1. UNCHANGED <<store, phase, queue, working, todo, orphans, handlers>>
    BY <1>4 DEF Tick, vars, bootVars, workerVars, bounds
  <2>2. \A x \in Ids : Live(x)' <=> Live(x)
    BY <2>1 DEF Live
  <2> QED
    BY SMTT(30), <2>1, <2>2, StillOwners
<1>5. CASE Crash
  BY <1>5 DEF Crash, OwnerInv, Placed, Orphaned
<1>6. CASE Boot
  BY <1>6, BootOwners
<1> QED
  BY SMTT(30), <1>1, <1>2, <1>3, <1>4, <1>5, <1>6 DEF Next, Pause, Resume, ObserveRefill

LEMMA OwnerInit == Init => OwnerInv
BY DEF Init, OwnerInv, Placed, Orphaned

\* No two places hold one request, so the places of a request are none or one.
LEMMA OnePlace ==
    ASSUME IInv, OwnerInv, phase # "replaying", NEW id \in Ids
    PROVE  Cardinality(Places(id)) = IF Live(id) THEN 1 ELSE 0
<1>1. DOMAIN queue = 1..Len(queue) /\ id # NoId
  BY IdAssumption DEF IInv, TypeOK
<1>2. CASE ~Live(id)
  <2>1. Places(id) = {}
    <3>1. \A h \in Handlers : ~(handlers[h].pc = "enqueue" /\ handlers[h].id = id)
      BY SMTT(30), <1>2 DEF IInv, Owned, Offered
    <3>2. \A i \in DOMAIN queue : queue[i] # id
      BY SMTT(30), <1>1, <1>2 DEF IInv, Owned
    <3>3. working # id /\ id \notin todo /\ id \notin orphans
      BY <1>1, <1>2 DEF IInv, Owned, OwnerInv, Orphaned
    <3> QED
      BY ZenonT(30), <3>1, <3>2, <3>3 DEF Places
  <2> QED
    BY <1>2, <2>1, FS_EmptySet
<1>3. CASE id \in orphans
  <2>1. Live(id) /\ ~Holds(id)
    BY <1>3 DEF OwnerInv, Orphaned
  <2>2. Places(id) = {<<"orphan", id>>}
    BY Zenon, <1>1, <1>3, <2>1 DEF Places, Holds, InQueue, InHandler, Offered
  <2> QED
    BY Zenon, <2>1, <2>2, FS_Singleton
<1>4. ASSUME Holds(id)
      PROVE  id \notin orphans /\ \E p : Places(id) = {p}
  <2>1. id \notin orphans
    BY <1>4 DEF OwnerInv, Orphaned
  <2>2. CASE InHandler(id)
    <3>1. PICK h \in Handlers : Offered(h) /\ handlers[h].id = id
      BY <2>2 DEF InHandler
    <3>2. ~InQueue(id) /\ working # id /\ todo = {}
      BY SMTT(30), <3>1, HandlerHoldsAlone
    <3>3. \A g \in Handlers : handlers[g].id = id => g = h
      BY <1>1, <3>1 DEF IInv, OwnIds
    <3>4. Places(id) = {<<"handler", h>>}
      BY Zenon, <1>1, <2>1, <3>1, <3>2, <3>3 DEF Places, InQueue, Offered
    <3> QED
      BY Zenon, <2>1, <3>4
  <2>3. CASE working = id
    <3>1. ~InQueue(id) /\ ~InHandler(id) /\ todo = {}
      BY <1>1, <2>3, WorkerHoldsAlone
    <3>2. Places(id) = {<<"worker", id>>}
      BY Zenon, <1>1, <2>1, <2>3, <3>1 DEF Places, InQueue, InHandler, Offered
    <3> QED
      BY Zenon, <2>1, <3>2
  <2>4. CASE InQueue(id) /\ ~InHandler(id) /\ working # id
    <3>1. PICK i \in 1..Len(queue) : queue[i] = id
      BY <2>4 DEF InQueue
    <3>2. id \notin todo /\ \A j \in 1..Len(queue) : queue[j] = id => j = i
      BY Zenon, <3>1 DEF IInv, Apart
    <3>3. Places(id) = {<<"queue", i>>}
      BY Zenon, <1>1, <2>1, <2>4, <3>1, <3>2 DEF Places, InHandler, Offered
    <3> QED
      BY Zenon, <2>1, <3>3
  <2>5. CASE ~InQueue(id) /\ ~InHandler(id) /\ working # id
    <3>1. id \in todo
      BY <1>4, <2>5 DEF Holds
    <3>2. Places(id) = {<<"todo", id>>}
      BY Zenon, <1>1, <2>1, <2>5, <3>1 DEF Places, InQueue, InHandler, Offered
    <3> QED
      BY Zenon, <2>1, <3>2
  <2> QED
    BY Zenon, <2>2, <2>3, <2>4, <2>5
<1>5. CASE Live(id) /\ id \notin orphans
  <2>1. PICK p : Places(id) = {p}
    BY <1>4, <1>5 DEF OwnerInv, Placed
  <2> QED
    BY Zenon, <1>5, <2>1, FS_Singleton
<1> QED
  BY SMTT(30), <1>2, <1>3, <1>5

\* After start-up every pending request is in exactly one place, and a request that
\* is not pending is in none: process never meets a finished request and no request
\* is lost between handleFund, the queue, process and reconcile, unless the error of
\* its RecordFailed was dropped.
THEOREM PendingIsOwnedOnce == Spec => []PendingOwnedOnce
<1>1. Init => IInv /\ OwnerInv
  BY InitInvariant, OwnerInit
<1>2. IInv /\ OwnerInv /\ [Next]_vars => (IInv /\ OwnerInv)'
  BY NextInvariant, OwnerStep
<1>3. IInv /\ OwnerInv => PendingOwnedOnce
  BY OnePlace DEF PendingOwnedOnce, Live
<1> QED
  BY <1>1, <1>2, <1>3, PTL DEF Spec
=============================================================================
