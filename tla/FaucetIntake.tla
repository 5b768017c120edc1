---------------------------- MODULE FaucetIntake ----------------------------
(***************************************************************************)
(* The public faucet service from the HTTP handler to the end of a         *)
(* request: concurrent handleFund calls, the journal-backed store, the     *)
(* bounded queue, the single worker goroutine, the operator's pause        *)
(* switch, and crash, replay and reconciliation.                           *)
(*                                                                         *)
(* The worker is reduced to what it does to the store (module FaucetWorker *)
(* has its signing and settling steps).  An Append may fail cleanly: the   *)
(* caller sees an error and nothing is written (module FaucetJournal has   *)
(* the other ways of failing).                                             *)
(***************************************************************************)
EXTENDS FaucetStore

CONSTANTS Handlers,       \* concurrent handleFund calls
          QueueCapacity,  \* profile.QueueCapacity
          MaxJournal,     \* bound: no re-submission or operator entry beyond
          MaxIOErrors,    \* bound: failed Append calls
          MaxCrashes      \* bound: crashes

ASSUME IntakeAssumption ==
    /\ QueueCapacity \in Nat \ {0}
    /\ MaxJournal \in Nat
    /\ MaxIOErrors \in Nat
    /\ MaxCrashes \in Nat

VARIABLES store,     \* the in-memory store
          journal,   \* the durable entries
          hist,      \* history: the store value after each durable entry
          phase,     \* "replaying", "reconciling" or "running"
          cursor,    \* replay: the next entry to apply
          todo,      \* reconcile: pending requests not yet re-enqueued
          queue,     \* worker.queue
          working,   \* the request process() owns, or NoId
          step,      \* where process() is
          handlers,  \* the handleFund calls in flight
          now,       \* the clock
          ioErrors,  \* failed Append calls so far
          orphans,   \* history: RecordFailed failed and its error was dropped
          crashes    \* crashes so far

disk == <<journal, hist>>
bootVars == <<phase, cursor, todo>>
workerVars == <<working, step>>
bounds == <<ioErrors, orphans, crashes>>
vars == <<store, disk, bootVars, queue, workerVars, handlers, now, bounds>>

Call == [address : Addresses, key : ClientKeys, at : Times]

NoCall == "none"

IdleHandler == [pc |-> "idle", call |-> NoCall, id |-> NoId]

HandlerState ==
    {IdleHandler}
        \cup [pc : {"check"}, call : Call, id : {NoId}]
        \cup [pc : {"accept", "enqueue"}, call : Call, id : Ids]

\* The state a replay of the whole journal arrives at.
Durable == hist[Len(hist)]
-----------------------------------------------------------------------------
Init ==
    /\ store = EmptyStore
    /\ journal = <<>>
    /\ hist = <<EmptyStore>>
    /\ phase = "replaying"
    /\ cursor = 1
    /\ todo = {}
    /\ queue = <<>>
    /\ working = NoId
    /\ step = "top"
    /\ handlers = [h \in Handlers |-> IdleHandler]
    /\ now = 0
    /\ ioErrors = 0
    /\ orphans = {}
    /\ crashes = 0

\* Append made the entry durable, then applyEntry ran, all under the lock.
Record(e) ==
    /\ journal' = Append(journal, e)
    /\ store' = ApplyEntry(store, e)
    /\ hist' = Append(hist, ApplyEntry(store, e))
    /\ UNCHANGED <<ioErrors, orphans>>

\* Append returned an error: neither the disk nor the store changed.
AppendFails ==
    /\ ioErrors < MaxIOErrors
    /\ ioErrors' = ioErrors + 1
    /\ UNCHANGED <<store, disk>>
-----------------------------------------------------------------------------
(* handleFund. *)

\* A well-formed call passed the rate limiter and the challenge and read the
\* clock; everything below uses that instant.
FundArrive(h) ==
    /\ phase = "running"
    /\ handlers[h].pc = "idle"
    /\ \E a \in Addresses, k \in ClientKeys :
        handlers' = [handlers EXCEPT
            ![h] = [pc |-> "check", id |-> NoId,
                    call |-> [address |-> a, key |-> k, at |-> now]]]
    /\ UNCHANGED <<store, disk, bootVars, queue, workerVars, now, bounds>>

Fresh(id) ==
    /\ Durable.requests[id].status = "absent"
    /\ \A h \in Handlers : handlers[h].id # id

\* The call is not a replay and the budget breaker is closed; newRequestID.
FundCheck(h) ==
    /\ handlers[h].pc = "check"
    /\ LET c == handlers[h].call
       IN /\ ~Replayed(store, c.key, c.address, c.at)
          /\ ~BudgetSpent(store, c.at)
    /\ \E id \in Ids :
        /\ Fresh(id)
        /\ handlers' = [handlers EXCEPT ![h].pc = "accept", ![h].id = id]
    /\ UNCHANGED <<store, disk, bootVars, queue, workerVars, now, bounds>>

\* The other ways out of the checks: the call is answered from the original
\* request, a breaker is open, or no identifier could be generated.
FundTurnedAway(h) ==
    /\ handlers[h].pc = "check"
    /\ handlers' = [handlers EXCEPT ![h] = IdleHandler]
    /\ UNCHANGED <<store, disk, bootVars, queue, workerVars, now, bounds>>

\* store.Accept returned the original request, a denial, or the error of its
\* Append.
FundRefused(h) ==
    /\ handlers[h].pc = "accept"
    /\ LET c == handlers[h].call
           refused == \/ Replayed(store, c.key, c.address, c.at)
                      \/ Denied(store, c.address, c.at)
       IN \/ refused /\ UNCHANGED <<store, disk, ioErrors>>
          \/ ~refused /\ AppendFails
    /\ handlers' = [handlers EXCEPT ![h] = IdleHandler]
    /\ UNCHANGED <<bootVars, queue, workerVars, now, orphans, crashes>>

\* Mutant: Accept trusts the replay check made before the lock.
FundAcceptUnchecked(h) ==
    /\ handlers[h].pc = "accept"
    /\ LET c == handlers[h].call
       IN /\ ~Denied(store, c.address, c.at)
          /\ Record(AcceptedEntry(handlers[h].id, c.key, c.address, c.at))
    /\ handlers' = [handlers EXCEPT ![h].pc = "enqueue"]
    /\ UNCHANGED <<bootVars, queue, workerVars, now, crashes>>

\* store.Accept accepted.
FundAccept(h) ==
    /\ handlers[h].pc = "accept"
    /\ LET c == handlers[h].call
       IN /\ ~Replayed(store, c.key, c.address, c.at)
          /\ ~Denied(store, c.address, c.at)
          /\ Record(AcceptedEntry(handlers[h].id, c.key, c.address, c.at))
    /\ handlers' = [handlers EXCEPT ![h].pc = "enqueue"]
    /\ UNCHANGED <<bootVars, queue, workerVars, now, crashes>>

\* TryEnqueue, and RecordFailed when the queue is full.
FundEnqueue(h) ==
    /\ handlers[h].pc = "enqueue"
    /\ LET id == handlers[h].id
       IN \/ /\ Len(queue) < QueueCapacity
             /\ queue' = Append(queue, id)
             /\ UNCHANGED <<store, disk, ioErrors, orphans>>
          \/ /\ Len(queue) >= QueueCapacity
             /\ Record(FailedEntry(id))
             /\ UNCHANGED queue
          \/ /\ Len(queue) >= QueueCapacity
             /\ AppendFails
             /\ orphans' = orphans \cup {id}
             /\ UNCHANGED queue
    /\ handlers' = [handlers EXCEPT ![h] = IdleHandler]
    /\ UNCHANGED <<bootVars, workerVars, now, crashes>>
-----------------------------------------------------------------------------
(* The worker goroutine: loop and process.  step is "top" at the head of    *)
(* the loop in process, "attempt" once the checks there have passed, "sent" *)
(* while fundOnce waits for the receipt, "failing" after a terminal error.  *)

WorkerTake ==
    /\ phase = "running"
    /\ working = NoId
    /\ queue # <<>>
    /\ working' = Head(queue)
    /\ queue' = Tail(queue)
    /\ UNCHANGED <<store, disk, bootVars, step, handlers, now, bounds>>

\* Mutant: a request that was submitted before is not taken up again.
WorkerBeginQueued ==
    /\ working # NoId
    /\ step = "top"
    /\ store.requests[working].status = "queued"
    /\ ~store.paused
    /\ step' = "attempt"
    /\ UNCHANGED <<store, disk, bootVars, queue, working, handlers, now, bounds>>

\* The request is not in a final state, the service is not paused, and the
\* breakers the worker asks are closed.
WorkerBegin ==
    /\ working # NoId
    /\ step = "top"
    /\ store.requests[working].status \in Pending
    /\ ~store.paused
    /\ step' = "attempt"
    /\ UNCHANGED <<store, disk, bootVars, queue, working, handlers, now, bounds>>

\* A transient fault or a submission of unknown fate: sleep, then start over.
WorkerDefer ==
    /\ step \in {"attempt", "sent"}
    /\ step' = "top"
    /\ UNCHANGED <<store, disk, bootVars, queue, working, handlers, now, bounds>>

\* RecordSubmitted.  fundOnce goes on to wait for the receipt; a replacement
\* of a stuck submission goes back to the top.
WorkerSubmit ==
    /\ step = "attempt"
    /\ \/ store.requests[working].status = "queued"
       \/ Len(journal) < MaxJournal
    /\ \E sub \in Submissions : Record(SubmittedEntry(working, sub))
    /\ \/ step' = "sent"
       \/ store.requests[working].status = "submitted" /\ step' = "top"
    /\ UNCHANGED <<bootVars, queue, working, handlers, now, crashes>>

\* RecordSubmitted returned an error: terminal in fundOnce, but a replacement
\* is only deferred.
WorkerSubmitFails ==
    /\ step = "attempt"
    /\ AppendFails
    /\ \/ step' = "failing"
       \/ store.requests[working].status = "submitted" /\ step' = "top"
    /\ UNCHANGED <<bootVars, queue, working, handlers, now, orphans, crashes>>

\* Mutant: a receipt is believed although nothing has been submitted.
WorkerConfirmUnsent ==
    /\ step \in {"attempt", "sent"}
    /\ \/ Record(ConfirmedEntry(working)) /\ working' = NoId
       \/ AppendFails /\ UNCHANGED <<working, orphans>>
    /\ step' = "top"
    /\ UNCHANGED <<bootVars, queue, handlers, now, crashes>>

\* A receipt of success: RecordConfirmed, retried when it returns an error.
WorkerConfirm ==
    /\ step \in {"attempt", "sent"}
    /\ store.requests[working].status = "submitted"
    /\ \/ Record(ConfirmedEntry(working)) /\ working' = NoId
       \/ AppendFails /\ UNCHANGED <<working, orphans>>
    /\ step' = "top"
    /\ UNCHANGED <<bootVars, queue, handlers, now, crashes>>

\* The transaction reverted, or fundOnce returned a terminal error.
WorkerTerminal ==
    /\ step \in {"attempt", "sent"}
    /\ step' = "failing"
    /\ UNCHANGED <<store, disk, bootVars, queue, working, handlers, now, bounds>>

\* Mutant: the store is changed before the entry is durable.
WorkerFailApplyFirst ==
    /\ step = "failing"
    /\ \/ Record(FailedEntry(working))
       \/ /\ ioErrors < MaxIOErrors
          /\ ioErrors' = ioErrors + 1
          /\ store' = ApplyEntry(store, FailedEntry(working))
          /\ UNCHANGED <<disk, orphans>>
    /\ working' = NoId
    /\ step' = "top"
    /\ UNCHANGED <<bootVars, queue, handlers, now, crashes>>

\* RecordFailed; process drops the error it returns.
WorkerFail ==
    /\ step = "failing"
    /\ \/ Record(FailedEntry(working))
       \/ AppendFails /\ orphans' = orphans \cup {working}
    /\ working' = NoId
    /\ step' = "top"
    /\ UNCHANGED <<bootVars, queue, handlers, now, crashes>>
-----------------------------------------------------------------------------
(* The operator, the clock, the balance probe. *)

\* An entry of the operator or of the balance probe.  When its Append fails
\* the caller sees the error and nothing has changed.
Administer(e) ==
    /\ phase = "running"
    /\ Len(journal) < MaxJournal
    /\ Record(e)
    /\ UNCHANGED <<bootVars, queue, workerVars, handlers, now, crashes>>

Pause == Administer(PausedEntry)

Resume == Administer(ResumedEntry)

ObserveRefill == Administer(RefillEntry)

Tick ==
    /\ now < MaxTime
    /\ now' = now + 1
    /\ UNCHANGED <<store, disk, bootVars, queue, workerVars, handlers, bounds>>
-----------------------------------------------------------------------------
(* Crash and start: NewStore replays, Worker.Start reconciles, then the    *)
(* worker loop and the listeners run.                                      *)

Crash ==
    /\ crashes < MaxCrashes
    /\ crashes' = crashes + 1
    /\ store' = EmptyStore
    /\ phase' = "replaying"
    /\ cursor' = 1
    /\ todo' = {}
    /\ queue' = <<>>
    /\ working' = NoId
    /\ step' = "top"
    /\ handlers' = [h \in Handlers |-> IdleHandler]
    /\ orphans' = {}
    /\ UNCHANGED <<disk, now, ioErrors>>

\* One round of the loop in NewStore.
ReplayEntry ==
    /\ phase = "replaying"
    /\ cursor <= Len(journal)
    /\ Explains(store, journal[cursor])
    /\ store' = ApplyEntry(store, journal[cursor])
    /\ cursor' = cursor + 1
    /\ UNCHANGED <<disk, phase, todo, queue, workerVars, handlers, now, bounds>>

ReplayDone ==
    /\ phase = "replaying"
    /\ cursor > Len(journal)
    /\ phase' = "reconciling"
    /\ todo' = PendingIds(store)
    /\ UNCHANGED <<store, disk, cursor, queue, workerVars, handlers, now, bounds>>

\* One round of the loop in reconcile.  An error here ends the process, which
\* is a Crash.
ReconcileRequest ==
    /\ phase = "reconciling"
    /\ \E id \in todo :
        /\ \A other \in todo \ {id} : Before(store, id, other)
        /\ todo' = todo \ {id}
        /\ \/ /\ Len(queue) < QueueCapacity
              /\ queue' = Append(queue, id)
              /\ UNCHANGED <<store, disk, ioErrors, orphans>>
           \/ /\ Len(queue) >= QueueCapacity
              /\ Record(FailedEntry(id))
              /\ UNCHANGED queue
    /\ UNCHANGED <<phase, cursor, workerVars, handlers, now, crashes>>

ReconcileDone ==
    /\ phase = "reconciling"
    /\ todo = {}
    /\ phase' = "running"
    /\ UNCHANGED <<store, disk, cursor, todo, queue, workerVars, handlers, now, bounds>>
-----------------------------------------------------------------------------
Fund(h) ==
    \/ FundArrive(h)
    \/ FundCheck(h)
    \/ FundTurnedAway(h)
    \/ FundRefused(h)
    \/ FundAccept(h)
    \/ FundEnqueue(h)

Worker ==
    \/ WorkerTake
    \/ WorkerBegin
    \/ WorkerDefer
    \/ WorkerSubmit
    \/ WorkerSubmitFails
    \/ WorkerConfirm
    \/ WorkerTerminal
    \/ WorkerFail

Boot == ReplayEntry \/ ReplayDone \/ ReconcileRequest \/ ReconcileDone

Next ==
    \/ \E h \in Handlers : Fund(h)
    \/ Worker
    \/ Pause
    \/ Resume
    \/ ObserveRefill
    \/ Tick
    \/ Crash
    \/ Boot

Spec == Init /\ [][Next]_vars

\* The process is scheduled: start-up runs to its end, a handler that has
\* journaled a request offers it to the queue, the worker takes from the queue
\* and leaves its sleeps.  The chain answers in the end: an attempt made again
\* and again is not deferred for ever.
Fairness ==
    /\ WF_vars(Boot)
    /\ \A h \in Handlers : WF_vars(FundEnqueue(h))
    /\ WF_vars(WorkerTake)
    /\ WF_vars(WorkerBegin)
    /\ SF_vars(WorkerSubmit)
    /\ SF_vars(WorkerConfirm)
    /\ WF_vars(WorkerFail)

FairSpec == Spec /\ Fairness
-----------------------------------------------------------------------------
(* Properties. *)

\* Every variable has its type.
TypeOK ==
    /\ store \in Store
    /\ journal \in Seq(Entry)
    /\ hist \in Seq(Store)
    /\ phase \in {"replaying", "reconciling", "running"}
    /\ cursor \in Nat
    /\ todo \subseteq Ids
    /\ queue \in Seq(Ids)
    /\ working \in Ids \cup {NoId}
    /\ step \in {"top", "attempt", "sent", "failing"}
    /\ handlers \in [Handlers -> HandlerState]
    /\ now \in Times
    /\ ioErrors \in Nat
    /\ orphans \subseteq Ids
    /\ crashes \in Nat

\* spentByDay counts exactly the unfailed requests of each day, whatever the
\* interleaving of Accept, RecordFailed and replay: each reservation is made
\* once and released at most once (applyEntry, addSpent).
BudgetConserved == Conserved(store)

\* What the journal reserves of a day never exceeds globalDailyBudget, however
\* many handlers passed the breaker before any of them took the lock (Accept).
BudgetNeverExceeded ==
    \A d \in Days : Amount * Cardinality(Held(Durable, d)) <= Budget

\* A client key scoped to an address and a day is accepted at most once in
\* the life of the journal, also by two handlers racing past FindReplay and
\* across a restart (Accept, FindReplay).
AcceptedOncePerKey ==
    \A i, j \in DOMAIN journal :
        /\ journal[i].type = "accepted"
        /\ journal[j].type = "accepted"
        /\ journal[i].key = journal[j].key
        => i = j

\* Two acceptances of one address are a cooldown apart, in journal order,
\* although each handler read its clock before it got the lock (Accept).
CooldownRespected ==
    \A i, j \in DOMAIN journal :
        /\ i < j
        /\ journal[i].type = "accepted"
        /\ journal[j].type = "accepted"
        /\ journal[i].address = journal[j].address
        => journal[j].at >= journal[i].at + Cooldown

\* No address is accepted more often in one day than the profile allows, over
\* restarts too (Accept, perAddressDailyCap).
DailyCapRespected ==
    \A a \in Addresses, d \in Days :
        Cardinality({i \in DOMAIN journal :
                        /\ journal[i].type = "accepted"
                        /\ journal[i].address = a
                        /\ BudgetDay(journal[i].at) = d}) <= DailyCap

\* The places a live request can be in.
Places(id) ==
    {<<"handler", h>> : h \in {g \in Handlers : /\ handlers[g].pc = "enqueue"
                                                /\ handlers[g].id = id}}
        \cup {<<"queue", i>> : i \in {j \in DOMAIN queue : queue[j] = id}}
        \cup (IF working = id THEN {<<"worker", id>>} ELSE {})
        \cup (IF id \in todo THEN {<<"todo", id>>} ELSE {})
        \cup (IF id \in orphans THEN {<<"orphan", id>>} ELSE {})

\* After start-up a pending request is in exactly one of: a handler about to
\* enqueue it, the queue, the worker, the reconcile list, or it is one whose
\* RecordFailed could not be written.  No other request is in any of them, so
\* process never meets a request in a final state (handleFund, reconcile,
\* process).
PendingOwnedOnce ==
    phase # "replaying" =>
        \A id \in Ids :
            Cardinality(Places(id)) = IF store.requests[id].status \in Pending THEN 1 ELSE 0

\* After start-up memory is what the journal says, and never says less than
\* what any client was told before a crash (NewStore).
ReplayRestores ==
    phase # "replaying" => store = Durable

\* The service implements the lifecycle and budget it promises, where a
\* request's status is what the journal says: nothing a crash, a replay, a
\* full queue or a retry does moves a request out of a final state, skips the
\* submission, or takes more than the day's budget.
Lifecycle == INSTANCE RequestLifecycle
    WITH status <- [id \in Ids |-> Durable.requests[id].status],
         day <- [id \in Ids |-> BudgetDay(Durable.requests[id].at)]

ImplementsLifecycle == Lifecycle!Spec

\* Every accepted request reaches a final state unless the service stays
\* paused or a RecordFailed error was dropped on it (process, reconcile).
EveryRequestSettles ==
    []<>(~store.paused) =>
        \A id \in Ids :
            (Durable.requests[id].status \in Pending)
                ~> (Durable.requests[id].status \in Terminal \/ id \in orphans)

\* The policy of the profile holds of what was accepted: no client key is accepted
\* twice, and no address is served inside its cooldown or beyond its daily cap,
\* although the handler checks before it takes the store's lock (handleFund, Accept).
PolicyRespected == AcceptedOncePerKey /\ CooldownRespected /\ DailyCapRespected
=============================================================================
