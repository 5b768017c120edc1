------------------------- MODULE FaucetIntakeProofs -------------------------
(***************************************************************************)
(* Type correctness and budget safety of the intake, for any number of     *)
(* handlers, requests, addresses, crashes and I/O errors.                  *)
(*                                                                         *)
(* BudgetConserved is not inductive: it breaks as soon as RecordFailed may *)
(* name a request that is not pending.  That it never does is a matter of  *)
(* ownership: a pending request is in the hands of one handler, or in one  *)
(* place of the queue, or with the worker, or on the reconcile list.  And  *)
(* replay rebuilds the store from entries that were legal when they were   *)
(* written, so the invariant also speaks of every state in hist.           *)
(***************************************************************************)
EXTENDS FaucetIntake, FaucetStoreProofs

\* The history is the journal's: each state is the one before it with one
\* entry applied, and each keeps the books and the budget.
Chained ==
    /\ Len(hist) = Len(journal) + 1
    /\ hist[1] = EmptyStore
    /\ \A i \in 1..Len(journal) : hist[i + 1] = ApplyEntry(hist[i], journal[i])
    /\ \A i \in 1..Len(hist) : Conserved(hist[i]) /\ InBudget(hist[i])

\* The store is at the replay cursor, and at the end afterwards.
Position ==
    /\ phase = "replaying" => cursor \in 1..Len(hist) /\ store = hist[cursor]
    /\ phase # "replaying" => store = hist[Len(hist)]

\* Handlers and worker are at rest until start-up is over.
Quiet ==
    /\ phase # "running" => /\ working = NoId
                            /\ \A h \in Handlers : handlers[h] = IdleHandler
    /\ phase = "replaying" => queue = <<>>
    /\ phase # "reconciling" => todo = {}
    /\ working = NoId => step = "top"

Live(id) == store.requests[id].status \in Pending

Offered(h) == handlers[h].pc = "enqueue"

\* Whoever holds a request holds a pending one; a handler about to call
\* Accept holds an identifier no one has used.
Owned ==
    /\ working # NoId => Live(working)
    /\ \A i \in 1..Len(queue) : Live(queue[i])
    /\ \A id \in todo : Live(id)
    /\ \A h \in Handlers : Offered(h) => Live(handlers[h].id)
    /\ \A h \in Handlers :
        handlers[h].pc = "accept" =>
            store.requests[handlers[h].id].status = "absent"

\* No two hold the same request.
Apart ==
    /\ \A i, j \in 1..Len(queue) : queue[i] = queue[j] => i = j
    /\ \A i \in 1..Len(queue) : queue[i] # working /\ queue[i] \notin todo
    /\ \A h \in Handlers, i \in 1..Len(queue) :
        Offered(h) => handlers[h].id # queue[i]
    /\ \A h \in Handlers : Offered(h) => handlers[h].id # working

\* Two handlers never carry the same identifier.
OwnIds ==
    \A g, h \in Handlers : g # h /\ handlers[g].id = handlers[h].id =>
        handlers[g].id = NoId

IInv == TypeOK /\ Chained /\ Position /\ Quiet /\ Owned /\ Apart /\ OwnIds
-----------------------------------------------------------------------------
\* A handler's state has the parts its program counter says.
LEMMA HandlerParts ==
    ASSUME TypeOK, NEW h \in Handlers
    PROVE  /\ handlers[h] \in HandlerState
           /\ handlers[h].pc \in {"idle", "check", "accept", "enqueue"}
           /\ handlers[h].pc # "idle" => handlers[h].call \in Call
           /\ handlers[h].pc \in {"accept", "enqueue"} => handlers[h].id \in Ids
           /\ handlers[h].pc \in {"idle", "check"} => handlers[h].id = NoId
BY DEF TypeOK, HandlerState, IdleHandler

\* A legal, affordable entry extends the history and leaves the store at its
\* end.
LEMMA RecordKeepsHistory ==
    ASSUME TypeOK, Chained, Position, phase # "replaying",
           NEW e \in Entry, Legal(store, e), Affordable(store, e), Record(e)
    PROVE  /\ store' \in Store
           /\ journal' \in Seq(Entry)
           /\ hist' \in Seq(Store)
           /\ Chained'
           /\ store' = hist'[Len(hist')]
           /\ UNCHANGED <<ioErrors, orphans>>
<1> DEFINE t == ApplyEntry(store, e)
<1>1. t \in Store
  BY ApplyEntryType DEF TypeOK
<1>2. store' = t /\ journal' = Append(journal, e) /\ hist' = Append(hist, t)
  BY DEF Record
<1>3. journal \in Seq(Entry) /\ hist \in Seq(Store) /\ Len(hist) = Len(journal) + 1
  BY DEF TypeOK, Chained
<1>4. /\ Len(journal) \in Nat
      /\ journal' \in Seq(Entry) /\ Len(journal') = Len(journal) + 1
      /\ hist' \in Seq(Store) /\ Len(hist') = Len(hist) + 1
      /\ journal'[Len(journal')] = e /\ hist'[Len(hist')] = t
      /\ \A i \in 1..Len(journal) : journal'[i] = journal[i]
      /\ \A i \in 1..Len(hist) : hist'[i] = hist[i]
  BY <1>1, <1>2, <1>3
<1>5. store = hist[Len(hist)]
  BY DEF Position
<1>6. Conserved(t) /\ InBudget(t)
  BY <1>3, <1>4, <1>5, ApplyConserves, ApplyInBudget DEF TypeOK, Chained
<1>7. ASSUME NEW i \in 1..Len(journal')
      PROVE  hist'[i + 1] = ApplyEntry(hist'[i], journal'[i])
  <2>1. CASE i \in 1..Len(journal)
    BY <1>3, <1>4, <2>1 DEF Chained
  <2>2. CASE i = Len(journal')
    BY <1>3, <1>4, <1>5, <2>2
  <2> QED
    BY <1>4, <2>1, <2>2
<1>8. \A i \in 1..Len(hist') : Conserved(hist'[i]) /\ InBudget(hist'[i])
  BY <1>3, <1>4, <1>6 DEF Chained
<1>9. Chained'
  BY <1>3, <1>4, <1>7, <1>8 DEF Chained
<1> QED
  BY <1>1, <1>2, <1>4, <1>9 DEF Record
-----------------------------------------------------------------------------
\* Actions that leave the store, the journal and the phase alone keep the
\* history and its position.
LEMMA HistoryUntouched ==
    ASSUME Chained, Position, UNCHANGED <<store, journal, hist, phase, cursor>>
    PROVE  Chained' /\ Position'
BY DEF Chained, Position

LEMMA FundArriveStep ==
    ASSUME IInv, NEW h \in Handlers, FundArrive(h)
    PROVE  IInv'
<1> USE DEF IInv
<1>1. PICK a \in Addresses, k \in ClientKeys :
        handlers' = [handlers EXCEPT
            ![h] = [pc |-> "check", id |-> NoId,
                    call |-> [address |-> a, key |-> k, at |-> now]]]
  BY Zenon DEF FundArrive
<1>2. TypeOK'
  <2>1. [pc |-> "check", id |-> NoId, call |-> [address |-> a, key |-> k, at |-> now]]
          \in HandlerState
    BY DEF HandlerState, Call, TypeOK
  <2>2. handlers' \in [Handlers -> HandlerState]
    BY <1>1, <2>1 DEF TypeOK
  <2> QED
    BY <2>2 DEF TypeOK, FundArrive, disk, bootVars, workerVars, bounds
<1>3. Chained' /\ Position'
  BY HistoryUntouched DEF FundArrive, disk, bootVars
<1>4. Quiet'
  BY DEF Quiet, FundArrive, bootVars, workerVars
<1>5. Owned'
  BY <1>1 DEF Owned, Live, Offered, FundArrive, bootVars, workerVars, TypeOK
<1>6. Apart'
  BY <1>1 DEF Apart, Offered, FundArrive, bootVars, workerVars, TypeOK
<1>7. OwnIds'
  BY <1>1 DEF OwnIds, TypeOK
<1> QED
  BY <1>2, <1>3, <1>4, <1>5, <1>6, <1>7

LEMMA FundCheckStep ==
    ASSUME IInv, NEW h \in Handlers, FundCheck(h)
    PROVE  IInv'
<1> USE DEF IInv
<1>1. PICK id \in Ids :
        /\ Fresh(id)
        /\ handlers' = [handlers EXCEPT ![h].pc = "accept", ![h].id = id]
  BY Zenon DEF FundCheck
<1>2. phase = "running" /\ handlers[h].pc = "check" /\ handlers[h].call \in Call
  BY HandlerParts DEF FundCheck, Quiet, IdleHandler
<1>3. TypeOK'
  <2>1. handlers[h] \in [pc : {"check"}, call : Call, id : {NoId}]
    BY <1>2, HandlerParts DEF HandlerState, IdleHandler
  <2>2. [handlers[h] EXCEPT !.pc = "accept", !.id = id] \in HandlerState
    BY <2>1, Zenon DEF HandlerState
  <2>3. handlers' \in [Handlers -> HandlerState]
    BY <1>1, <2>2 DEF TypeOK
  <2> QED
    BY <2>3 DEF TypeOK, FundCheck, disk, bootVars, workerVars, bounds
<1>4. Chained' /\ Position'
  BY HistoryUntouched DEF FundCheck, disk, bootVars
<1>5. Quiet'
  BY <1>2 DEF Quiet, FundCheck, bootVars, workerVars
<1>6. /\ \A g \in Handlers : g # h => handlers'[g] = handlers[g]
      /\ handlers'[h].pc = "accept" /\ handlers'[h].id = id
  BY <1>1, <1>2, HandlerParts DEF TypeOK, HandlerState, IdleHandler
<1>7. store.requests[id].status = "absent" /\ \A g \in Handlers : handlers[g].id # id
  BY <1>1, <1>2 DEF Fresh, Durable, Position
<1>8. Owned'
  BY <1>6, <1>7, Zenon DEF Owned, Live, Offered, FundCheck, bootVars, workerVars
<1>9. Apart'
  <2>1. \A g \in Handlers : Offered(g)' => Offered(g) /\ handlers'[g].id = handlers[g].id
    BY <1>6 DEF Offered
  <2> QED
    BY <2>1, ZenonT(30) DEF Apart, FundCheck, bootVars, workerVars
<1>10. OwnIds'
  BY <1>6, <1>7 DEF OwnIds
<1> QED
  BY <1>3, <1>4, <1>5, <1>8, <1>9, <1>10

\* A handler that returns gives up nothing anyone else needs.
LEMMA HandlerReturns ==
    ASSUME IInv, NEW h \in Handlers, handlers' = [handlers EXCEPT ![h] = IdleHandler]
    PROVE  /\ handlers' \in [Handlers -> HandlerState]
           /\ handlers'[h] = IdleHandler
           /\ \A g \in Handlers : g # h => handlers'[g] = handlers[g]
           /\ OwnIds'
<1>1. handlers' \in [Handlers -> HandlerState]
  BY DEF IInv, TypeOK, HandlerState
<1>2. /\ handlers'[h] = IdleHandler
      /\ \A g \in Handlers : g # h => handlers'[g] = handlers[g]
  BY DEF IInv, TypeOK
<1>3. OwnIds'
  BY <1>2 DEF IInv, OwnIds, IdleHandler
<1> QED
  BY <1>1, <1>2, <1>3

LEMMA FundTurnedAwayStep ==
    ASSUME IInv, NEW h \in Handlers, FundTurnedAway(h)
    PROVE  IInv'
<1> USE DEF IInv
<1>1. handlers' = [handlers EXCEPT ![h] = IdleHandler]
  BY DEF FundTurnedAway
<1>2. TypeOK'
  <2>1. handlers' \in [Handlers -> HandlerState]
    BY <1>1, HandlerReturns, Zenon
  <2> QED
    BY <2>1 DEF TypeOK, FundTurnedAway, disk, bootVars, workerVars, bounds
<1>3. Chained' /\ Position'
  BY HistoryUntouched DEF FundTurnedAway, disk, bootVars
<1>4. Quiet'
  BY SMTT(30), <1>1, HandlerReturns DEF Quiet, FundTurnedAway, bootVars, workerVars
<1>5. Owned'
  BY <1>1, HandlerReturns
  DEF Owned, Live, Offered, IdleHandler, FundTurnedAway, bootVars, workerVars
<1>6. Apart'
  BY <1>1, HandlerReturns
  DEF Apart, Offered, IdleHandler, FundTurnedAway, bootVars, workerVars
<1> QED
  BY <1>1, <1>2, <1>3, <1>4, <1>5, <1>6, HandlerReturns, Zenon

LEMMA FundRefusedStep ==
    ASSUME IInv, NEW h \in Handlers, FundRefused(h)
    PROVE  IInv'
<1> USE DEF IInv
<1>1. /\ handlers' = [handlers EXCEPT ![h] = IdleHandler]
      /\ UNCHANGED <<store, journal, hist>>
      /\ ioErrors' \in Nat
  BY DEF FundRefused, AppendFails, disk, TypeOK
<1>2. TypeOK'
  <2>1. handlers' \in [Handlers -> HandlerState]
    BY <1>1, HandlerReturns, Zenon
  <2> QED
    BY <1>1, <2>1 DEF TypeOK, FundRefused, bootVars, workerVars
<1>3. Chained' /\ Position'
  BY <1>1, HistoryUntouched DEF FundRefused, bootVars
<1>4. Quiet'
  BY Zenon, <1>1, HandlerReturns DEF Quiet, FundRefused, bootVars, workerVars
<1>5. Owned'
  <2>1. UNCHANGED <<store, working, queue, todo>>
    BY <1>1 DEF FundRefused, bootVars, workerVars
  <2>2. \A g \in Handlers : handlers'[g].pc \in {"accept", "enqueue"} => handlers'[g] = handlers[g]
    BY SMTT(30), <1>1, HandlerReturns DEF IdleHandler
  <2> QED
    BY <2>1, <2>2 DEF Owned, Live, Offered
<1>6. Apart'
  BY <1>1, HandlerReturns
  DEF Apart, Offered, IdleHandler, FundRefused, bootVars, workerVars
<1> QED
  BY <1>1, <1>2, <1>3, <1>4, <1>5, <1>6, HandlerReturns, Zenon

LEMMA FundAcceptStep ==
    ASSUME IInv, NEW h \in Handlers, FundAccept(h)
    PROVE  IInv'
<1> USE DEF IInv
<1> DEFINE c == handlers[h].call
           id == handlers[h].id
           e == AcceptedEntry(id, c.key, c.address, c.at)
<1>1. /\ handlers[h].pc = "accept" /\ c \in Call /\ id \in Ids
      /\ handlers' = [handlers EXCEPT ![h].pc = "enqueue"]
      /\ Record(e)
      /\ ~BudgetSpent(store, c.at)
      /\ UNCHANGED <<bootVars, queue, workerVars, now, crashes>>
  BY HandlerParts DEF FundAccept, Denied
<1>2. phase = "running" /\ store.requests[id].status = "absent"
  BY <1>1 DEF Quiet, IdleHandler, Owned
<1>3. e \in Entry /\ e.type = "accepted" /\ e.id = id /\ e.at = c.at
  <2>1. c.key \in ClientKeys /\ c.address \in Addresses /\ c.at \in Times
    BY <1>1 DEF Call
  <2>2. IdempotencyKeyFor(c.key, c.address, c.at) \in ScopedKey
    BY <2>1, BudgetDayType DEF IdempotencyKeyFor, ScopedKey
  <2> QED
    BY <1>1, <2>1, <2>2 DEF AcceptedEntry, Entry
<1>4. Legal(store, e) /\ Affordable(store, e)
  BY <1>1, <1>2, <1>3 DEF Legal, Affordable
<1>5. /\ store' \in Store /\ journal' \in Seq(Entry) /\ hist' \in Seq(Store)
      /\ Chained' /\ store' = hist'[Len(hist')]
      /\ UNCHANGED <<ioErrors, orphans>>
  BY ZenonT(30), <1>1, <1>2, <1>3, <1>4, RecordKeepsHistory
<1>6. /\ \A x \in Ids : x # id => store'.requests[x] = store.requests[x]
      /\ store'.requests[id].status = "queued"
  BY <1>1, <1>3, ApplyStatus DEF Record, TypeOK
<1>7. /\ handlers' \in [Handlers -> HandlerState]
      /\ \A g \in Handlers : g # h => handlers'[g] = handlers[g]
      /\ handlers'[h].pc = "enqueue" /\ handlers'[h].id = id
  <2>1. handlers[h] \in [pc : {"accept", "enqueue"}, call : Call, id : Ids]
    BY <1>1, HandlerParts DEF HandlerState, IdleHandler
  <2>2. [handlers[h] EXCEPT !.pc = "enqueue"] \in HandlerState
    BY <2>1 DEF HandlerState
  <2> QED
    BY <1>1, <2>1, <2>2 DEF TypeOK
<1>8. TypeOK'
  BY <1>1, <1>5, <1>7 DEF TypeOK, bootVars, workerVars
<1>9. Position'
  BY <1>1, <1>2, <1>5 DEF Position, bootVars
<1>10. Quiet'
  BY SMTT(30), <1>1, <1>2 DEF Quiet, bootVars, workerVars
<1>11. /\ working # id
       /\ \A i \in 1..Len(queue) : queue[i] \in Ids /\ queue[i] # id
       /\ \A g \in Handlers : g # h => handlers[g].id # id
       /\ todo = {}
  <2>1. id # NoId
    BY <1>1, IdAssumption
  <2>2. working # id
    BY <1>2, <2>1 DEF Owned, Live, Pending
  <2>3. \A i \in 1..Len(queue) : queue[i] \in Ids /\ queue[i] # id
    BY <1>2 DEF Owned, Live, Pending, TypeOK
  <2>4. \A g \in Handlers : g # h => handlers[g].id # id
    BY SMTT(30), <2>1 DEF OwnIds
  <2> QED
    BY <1>2, <2>2, <2>3, <2>4 DEF Quiet
<1>12. Owned'
  <2>1. working' # NoId => Live(working)'
    BY SMTT(30), <1>1, <1>6, <1>11 DEF Owned, Live, TypeOK, workerVars
  <2>2. \A i \in 1..Len(queue') : Live(queue[i])'
    BY SMTT(30), <1>1, <1>6, <1>11 DEF Owned, Live
  <2>3. \A g \in Handlers : Offered(g)' => Live(handlers[g].id)'
    BY SMTT(30), <1>6, <1>7, <1>11, HandlerParts DEF Owned, Live, Offered, Pending
  <2>4. \A g \in Handlers : handlers'[g].pc = "accept" =>
            store'.requests[handlers'[g].id].status = "absent"
    BY <1>6, <1>7, <1>11, HandlerParts DEF Owned
  <2> QED
    BY SMTT(30), <1>1, <1>11, <2>1, <2>2, <2>3, <2>4 DEF Owned, bootVars
<1>13. Apart'
  BY <1>1, <1>7, <1>11 DEF Apart, Offered, bootVars, workerVars
<1>14. OwnIds'
  BY <1>7 DEF OwnIds
<1> QED
  BY <1>5, <1>8, <1>9, <1>10, <1>12, <1>13, <1>14

\* Recording the progress of a pending request keeps the history and every
\* other request's status.
LEMMA RecordProgress ==
    ASSUME IInv, phase # "replaying", NEW e \in Entry,
           e.type \in {"submitted", "confirmed", "failed"}, Live(e.id), Record(e)
    PROVE  /\ store' \in Store /\ journal' \in Seq(Entry) /\ hist' \in Seq(Store)
           /\ Chained' /\ store' = hist'[Len(hist')]
           /\ UNCHANGED <<ioErrors, orphans>>
           /\ e.id \in Ids
           /\ \A x \in Ids : x # e.id => store'.requests[x] = store.requests[x]
           /\ store'.requests[e.id].status = e.type
<1>1. Legal(store, e) /\ Affordable(store, e)
  BY DEF Legal, Affordable, Live
<1>2. /\ store' \in Store /\ journal' \in Seq(Entry) /\ hist' \in Seq(Store)
      /\ Chained' /\ store' = hist'[Len(hist')]
      /\ UNCHANGED <<ioErrors, orphans>>
  BY <1>1, RecordKeepsHistory DEF IInv
<1>3. store \in Store /\ store' = ApplyEntry(store, e)
  BY SMTT(30) DEF IInv, TypeOK, Record
<1> QED
  BY <1>2, <1>3, ApplyStatus

LEMMA FundEnqueueStep ==
    ASSUME IInv, NEW h \in Handlers, FundEnqueue(h)
    PROVE  IInv'
<1> USE DEF IInv
<1> DEFINE id == handlers[h].id
<1>1. /\ handlers[h].pc = "enqueue" /\ id \in Ids /\ Live(id)
      /\ handlers' = [handlers EXCEPT ![h] = IdleHandler]
      /\ UNCHANGED <<bootVars, workerVars, now, crashes>>
  BY HandlerParts DEF FundEnqueue, Owned, Offered
<1>2. phase = "running" /\ todo = {} /\ id # NoId
  BY <1>1, IdAssumption DEF Quiet, IdleHandler
<1>3. /\ handlers' \in [Handlers -> HandlerState]
      /\ handlers'[h] = IdleHandler
      /\ \A g \in Handlers : g # h => handlers'[g] = handlers[g]
      /\ OwnIds'
  BY <1>1, HandlerReturns, Zenon
<1>4. \A g \in Handlers : g # h => handlers[g].id # id
  BY <1>2 DEF OwnIds
<1>5. Quiet'
  BY <1>1, <1>2 DEF Quiet, bootVars, workerVars
<1>6. CASE /\ queue' = Append(queue, id)
           /\ UNCHANGED <<store, disk, ioErrors, orphans>>
  <2>1. /\ queue' \in Seq(Ids) /\ Len(queue') = Len(queue) + 1 /\ Len(queue) \in Nat
        /\ queue'[Len(queue')] = id
        /\ \A i \in 1..Len(queue) : queue'[i] = queue[i]
    BY <1>1, <1>6 DEF TypeOK
  <2>2. TypeOK'
    BY <1>1, <1>3, <1>6, <2>1 DEF TypeOK, disk, bootVars, workerVars
  <2>3. Chained' /\ Position'
    BY SMTT(30), <1>1, <1>6, HistoryUntouched DEF disk, bootVars
  <2>4. Owned'
    <3>1. \A i \in 1..Len(queue') : Live(queue[i])'
      BY <1>1, <1>6, <2>1 DEF Owned, Live
    <3> QED
      BY Zenon, <1>1, <1>3, <1>6, <3>1 DEF Owned, Live, Offered, IdleHandler, bootVars, workerVars
  <2>5. Apart'
    <3>1. \A i \in 1..Len(queue) : queue[i] # id
      BY <1>1 DEF Apart, Offered
    <3>2. id # working
      BY <1>1 DEF Apart, Offered
    <3>3. \A i, j \in 1..Len(queue') : queue'[i] = queue'[j] => i = j
      BY <2>1, <3>1 DEF Apart
    <3>4. \A i \in 1..Len(queue') : queue'[i] # working' /\ queue'[i] \notin todo'
      BY <1>1, <1>2, <2>1, <3>2 DEF Apart, bootVars, workerVars
    <3>5. \A g \in Handlers, i \in 1..Len(queue') :
              Offered(g)' => handlers'[g].id # queue'[i]
      BY <1>3, <1>4, <2>1 DEF Apart, Offered, IdleHandler
    <3>6. \A g \in Handlers : Offered(g)' => handlers'[g].id # working'
      BY SMTT(30), <1>1, <1>3 DEF Apart, Offered, IdleHandler, workerVars
    <3> QED
      BY SMTT(30), <3>3, <3>4, <3>5, <3>6 DEF Apart
  <2> QED
    BY <1>3, <1>5, <2>2, <2>3, <2>4, <2>5
<1>7. CASE Record(FailedEntry(id)) /\ UNCHANGED queue
  <2>1. /\ FailedEntry(id) \in Entry /\ FailedEntry(id).type = "failed"
        /\ FailedEntry(id).id = id
    BY SMTT(30), <1>1 DEF FailedEntry, Entry
  <2>2. /\ store' \in Store /\ journal' \in Seq(Entry) /\ hist' \in Seq(Store)
        /\ Chained' /\ store' = hist'[Len(hist')]
        /\ UNCHANGED <<ioErrors, orphans>>
        /\ \A x \in Ids : x # id => store'.requests[x] = store.requests[x]
    BY SMTT(30), <1>1, <1>2, <1>7, <2>1, RecordProgress
  <2>3. TypeOK'
    BY SMTT(30), <1>1, <1>3, <1>7, <2>2 DEF TypeOK, bootVars, workerVars
  <2>4. Position'
    BY ZenonT(30), <1>1, <1>2, <2>2 DEF Position, bootVars
  <2>5. Owned'
    <3>1. working' # NoId => Live(working)'
      BY SMTT(30), <1>1, <2>2 DEF Owned, Live, Apart, Offered, TypeOK, workerVars
    <3>2. \A i \in 1..Len(queue') : Live(queue[i])'
      BY SMTT(30), <1>1, <1>7, <2>2 DEF Owned, Live, Apart, Offered, TypeOK
    <3>3. \A g \in Handlers : Offered(g)' => Live(handlers[g].id)'
      BY SMTT(30), <1>3, <1>4, <2>2, HandlerParts DEF Owned, Live, Offered, IdleHandler
    <3>4. \A g \in Handlers : handlers'[g].pc = "accept" =>
              store'.requests[handlers'[g].id].status = "absent"
      BY SMTT(30), <1>3, <1>4, <2>2, HandlerParts DEF Owned, IdleHandler
    <3> QED
      BY SMTT(30), <1>1, <1>2, <3>1, <3>2, <3>3, <3>4 DEF Owned, bootVars
  <2>6. Apart'
    BY SMTT(30), <1>1, <1>3, <1>7 DEF Apart, Offered, IdleHandler, bootVars, workerVars
  <2> QED
    BY SMTT(30), <1>3, <1>5, <2>2, <2>3, <2>4, <2>5, <2>6
<1>8. CASE AppendFails /\ orphans' = orphans \cup {id} /\ UNCHANGED queue
  <2>1. UNCHANGED <<store, journal, hist>> /\ ioErrors' \in Nat
    BY <1>8 DEF AppendFails, disk, TypeOK
  <2>2. TypeOK'
    BY <1>1, <1>3, <1>8, <2>1 DEF TypeOK, bootVars, workerVars
  <2>3. Chained' /\ Position'
    BY ZenonT(30), <1>1, <2>1, HistoryUntouched DEF bootVars
  <2>4. Owned'
    BY SMTT(30), <1>1, <1>3, <1>8, <2>1 DEF Owned, Live, Offered, IdleHandler, bootVars, workerVars
  <2>5. Apart'
    BY <1>1, <1>3, <1>8 DEF Apart, Offered, IdleHandler, bootVars, workerVars
  <2> QED
    BY <1>3, <1>5, <2>2, <2>3, <2>4, <2>5
<1> QED
  BY Zenon, <1>6, <1>7, <1>8 DEF FundEnqueue
-----------------------------------------------------------------------------
LEMMA WorkerTakeStep ==
    ASSUME IInv, WorkerTake
    PROVE  IInv'
<1> USE DEF IInv
<1>1. /\ phase = "running" /\ working = NoId /\ queue \in Seq(Ids) /\ queue # <<>>
      /\ working' = Head(queue) /\ queue' = Tail(queue)
      /\ UNCHANGED <<store, disk, bootVars, step, handlers, now, bounds>>
  BY DEF WorkerTake, TypeOK
<1>2. /\ Len(queue) \in Nat \ {0} /\ working' = queue[1] /\ working' \in Ids
      /\ queue' \in Seq(Ids) /\ Len(queue') = Len(queue) - 1
      /\ \A i \in 1..Len(queue') : queue'[i] = queue[i + 1] /\ i + 1 \in 1..Len(queue)
      /\ 1 \in 1..Len(queue)
  BY <1>1
<1>3. TypeOK'
  BY <1>1, <1>2 DEF TypeOK, disk, bootVars, bounds
<1>4. Chained' /\ Position'
  BY <1>1, HistoryUntouched DEF disk, bootVars
<1>5. Quiet'
  BY SMTT(30), <1>1 DEF Quiet, bootVars
<1>6. Owned'
  <2>1. Live(working)' /\ \A i \in 1..Len(queue') : Live(queue[i])'
    BY <1>1, <1>2 DEF Owned, Live
  <2> QED
    BY SMTT(30), <1>1, <2>1 DEF Owned, Live, Offered, bootVars
<1>7. Apart'
  <2>1. \A i, j \in 1..Len(queue') : queue'[i] = queue'[j] => i = j
    BY <1>2 DEF Apart
  <2>2. \A i \in 1..Len(queue') : queue'[i] # working' /\ queue'[i] \notin todo'
    BY <1>1, <1>2 DEF Apart, bootVars
  <2>3. \A h \in Handlers : Offered(h)' =>
            /\ handlers'[h].id # working'
            /\ \A i \in 1..Len(queue') : handlers'[h].id # queue'[i]
    BY <1>1, <1>2 DEF Apart, Offered
  <2> QED
    BY SMTT(30), <2>1, <2>2, <2>3 DEF Apart
<1>8. OwnIds'
  BY <1>1 DEF OwnIds
<1> QED
  BY <1>3, <1>4, <1>5, <1>6, <1>7, <1>8

\* Steps of process that only move its program counter.
LEMMA WorkerMovesStep ==
    ASSUME IInv, working # NoId,
           step' \in {"top", "attempt", "sent", "failing"},
           UNCHANGED <<store, disk, bootVars, queue, working, handlers, now, orphans, crashes>>,
           ioErrors' \in Nat
    PROVE  IInv'
<1> USE DEF IInv
<1>1. TypeOK'
  BY DEF TypeOK, disk, bootVars
<1>2. Chained' /\ Position'
  BY SMTT(30), HistoryUntouched DEF disk, bootVars
<1>3. Quiet' /\ Owned' /\ Apart' /\ OwnIds'
  BY SMTT(30) DEF Quiet, Owned, Live, Offered, Apart, OwnIds, bootVars
<1> QED
  BY <1>1, <1>2, <1>3

\* Steps of process that record progress of the request it owns.
LEMMA WorkerRecordsStep ==
    ASSUME IInv, working # NoId, NEW e \in Entry,
           e.type \in {"submitted", "confirmed", "failed"}, e.id = working,
           Record(e),
           \/ e.type = "submitted" /\ UNCHANGED working /\ step' \in {"top", "sent"}
           \/ working' = NoId /\ step' = "top",
           UNCHANGED <<bootVars, queue, handlers, now, crashes>>
    PROVE  IInv'
<1> USE DEF IInv
<1>1. phase = "running" /\ todo = {} /\ Live(working) /\ working \in Ids
  BY SMTT(30) DEF Quiet, Owned, TypeOK
<1>2. /\ store' \in Store /\ journal' \in Seq(Entry) /\ hist' \in Seq(Store)
      /\ Chained' /\ store' = hist'[Len(hist')]
      /\ UNCHANGED <<ioErrors, orphans>>
      /\ \A x \in Ids : x # working => store'.requests[x] = store.requests[x]
      /\ store'.requests[working].status = e.type
  BY SMTT(30), <1>1, RecordProgress
<1>3. TypeOK'
  BY SMTT(30), <1>2 DEF TypeOK, bootVars
<1>4. Position'
  BY <1>1, <1>2 DEF Position, bootVars
<1>5. Quiet'
  BY SMTT(30), <1>1 DEF Quiet, bootVars
<1>6. Owned'
  <2>1. working' # NoId => Live(working)'
    BY SMTT(30), <1>2 DEF Live, Pending
  <2>2. \A i \in 1..Len(queue') : Live(queue[i])'
    BY <1>2, SMTT(30) DEF Owned, Live, Apart, TypeOK
  <2>3. \A h \in Handlers : Offered(h)' => Live(handlers[h].id)'
    <3>1. \A h \in Handlers : Offered(h) =>
            Live(handlers[h].id) /\ handlers[h].id # working /\ handlers[h].id \in Ids
      BY SMTT(30), HandlerParts DEF Owned, Offered, Apart
    <3> HIDE DEF IInv
    <3> QED
      BY SMTT(30), <1>2, <3>1 DEF Live, Offered
  <2>4. \A h \in Handlers : handlers'[h].pc = "accept" =>
            store'.requests[handlers'[h].id].status = "absent"
    BY SMTT(30), <1>1, <1>2, HandlerParts DEF Owned, Live, Pending
  <2> QED
    BY SMTT(30), <1>1, <2>1, <2>2, <2>3, <2>4 DEF Owned, bootVars
<1>7. Apart'
  <2>1. \A i \in 1..Len(queue) : queue[i] # NoId
    BY IdAssumption DEF TypeOK
  <2>2. \A h \in Handlers : Offered(h) => handlers[h].id # NoId
    BY IdAssumption, HandlerParts DEF Offered
  <2> QED
    BY SMTT(30), <2>1, <2>2 DEF Apart, Offered, bootVars
<1>8. OwnIds'
  BY DEF OwnIds
<1> QED
  BY SMTT(30), <1>2, <1>3, <1>4, <1>5, <1>6, <1>7, <1>8

LEMMA WorkerStep ==
    ASSUME IInv, Worker
    PROVE  IInv'
<1> USE DEF IInv
<1>1. CASE WorkerTake
  BY <1>1, WorkerTakeStep
<1>2. ASSUME step # "top"
      PROVE  working # NoId
  BY <1>2 DEF Quiet
<1>3. CASE WorkerBegin \/ WorkerDefer \/ WorkerTerminal
  <2>1. working # NoId /\ step' \in {"top", "attempt", "sent", "failing"}
    <3>1. CASE WorkerBegin
      BY <3>1 DEF WorkerBegin
    <3>2. CASE WorkerDefer \/ WorkerTerminal
      BY <1>2, <3>2 DEF WorkerDefer, WorkerTerminal
    <3> QED
      BY <1>3, <3>1, <3>2
  <2>2. ioErrors' \in Nat
    BY <1>3 DEF WorkerBegin, WorkerDefer, WorkerTerminal, bounds, TypeOK
  <2>3. UNCHANGED <<store, disk, bootVars, queue, working, handlers, now, orphans, crashes>>
    BY SMTT(30), <1>3 DEF WorkerBegin, WorkerDefer, WorkerTerminal, bounds
  <2> HIDE DEF IInv
  <2> QED
    BY <2>1, <2>2, <2>3, WorkerMovesStep
<1>4. CASE WorkerSubmitFails
  <2>1. working # NoId /\ step' \in {"top", "attempt", "sent", "failing"}
    BY <1>2, <1>4 DEF WorkerSubmitFails
  <2>2. ioErrors' \in Nat
    BY <1>4 DEF WorkerSubmitFails, AppendFails, TypeOK
  <2>3. UNCHANGED <<store, disk, bootVars, queue, working, handlers, now, orphans, crashes>>
    BY <1>4 DEF WorkerSubmitFails, AppendFails
  <2> HIDE DEF IInv
  <2> QED
    BY <2>1, <2>2, <2>3, WorkerMovesStep
<1>5. CASE WorkerSubmit
  <2>1. PICK sub \in Submissions : Record(SubmittedEntry(working, sub))
    BY <1>5 DEF WorkerSubmit
  <2>2. working # NoId /\ working \in Ids
    BY SMTT(30), <1>2, <1>5 DEF WorkerSubmit, TypeOK
  <2>3. /\ SubmittedEntry(working, sub) \in Entry
        /\ SubmittedEntry(working, sub).type = "submitted"
        /\ SubmittedEntry(working, sub).id = working
    BY <2>2 DEF SubmittedEntry, Entry
  <2>4. /\ UNCHANGED working /\ step' \in {"top", "sent"}
        /\ UNCHANGED <<bootVars, queue, handlers, now, crashes>>
    BY SMTT(30), <1>5 DEF WorkerSubmit
  <2> QED
    BY SMTT(30), <2>1, <2>2, <2>3, <2>4, WorkerRecordsStep
<1>6. CASE WorkerConfirm
  <2>1. working # NoId /\ working \in Ids
    BY SMTT(30), <1>2, <1>6 DEF WorkerConfirm, TypeOK
  <2>2. /\ ConfirmedEntry(working) \in Entry
        /\ ConfirmedEntry(working).type = "confirmed"
        /\ ConfirmedEntry(working).id = working
    BY SMTT(30), <2>1 DEF ConfirmedEntry, Entry
  <2>3. CASE Record(ConfirmedEntry(working)) /\ working' = NoId
    BY ZenonT(30), <1>6, <2>1, <2>2, <2>3, WorkerRecordsStep DEF WorkerConfirm
  <2>4. CASE AppendFails /\ UNCHANGED <<working, orphans>>
    <3>1. step' \in {"top", "attempt", "sent", "failing"} /\ ioErrors' \in Nat
      BY SMTT(30), <1>6, <2>4 DEF WorkerConfirm, AppendFails, TypeOK
    <3>2. UNCHANGED <<store, disk, bootVars, queue, working, handlers, now, orphans, crashes>>
      BY <1>6, <2>4 DEF WorkerConfirm, AppendFails
    <3> HIDE DEF IInv
    <3> QED
      BY SMTT(30), <2>1, <3>1, <3>2, WorkerMovesStep
  <2> QED
    BY SMTT(30), <1>6, <2>3, <2>4 DEF WorkerConfirm
<1>7. CASE WorkerFail
  <2>1. working # NoId /\ working \in Ids
    BY Zenon, <1>2, <1>7 DEF WorkerFail, TypeOK
  <2>2. /\ FailedEntry(working) \in Entry
        /\ FailedEntry(working).type = "failed"
        /\ FailedEntry(working).id = working
    BY <2>1 DEF FailedEntry, Entry
  <2>3. CASE Record(FailedEntry(working))
    BY <1>7, <2>1, <2>2, <2>3, WorkerRecordsStep DEF WorkerFail
  <2>4. CASE AppendFails /\ orphans' = orphans \cup {working}
    <3>1. /\ UNCHANGED <<store, journal, hist, bootVars, queue, handlers, now, crashes>>
          /\ ioErrors' \in Nat /\ working' = NoId /\ step' = "top"
      BY <1>7, <2>4 DEF WorkerFail, AppendFails, disk, TypeOK
    <3>2. TypeOK'
      BY <2>1, <2>4, <3>1 DEF TypeOK, bootVars
    <3>3. Chained' /\ Position'
      BY SMTT(30), <3>1, HistoryUntouched DEF bootVars
    <3>4. Quiet' /\ Owned' /\ OwnIds'
      BY <3>1 DEF Quiet, Owned, Live, Offered, OwnIds, bootVars
    <3>5. \A i \in 1..Len(queue) : queue[i] # NoId
      BY IdAssumption DEF TypeOK
    <3>6. \A h \in Handlers : Offered(h) => handlers[h].id # NoId
      BY IdAssumption, HandlerParts DEF Offered
    <3>7. Apart'
      BY <3>1, <3>5, <3>6, Zenon DEF Apart, Offered, bootVars
    <3> QED
      BY SMTT(30), <3>2, <3>3, <3>4, <3>7
  <2> QED
    BY <1>7, <2>3, <2>4 DEF WorkerFail
<1> QED
  BY <1>1, <1>3, <1>4, <1>5, <1>6, <1>7 DEF Worker
-----------------------------------------------------------------------------
LEMMA AdministerStep ==
    ASSUME IInv, NEW e \in {PausedEntry, ResumedEntry, RefillEntry}, Administer(e)
    PROVE  IInv'
<1> USE DEF IInv
<1>1. e \in Entry /\ e.type \in {"paused", "resumed", "refill"}
  BY DEF PausedEntry, ResumedEntry, RefillEntry, Entry
<1>2. /\ phase = "running" /\ Record(e)
      /\ UNCHANGED <<bootVars, queue, workerVars, handlers, now, crashes>>
  BY DEF Administer
<1>3. Legal(store, e) /\ Affordable(store, e)
  BY <1>1 DEF Legal, Affordable
<1>4. /\ store' \in Store /\ journal' \in Seq(Entry) /\ hist' \in Seq(Store)
      /\ Chained' /\ store' = hist'[Len(hist')]
      /\ UNCHANGED <<ioErrors, orphans>>
  BY Zenon, <1>1, <1>2, <1>3, RecordKeepsHistory
<1>5. store'.requests = store.requests
  BY <1>1, <1>2, ApplyStatus DEF Record, TypeOK
<1>6. TypeOK' /\ Position'
  BY Zenon, <1>2, <1>4 DEF TypeOK, Position, bootVars, workerVars
<1>7. Quiet' /\ Owned' /\ Apart' /\ OwnIds'
  <2>1. UNCHANGED <<phase, todo, queue, working, step, handlers>>
    BY <1>2 DEF bootVars, workerVars
  <2>2. Quiet' /\ OwnIds'
    BY SMTT(30), <2>1 DEF Quiet, OwnIds
  <2>3. Owned'
    BY SMTT(30), <1>5, <2>1 DEF Owned, Live, Offered
  <2>4. Apart'
    BY <2>1 DEF Apart, Offered
  <2> QED
    BY <2>2, <2>3, <2>4
<1> QED
  BY Zenon, <1>4, <1>6, <1>7

LEMMA TickStep ==
    ASSUME IInv, Tick
    PROVE  IInv'
<1> USE DEF IInv
<1>1. TypeOK'
  BY ProfileAssumption DEF TypeOK, Tick, Times, disk, bootVars, workerVars, bounds
<1>2. Chained' /\ Position'
  BY Zenon, HistoryUntouched DEF Tick, disk, bootVars
<1>3. Quiet' /\ Owned' /\ Apart' /\ OwnIds'
  BY ZenonT(60) DEF Tick, Quiet, Owned, Live, Offered, Apart, OwnIds, bootVars, workerVars
<1> QED
  BY <1>1, <1>2, <1>3

LEMMA CrashStep ==
    ASSUME IInv, Crash
    PROVE  IInv'
<1> USE DEF IInv
<1>1. TypeOK'
  BY EmptyStoreConserved DEF TypeOK, Crash, disk, HandlerState
<1>2. Chained'
  BY DEF Chained, Crash, disk
<1>3. Position'
  BY DEF Chained, Position, Crash, disk, TypeOK
<1>4. /\ phase' = "replaying" /\ queue' = <<>> /\ Len(queue') = 0 /\ todo' = {}
      /\ working' = NoId /\ step' = "top"
      /\ \A h \in Handlers : /\ handlers'[h] = IdleHandler
                             /\ handlers'[h].pc = "idle" /\ handlers'[h].id = NoId
  BY DEF Crash, IdleHandler
<1>5. Quiet'
  BY Zenon, <1>4 DEF Quiet
<1>6. Owned' /\ Apart' /\ OwnIds'
  BY <1>4 DEF Owned, Offered, Apart, OwnIds
<1> QED
  BY <1>1, <1>2, <1>3, <1>5, <1>6
-----------------------------------------------------------------------------
LEMMA ReplayEntryStep ==
    ASSUME IInv, ReplayEntry
    PROVE  IInv'
<1> USE DEF IInv
<1>1. /\ phase = "replaying" /\ cursor <= Len(journal)
      /\ store' = ApplyEntry(store, journal[cursor]) /\ cursor' = cursor + 1
      /\ UNCHANGED <<disk, phase, todo, queue, workerVars, handlers, now, bounds>>
  BY DEF ReplayEntry
<1>2. cursor \in 1..Len(journal) /\ store = hist[cursor] /\ Len(hist) = Len(journal) + 1
  BY <1>1 DEF Position, Chained, TypeOK
<1>3. store' = hist[cursor + 1] /\ cursor + 1 \in 1..Len(hist)
  BY <1>1, <1>2 DEF Chained, TypeOK
<1>4. store' \in Store /\ cursor' \in Nat
  BY SMTT(30), <1>1, <1>2, <1>3 DEF TypeOK
<1>5. TypeOK'
  BY <1>1, <1>4 DEF TypeOK, disk, workerVars, bounds
<1>6. Chained'
  BY <1>1 DEF Chained, disk
<1>7. Position'
  BY Zenon, <1>1, <1>3 DEF Position, disk
<1>8. Quiet' /\ Owned' /\ Apart' /\ OwnIds'
  <2>1. /\ working = NoId /\ queue = <<>> /\ todo = {} /\ Len(queue) = 0
        /\ \A h \in Handlers : handlers[h] = IdleHandler
        /\ UNCHANGED <<phase, todo, queue, working, step, handlers>>
    BY <1>1 DEF Quiet, workerVars
  <2>2. Quiet' /\ OwnIds'
    BY <2>1 DEF Quiet, OwnIds
  <2>3. \A h \in Handlers : handlers'[h].pc = "idle"
    BY <2>1 DEF IdleHandler
  <2>4. \A i \in 1..Len(queue') : FALSE
    BY SMTT(30), <2>1
  <2>5. Owned'
    BY SMTT(30), <2>1, <2>3, <2>4 DEF Owned, Offered
  <2>6. Apart'
    BY <2>1, <2>3, <2>4 DEF Apart, Offered
  <2> QED
    BY <2>2, <2>5, <2>6
<1> QED
  BY <1>5, <1>6, <1>7, <1>8

LEMMA ReplayDoneStep ==
    ASSUME IInv, ReplayDone
    PROVE  IInv'
<1> USE DEF IInv
<1>1. /\ phase = "replaying" /\ cursor > Len(journal)
      /\ phase' = "reconciling" /\ todo' = PendingIds(store)
      /\ UNCHANGED <<store, disk, cursor, queue, workerVars, handlers, now, bounds>>
  BY DEF ReplayDone
<1>2. cursor = Len(hist)
  BY <1>1 DEF Position, Chained, TypeOK
<1>3. TypeOK'
  BY <1>1 DEF TypeOK, PendingIds, disk, workerVars, bounds
<1>4. Chained' /\ Position'
  BY <1>1, <1>2, SMTT(30) DEF Chained, Position, disk
<1>5. /\ UNCHANGED <<store, queue, working, step, handlers>>
      /\ queue = <<>> /\ working = NoId /\ step = "top"
      /\ \A h \in Handlers : handlers[h] = IdleHandler
  BY <1>1 DEF Quiet, workerVars
<1>6. Quiet'
  BY ZenonT(30), <1>1, <1>5 DEF Quiet
<1>7. Owned'
  BY SMTT(30), <1>1, <1>5 DEF Owned, Live, Offered, IdleHandler, PendingIds
<1>8. Apart' /\ OwnIds'
  BY <1>5 DEF Apart, OwnIds, Offered, IdleHandler
<1> QED
  BY <1>3, <1>4, <1>6, <1>7, <1>8

LEMMA ReconcileRequestStep ==
    ASSUME IInv, ReconcileRequest
    PROVE  IInv'
<1> USE DEF IInv
<1>1. PICK id \in todo :
        /\ todo' = todo \ {id}
        /\ \/ /\ queue' = Append(queue, id)
              /\ UNCHANGED <<store, disk, ioErrors, orphans>>
           \/ /\ Record(FailedEntry(id))
              /\ UNCHANGED queue
  BY ZenonT(30) DEF ReconcileRequest
<1>2. /\ phase = "reconciling" /\ working = NoId
      /\ \A h \in Handlers : handlers[h] = IdleHandler
      /\ UNCHANGED <<phase, cursor, workerVars, handlers, now, crashes>>
      /\ id \in Ids /\ Live(id) /\ id # NoId
  BY IdAssumption DEF ReconcileRequest, Quiet, Owned, TypeOK
<1>3. Quiet' /\ OwnIds'
  BY <1>2 DEF Quiet, OwnIds, workerVars
<1>4. CASE /\ queue' = Append(queue, id)
           /\ UNCHANGED <<store, disk, ioErrors, orphans>>
  <2>1. /\ queue' \in Seq(Ids) /\ Len(queue') = Len(queue) + 1 /\ Len(queue) \in Nat
        /\ queue'[Len(queue')] = id
        /\ \A i \in 1..Len(queue) : queue'[i] = queue[i]
    BY SMTT(30), <1>2, <1>4 DEF TypeOK
  <2>2. TypeOK'
    BY <1>1, <1>2, <1>4, <2>1 DEF TypeOK, disk, workerVars
  <2>3. Chained' /\ Position'
    BY Zenon, <1>2, <1>4, HistoryUntouched DEF disk
  <2>4. Owned'
    <3>1. \A i \in 1..Len(queue') : Live(queue[i])'
      <4>1. store' = store /\ \A i \in 1..Len(queue) : Live(queue[i])
        BY <1>4 DEF Owned
      <4>2. \A i \in 1..Len(queue') : i \in 1..Len(queue) \/ i = Len(queue')
        BY <2>1
      <4> HIDE DEF IInv
      <4> QED
        BY Zenon, <1>2, <2>1, <4>1, <4>2 DEF Live
    <3> QED
      BY Zenon, <1>1, <1>2, <1>4, <3>1 DEF Owned, Live, Offered, IdleHandler, workerVars
  <2>5. Apart'
    <3> DEFINE n == Len(queue)
    <3>a. \A i \in 1..n : queue'[i] # id
      BY ZenonT(30), <1>1, <2>1 DEF Apart
    <3>b. \A i, j \in 1..n : queue'[i] = queue'[j] => i = j
      BY SMTT(30), <2>1 DEF Apart
    <3>c. n \in Nat /\ Len(queue') = n + 1 /\ queue'[n + 1] = id
      BY <2>1
    <3>1. \A i, j \in 1..Len(queue') : queue'[i] = queue'[j] => i = j
      <4> HIDE DEF n
      <4>1. \A i \in 1..Len(queue') : i \in 1..n \/ i = n + 1
        BY SMTT(30), <3>c
      <4> QED
        BY Zenon, <3>a, <3>b, <3>c, <4>1
    <3>2. \A i \in 1..Len(queue') : queue'[i] # working' /\ queue'[i] \notin todo'
      BY SMTT(30), <1>1, <1>2, <2>1 DEF Apart, workerVars
    <3>3. \A h \in Handlers : ~Offered(h)'
      BY SMTT(30), <1>2 DEF Offered, IdleHandler
    <3> QED
      BY Zenon, <3>1, <3>2, <3>3 DEF Apart
  <2> QED
    BY SMTT(30), <1>3, <2>2, <2>3, <2>4, <2>5
<1>5. CASE Record(FailedEntry(id)) /\ UNCHANGED queue
  <2>1. /\ FailedEntry(id) \in Entry /\ FailedEntry(id).type = "failed"
        /\ FailedEntry(id).id = id
    BY Zenon, <1>2 DEF FailedEntry, Entry
  <2>2. /\ store' \in Store /\ journal' \in Seq(Entry) /\ hist' \in Seq(Store)
        /\ Chained' /\ store' = hist'[Len(hist')]
        /\ UNCHANGED <<ioErrors, orphans>>
        /\ \A x \in Ids : x # id => store'.requests[x] = store.requests[x]
    BY Zenon, <1>2, <1>5, <2>1, RecordProgress
  <2>3. TypeOK'
    BY Zenon, <1>1, <1>2, <1>5, <2>2 DEF TypeOK, workerVars
  <2>4. Position'
    BY Zenon, <1>2, <2>2 DEF Position
  <2>5. Owned'
    <3>1. \A i \in 1..Len(queue') : Live(queue[i])'
      <4>1. \A i \in 1..Len(queue) : Live(queue[i]) /\ queue[i] # id /\ queue[i] \in Ids
        <5>1. \A i \in 1..Len(queue) : queue[i] \in Ids
          BY DEF TypeOK
        <5>2. \A i \in 1..Len(queue) : Live(queue[i]) /\ queue[i] \notin todo
          BY Zenon DEF Owned, Apart
        <5> HIDE DEF IInv
        <5> QED
          BY <5>1, <5>2
      <4> HIDE DEF IInv
      <4> QED
        BY <1>5, <2>2, <4>1 DEF Live
    <3>2. \A x \in todo' : Live(x)'
      BY <1>1, <2>2, Zenon DEF Owned, Live, TypeOK
    <3>3. working' = NoId /\ \A h \in Handlers : handlers'[h].pc = "idle"
      BY SMTT(30), <1>2 DEF IdleHandler, workerVars
    <3> QED
      BY ZenonT(30), <3>1, <3>2, <3>3 DEF Owned, Offered, Live
  <2>6. Apart'
    BY <1>1, <1>2, <1>5, Zenon DEF Apart, Offered, IdleHandler, workerVars
  <2> QED
    BY Zenon, <1>3, <2>2, <2>3, <2>4, <2>5, <2>6
<1> QED
  BY <1>1, <1>4, <1>5

LEMMA ReconcileDoneStep ==
    ASSUME IInv, ReconcileDone
    PROVE  IInv'
<1> USE DEF IInv
<1>1. TypeOK'
  BY DEF TypeOK, ReconcileDone, disk, workerVars, bounds
<1>2. Chained' /\ Position'
  BY SMTT(30) DEF Chained, Position, ReconcileDone, disk
<1>3. Quiet'
  BY SMTT(30) DEF ReconcileDone, Quiet, workerVars
<1>4. Owned'
  BY SMTT(30) DEF ReconcileDone, Owned, Live, Offered, workerVars
<1>5. Apart' /\ OwnIds'
  BY DEF ReconcileDone, Offered, Apart, OwnIds, workerVars
<1> QED
  BY <1>1, <1>2, <1>3, <1>4, <1>5
-----------------------------------------------------------------------------
\* The service starts in the invariant.
LEMMA InitInvariant == Init => IInv
<1> SUFFICES ASSUME Init PROVE IInv
  OBVIOUS
<1>1. TypeOK
  BY EmptyStoreConserved, ProfileAssumption DEF Init, TypeOK, Times, HandlerState
<1>2. Chained
  <2>1. Len(journal) = 0 /\ Len(hist) = 1 /\ hist[1] = EmptyStore
    BY DEF Init
  <2>2. InBudget(EmptyStore)
    BY ProfileAssumption DEF InBudget, EmptyStore
  <2> QED
    BY <2>1, <2>2, EmptyStoreConserved DEF Chained
<1>3. /\ phase = "replaying" /\ queue = <<>> /\ Len(queue) = 0 /\ todo = {}
      /\ working = NoId /\ step = "top"
      /\ \A h \in Handlers : /\ handlers[h] = IdleHandler
                             /\ handlers[h].pc = "idle" /\ handlers[h].id = NoId
  BY DEF Init, IdleHandler
<1>4. Position
  BY DEF Init, Position
<1>5. Quiet
  BY <1>3, Zenon DEF Quiet
<1>6. Owned /\ Apart /\ OwnIds
  BY <1>3 DEF Owned, Offered, Apart, OwnIds
<1> QED
  BY <1>1, <1>2, <1>4, <1>5, <1>6 DEF IInv

\* Every step of the service keeps the invariant.
LEMMA NextInvariant == IInv /\ [Next]_vars => IInv'
<1> SUFFICES ASSUME IInv, [Next]_vars PROVE IInv'
  OBVIOUS
<1>1. CASE \E h \in Handlers : Fund(h)
  BY <1>1, FundArriveStep, FundCheckStep, FundTurnedAwayStep, FundRefusedStep,
     FundAcceptStep, FundEnqueueStep DEF Fund
<1>2. CASE Worker
  BY <1>2, WorkerStep
<1>3. CASE Pause \/ Resume \/ ObserveRefill
  BY <1>3, AdministerStep DEF Pause, Resume, ObserveRefill
<1>4. CASE Tick
  BY <1>4, TickStep
<1>5. CASE Crash
  BY <1>5, CrashStep
<1>6. CASE Boot
  BY <1>6, ReplayEntryStep, ReplayDoneStep, ReconcileRequestStep, ReconcileDoneStep
  DEF Boot
<1>7. CASE UNCHANGED vars
  <2>1. TypeOK'
    BY <1>7 DEF IInv, TypeOK, vars, disk, bootVars, workerVars, bounds
  <2>2. Chained' /\ Position'
    BY ZenonT(30), <1>7, HistoryUntouched DEF IInv, vars, disk, bootVars
  <2>3. Quiet' /\ Owned' /\ Apart' /\ OwnIds'
    BY ZenonT(60), <1>7
    DEF IInv, vars, Quiet, Owned, Live, Offered, Apart, OwnIds, bootVars, workerVars
  <2> QED
    BY SMTT(30), <2>1, <2>2, <2>3 DEF IInv
<1> QED
  BY <1>1, <1>2, <1>3, <1>4, <1>5, <1>6, <1>7 DEF Next

\* The books of a position in the history are those of the store.
LEMMA InvariantImplies == IInv => BudgetConserved /\ BudgetNeverExceeded
<1> SUFFICES ASSUME IInv PROVE BudgetConserved /\ BudgetNeverExceeded
  OBVIOUS
<1>1. Len(hist) \in Nat \ {0} /\ Len(hist) \in 1..Len(hist)
  BY DEF IInv, TypeOK, Chained
<1>2. \E i \in 1..Len(hist) : store = hist[i]
  BY <1>1 DEF IInv, Position
<1>3. BudgetConserved
  BY <1>2 DEF IInv, Chained, BudgetConserved
<1>4. Conserved(Durable) /\ InBudget(Durable)
  BY <1>1 DEF IInv, Chained, Durable
<1>5. BudgetNeverExceeded
  BY <1>4 DEF Conserved, InBudget, BudgetNeverExceeded
<1> QED
  BY <1>3, <1>5

\* Every variable of the intake keeps its type.
THEOREM TypeCorrect == Spec => []TypeOK
<1>1. IInv => TypeOK
  BY DEF IInv
<1> QED
  BY <1>1, InitInvariant, NextInvariant, PTL DEF Spec

\* However many handlers race, requests fail and crashes interrupt, spentByDay
\* equals what the unfailed requests of each day hold (applyEntry, addSpent).
THEOREM BudgetIsConserved == Spec => []BudgetConserved
  BY InitInvariant, NextInvariant, InvariantImplies, PTL DEF Spec

\* The requests the journal holds accepted never exceed the budget of their
\* day (Accept).
THEOREM BudgetIsNeverExceeded == Spec => []BudgetNeverExceeded
  BY InitInvariant, NextInvariant, InvariantImplies, PTL DEF Spec

\* Whatever the order of crashes, failed appends and concurrent handlers, memory
\* equals the replay of the journal whenever the service is not replaying it
\* (NewStore, transition).
THEOREM ReplayIsFaithful == Spec => []ReplayRestores
<1>1. IInv => ReplayRestores
  BY DEF IInv, Position, ReplayRestores, Durable
<1> QED
  BY <1>1, InitInvariant, NextInvariant, PTL DEF Spec
=============================================================================
