------------------------- MODULE FaucetWorkerProofs -------------------------
(***************************************************************************)
(* Proofs about FaucetWorker, for any requests, keys, nonces and number of *)
(* crashes.                                                                *)
(***************************************************************************)
EXTENDS FaucetWorker, TLAPS

\* What the journal holds about a request in each status.
Books ==
    \A id \in Ids :
        /\ status[id] = "queued" => submission[id] = NoSubmission
        /\ status[id] \in {"submitted", "confirmed"} =>
               /\ submission[id] \in Submission
               /\ submission[id].tx.to = id
               /\ submission[id].tx \in journaled[id]

\* What the worker knows about its request at each point of process.
Local ==
    /\ worker.pc # "idle" => worker.id \in Ids
    /\ worker.pc \notin {"idle", "top"} => status[worker.id] \in Pending
    /\ worker.pc \in {"receipt", "nonceAt", "replace", "resign"} =>
           /\ status[worker.id] = "submitted"
           /\ worker.seen = submission[worker.id]
    /\ worker.pc \in {"send", "resend", "wait"} =>
           /\ status[worker.id] = "submitted"
           /\ worker.tx = submission[worker.id].tx

\* A request that is about to be signed afresh has no submission that could
\* still land.
Dead ==
    worker.pc \in {"fence", "fund", "sign"} /\ status[worker.id] = "submitted" =>
        nonce[submission[worker.id].signer] > submission[worker.id].nonce

WInv ==
    /\ TypeOK /\ Books /\ Local /\ Dead
    /\ JournaledBeforeBroadcast /\ ConfirmedMeansFunded

-----------------------------------------------------------------------------
\* Type facts.

LEMMA IdleTypes == IdleWorker \in WorkerState /\ 0 \in Nonces
<1>1. 0 \in Nonces
  BY WorkerAssumption DEF Nonces
<1> QED
  BY <1>1, WorkerAssumption DEF IdleWorker, WorkerState, WorkerPcs

\* The next iteration of process, and the return from it.
LEMMA LoopTypes ==
    ASSUME WInv
    PROVE  /\ Again /\ worker.pc # "idle" =>
                /\ worker' \in WorkerState
                /\ worker'.pc = "top" /\ worker'.id = worker.id
           /\ Return => worker' \in WorkerState /\ worker'.pc = "idle"
           /\ \A pc \in WorkerPcs : Goto(pc) =>
                /\ worker' \in WorkerState
                /\ worker'.pc = pc /\ worker'.id = worker.id
                /\ worker'.seen = worker.seen /\ worker'.tx = worker.tx
<1>1. worker \in WorkerState
  BY DEF WInv, TypeOK
<1>2. Again /\ worker.pc # "idle" =>
        /\ worker' \in WorkerState
        /\ worker'.pc = "top" /\ worker'.id = worker.id
  BY Zenon, <1>1, IdleTypes DEF Again, WorkerState, WorkerPcs, IdleWorker
<1>3. Return => worker' \in WorkerState /\ worker'.pc = "idle"
  BY IdleTypes DEF Return, IdleWorker
<1>4. ASSUME NEW pc \in WorkerPcs, Goto(pc)
      PROVE  /\ worker' \in WorkerState
             /\ worker'.pc = pc /\ worker'.id = worker.id
             /\ worker'.seen = worker.seen /\ worker'.tx = worker.tx
  BY <1>1, <1>4 DEF Goto, WorkerState
<1> QED
  BY <1>2, <1>3, <1>4

\* A step that changes only the worker's local state.
LEMMA OnlyWorkerKeeps ==
    ASSUME WInv, OnlyWorker, worker' \in WorkerState, Local', Dead'
    PROVE  WInv'
<1> USE DEF OnlyWorker, storeVars, controlVars, chainVars
<1>1. TypeOK'
  BY DEF WInv, TypeOK
<1>2. Books'
  BY DEF WInv, Books
<1>3. JournaledBeforeBroadcast'
  BY DEF WInv, JournaledBeforeBroadcast
<1>4. ConfirmedMeansFunded'
  BY DEF WInv, ConfirmedMeansFunded, Landed
<1> QED
  BY <1>1, <1>2, <1>3, <1>4 DEF WInv

\* Going back to the top of the loop loses what was known.
LEMMA AgainKeeps ==
    ASSUME WInv, Again, worker.pc # "idle", OnlyWorker
    PROVE  WInv'
<1>1. worker' \in WorkerState /\ worker'.pc = "top" /\ worker'.id = worker.id
  BY LoopTypes
<1>2. Local' /\ Dead'
  BY <1>1 DEF WInv, Local, Dead
<1> QED
  BY <1>1, <1>2, OnlyWorkerKeeps

-----------------------------------------------------------------------------
\* The shapes of a worker step.

\* A jump within one iteration.
LEMMA GotoKeeps ==
    ASSUME WInv, OnlyWorker, NEW pc \in WorkerPcs, Goto(pc), pc # "idle",
           worker.pc \notin {"idle", "top"},
           pc \in {"receipt", "nonceAt", "replace", "resign"} =>
               worker.pc \in {"receipt", "nonceAt", "replace", "resign"},
           pc \in {"send", "resend", "wait"} =>
               worker.pc \in {"send", "resend", "wait"},
           pc \in {"fence", "fund", "sign"} =>
               \/ worker.pc \in {"fence", "fund", "sign"}
               \/ nonce[submission[worker.id].signer] > submission[worker.id].nonce
    PROVE  WInv'
<1>1. /\ worker' \in WorkerState /\ worker'.pc = pc /\ worker'.id = worker.id
      /\ worker'.seen = worker.seen /\ worker'.tx = worker.tx
  BY LoopTypes
<1>2. UNCHANGED <<status, submission, nonce>>
  BY DEF OnlyWorker, storeVars, chainVars
<1>3. Local'
  BY <1>1, <1>2 DEF WInv, Local
<1>4. Dead'
  BY <1>1, <1>2 DEF WInv, Local, Dead
<1> QED
  BY <1>1, <1>3, <1>4, OnlyWorkerKeeps

\* A return after a terminal status was journaled.
LEMMA SettleKeeps ==
    ASSUME WInv, NEW outcome \in {"confirmed", "failed"},
           worker.pc \notin {"idle", "top"},
           Settle(worker.id, outcome), Return, OnlyStore,
           outcome = "confirmed" =>
               /\ status[worker.id] = "submitted"
               /\ Landed(submission[worker.id].tx, TRUE)
    PROVE  WInv'
<1> USE DEF Settle, OnlyStore, controlVars, chainVars
<1>1. worker' \in WorkerState /\ worker'.pc = "idle" /\ worker.id \in Ids
  BY LoopTypes DEF WInv, Local
<1>2. /\ status' \in [Ids -> Statuses]
      /\ \A id \in Ids : status'[id] = IF id = worker.id THEN outcome ELSE status[id]
  BY <1>1 DEF WInv, TypeOK, Statuses
<1>3. TypeOK'
  BY <1>1, <1>2 DEF WInv, TypeOK
<1>4. Books'
  BY Zenon, <1>1, <1>2 DEF WInv, Books
<1>5. Local' /\ Dead'
  BY <1>1 DEF Local, Dead
<1>6. JournaledBeforeBroadcast'
  BY DEF WInv, JournaledBeforeBroadcast
<1>7. ConfirmedMeansFunded'
  BY Zenon, <1>1, <1>2 DEF WInv, ConfirmedMeansFunded, Landed
<1> QED
  BY <1>3, <1>4, <1>5, <1>6, <1>7 DEF WInv

\* A submission is journaled, and the worker is about to broadcast its hash.
LEMMA SubmitKeeps ==
    ASSUME WInv, NEW sub \in Submission, NEW pc \in {"send", "resend"},
           worker.pc \notin {"idle", "top"}, sub.tx.to = worker.id,
           RecordSubmitted(worker.id, sub),
           worker' = [worker EXCEPT !.pc = pc, !.tx = sub.tx], OnlyStore
    PROVE  WInv'
<1> USE DEF RecordSubmitted, OnlyStore, controlVars, chainVars
<1>1. /\ worker.id \in Ids /\ status[worker.id] \in Pending
      /\ sub.tx \in Tx
  BY DEF WInv, Local, Submission
<1>2. /\ worker' \in WorkerState
      /\ worker'.pc = pc /\ worker'.id = worker.id /\ worker'.tx = sub.tx
  BY Zenon, <1>1 DEF WInv, TypeOK, WorkerState, WorkerPcs
<1>3. /\ status' \in [Ids -> Statuses]
      /\ \A id \in Ids :
            status'[id] = IF id = worker.id THEN "submitted" ELSE status[id]
  BY <1>1 DEF WInv, TypeOK, Statuses, Pending
<1>4. /\ submission' \in [Ids -> Submission \cup {NoSubmission}]
      /\ \A id \in Ids :
            submission'[id] = IF id = worker.id THEN sub ELSE submission[id]
  BY <1>1 DEF WInv, TypeOK
<1>5. /\ journaled' \in [Ids -> SUBSET Tx]
      /\ \A id \in Ids :
            journaled'[id] = IF id = worker.id THEN journaled[id] \cup {sub.tx}
                             ELSE journaled[id]
  BY Zenon, <1>1 DEF WInv, TypeOK
<1>6. TypeOK'
  BY <1>2, <1>3, <1>4, <1>5 DEF WInv, TypeOK
<1>7. Books'
  BY <1>1, <1>3, <1>4, <1>5 DEF WInv, Books
<1>8. Local' /\ Dead'
  BY <1>1, <1>2, <1>3, <1>4 DEF Local, Dead, Pending
<1>9. JournaledBeforeBroadcast'
  BY <1>5 DEF WInv, JournaledBeforeBroadcast
<1>10. ConfirmedMeansFunded'
  BY <1>1, <1>3, <1>4 DEF WInv, ConfirmedMeansFunded, Landed
<1> QED
  BY <1>6, <1>7, <1>8, <1>9, <1>10 DEF WInv

\* A journaled hash reaches the pool, or does not.
LEMMA SendKeeps ==
    ASSUME WInv, worker.pc \in {"send", "resend"},
           Broadcast(worker.tx) \/ UNCHANGED chainVars,
           UNCHANGED <<storeVars, controlVars, admins, crashes>>,
           Again \/ Goto("wait")
    PROVE  WInv'
<1> USE DEF storeVars, controlVars, chainVars
<1>1. /\ worker.id \in Ids /\ status[worker.id] = "submitted"
      /\ worker.tx = submission[worker.id].tx
  BY DEF WInv, Local
<1>2. /\ worker.tx \in Tx /\ worker.tx.to = worker.id
      /\ worker.tx \in journaled[worker.id]
  BY <1>1 DEF WInv, Books, Submission
<1>3. /\ worker' \in WorkerState /\ worker'.id = worker.id
      /\ worker'.pc = "top" \/ (worker'.pc = "wait" /\ worker'.tx = worker.tx)
  <2>1. CASE Again
    BY <2>1, LoopTypes
  <2>2. CASE Goto("wait")
    <3>1. "wait" \in WorkerPcs
      BY DEF WorkerPcs
    <3> QED
      BY <2>2, <3>1, LoopTypes
  <2> QED
    BY <2>1, <2>2
<1>4. /\ UNCHANGED <<nonce, landed, drops>>
      /\ pool' = pool \/ pool' = pool \cup {worker.tx}
  BY DEF Broadcast
<1>5. TypeOK'
  BY <1>2, <1>3, <1>4 DEF WInv, TypeOK
<1>6. Books'
  BY DEF WInv, Books
<1>7. Local' /\ Dead'
  BY <1>1, <1>3 DEF WInv, Local, Dead, Pending
<1>8. JournaledBeforeBroadcast'
  BY <1>2, <1>4 DEF WInv, JournaledBeforeBroadcast
<1>9. ConfirmedMeansFunded'
  BY <1>4 DEF WInv, ConfirmedMeansFunded, Landed
<1> QED
  BY <1>5, <1>6, <1>7, <1>8, <1>9 DEF WInv

-----------------------------------------------------------------------------
\* The steps of the worker, one by one.

LEMMA WorkerPcFacts ==
    {"receipt", "nonceAt", "replace", "resign", "fence", "fund"} \subseteq WorkerPcs
  BY DEF WorkerPcs

LEMMA TakeKeeps == WInv /\ Take => WInv'
<1> SUFFICES ASSUME WInv, Take PROVE WInv'
  OBVIOUS
<1>1. PICK id \in Ids : worker' = [IdleWorker EXCEPT !.pc = "top", !.id = id]
  BY Zenon DEF Take
<1>2. worker' \in WorkerState /\ worker'.pc = "top" /\ worker'.id = id
  BY Zenon, <1>1, IdleTypes DEF IdleWorker, WorkerState, WorkerPcs
<1>3. Local' /\ Dead'
  BY <1>2 DEF Local, Dead
<1> QED
  BY <1>2, <1>3, OnlyWorkerKeeps DEF Take

LEMMA TopKeeps == WInv /\ Top => WInv'
<1> SUFFICES ASSUME WInv, Top PROVE WInv'
  OBVIOUS
<1>1. OnlyWorker /\ worker.pc = "top" /\ worker.id \in Ids
  BY DEF Top, WInv, Local
<1>2. CASE Return
  <2>1. worker' \in WorkerState /\ worker'.pc = "idle"
    BY <1>2, LoopTypes
  <2>2. Local' /\ Dead'
    BY <2>1 DEF Local, Dead
  <2> QED
    BY <1>1, <2>1, <2>2, OnlyWorkerKeeps
<1>3. CASE /\ status[worker.id] \in Pending
           /\ worker' = [worker EXCEPT
                 !.seen = submission[worker.id],
                 !.pc = IF status[worker.id] = "submitted"
                        THEN "receipt" ELSE "fence"]
  <2>1. worker \in WorkerState /\ submission[worker.id] \in Submission \cup {NoSubmission}
    BY <1>1 DEF WInv, TypeOK
  <2>2. /\ worker' \in WorkerState
        /\ worker'.id = worker.id /\ worker'.seen = submission[worker.id]
        /\ worker'.pc = IF status[worker.id] = "submitted" THEN "receipt" ELSE "fence"
    BY Zenon, <1>3, <2>1, WorkerPcFacts DEF WorkerState
  <2>3. UNCHANGED <<status, submission>>
    BY <1>1 DEF OnlyWorker, storeVars
  <2>4. Local' /\ Dead'
    BY <1>1, <1>3, <2>2, <2>3 DEF Local, Dead
  <2> QED
    BY <1>1, <2>2, <2>4, OnlyWorkerKeeps
<1> QED
  BY <1>2, <1>3 DEF Top

LEMMA SettleLandedKeeps == WInv /\ SettleLanded => WInv'
<1> SUFFICES ASSUME WInv, SettleLanded PROVE WInv'
  OBVIOUS
<1>1. PICK ok \in BOOLEAN :
        /\ Landed(worker.seen.tx, ok)
        /\ Settle(worker.id, IF ok THEN "confirmed" ELSE "failed")
  BY DEF SettleLanded
<1>2. /\ worker.pc = "receipt" /\ Return /\ OnlyStore
      /\ status[worker.id] = "submitted" /\ worker.seen = submission[worker.id]
  BY DEF SettleLanded, WInv, Local
<1>3. CASE ok = TRUE
  BY <1>1, <1>2, <1>3, SettleKeeps
<1>4. CASE ok = FALSE
  BY <1>1, <1>2, <1>4, SettleKeeps
<1> QED
  BY Zenon, <1>3, <1>4

LEMMA SettleCallsKeep ==
    WInv /\ (SettleNotFound \/ SettleFails \/ SettleNonce) => WInv'
<1>1. ASSUME WInv, SettleNotFound PROVE WInv'
  BY <1>1, WorkerPcFacts, GotoKeeps DEF SettleNotFound
<1>2. ASSUME WInv, SettleFails PROVE WInv'
  BY <1>2, AgainKeeps DEF SettleFails
<1>3. ASSUME WInv, SettleNonce PROVE WInv'
  <2>1. /\ OnlyWorker /\ worker.pc = "nonceAt"
        /\ worker.seen = submission[worker.id]
    BY <1>3 DEF SettleNonce, WInv, Local
  <2>2. CASE nonce[worker.seen.signer] > worker.seen.nonce /\ Goto("fence")
    BY <1>3, <2>1, <2>2, WorkerPcFacts, GotoKeeps
  <2>3. CASE Again
    BY <1>3, <2>1, <2>3, AgainKeeps
  <2>4. CASE Goto("replace")
    BY <1>3, <2>1, <2>4, WorkerPcFacts, GotoKeeps
  <2> QED
    BY <1>3, <2>2, <2>3, <2>4 DEF SettleNonce
<1> QED
  BY <1>1, <1>2, <1>3

LEMMA ReplaceKeeps ==
    WInv /\ (ReplaceCheck \/ ReplaceSign \/ ReplaceSend) => WInv'
<1>1. ASSUME WInv, ReplaceCheck PROVE WInv'
  <2>1. OnlyWorker /\ worker.pc = "replace"
    BY <1>1 DEF ReplaceCheck
  <2>2. CASE Again
    BY <1>1, <2>1, <2>2, AgainKeeps
  <2>3. CASE Goto("resign")
    BY <1>1, <2>1, <2>3, WorkerPcFacts, GotoKeeps
  <2> QED
    BY <1>1, <2>2, <2>3 DEF ReplaceCheck
<1>2. ASSUME WInv, ReplaceSign PROVE WInv'
  <2>1. /\ OnlyStore /\ worker.pc = "resign" /\ worker.id \in Ids
        /\ worker.seen = submission[worker.id]
        /\ submission[worker.id] \in Submission
        /\ active \in Signers
    BY <1>2 DEF ReplaceSign, WInv, Local, Books, TypeOK
  <2>2. PICK v \in Versions :
          LET tx == [signer |-> active, nonce |-> worker.seen.nonce,
                     to |-> worker.id, version |-> v]
          IN  /\ RecordSubmitted(worker.id,
                     [tx |-> tx, nonce |-> worker.seen.nonce,
                      signer |-> worker.seen.signer])
              /\ worker' = [worker EXCEPT !.pc = "resend", !.tx = tx]
    BY Zenon, <1>2 DEF ReplaceSign
  <2> DEFINE tx == [signer |-> active, nonce |-> worker.seen.nonce,
                    to |-> worker.id, version |-> v]
             sub == [tx |-> tx, nonce |-> worker.seen.nonce,
                     signer |-> worker.seen.signer]
  <2>3. sub \in Submission /\ sub.tx.to = worker.id /\ sub.tx = tx
    BY <2>1 DEF Submission, Tx
  <2>4. RecordSubmitted(worker.id, sub) /\ worker' = [worker EXCEPT !.pc = "resend", !.tx = sub.tx]
    BY <2>2, <2>3
  <2> QED
    BY Zenon, <1>2, <2>1, <2>3, <2>4, SubmitKeeps
<1>3. ASSUME WInv, ReplaceSend PROVE WInv'
  <2>1. /\ worker.pc = "resend" /\ Again
        /\ Broadcast(worker.tx) \/ UNCHANGED chainVars
        /\ UNCHANGED <<storeVars, controlVars, admins, crashes>>
    BY <1>3 DEF ReplaceSend
  <2> QED
    BY <1>3, <2>1, SendKeeps
<1> QED
  BY <1>1, <1>2, <1>3

LEMMA FundKeeps == WInv /\ (Fence \/ Fund) => WInv'
<1>1. ASSUME WInv, Fence PROVE WInv'
  <2>1. OnlyWorker /\ worker.pc = "fence" /\ (Again \/ Goto("fund"))
    BY <1>1 DEF Fence
  <2>2. CASE Again
    BY <1>1, <2>1, <2>2, AgainKeeps
  <2>3. CASE Goto("fund")
    BY <1>1, <2>1, <2>3, WorkerPcFacts, GotoKeeps
  <2> QED
    BY <2>1, <2>2, <2>3
<1>2. ASSUME WInv, Fund PROVE WInv'
  <2>1. worker.pc = "fund"
    BY <1>2 DEF Fund
  <2>2. CASE Again /\ OnlyWorker
    BY <1>2, <2>1, <2>2, AgainKeeps
  <2>3. CASE Settle(worker.id, "failed") /\ Return /\ OnlyStore
    BY <1>2, <2>1, <2>3, SettleKeeps
  <2>4. CASE /\ PendingNonce(active) \in Nonces
             /\ worker' = [worker EXCEPT !.pc = "sign", !.signer = active,
                                         !.nonce = PendingNonce(active)]
             /\ OnlyWorker
    <3>1. worker \in WorkerState /\ active \in Signers
      BY <1>2 DEF WInv, TypeOK
    <3>2. worker' \in WorkerState /\ worker'.pc = "sign" /\ worker'.id = worker.id
      BY Zenon, <2>4, <3>1 DEF WorkerState, WorkerPcs
    <3>3. UNCHANGED <<status, submission, nonce>>
      BY <2>4 DEF OnlyWorker, storeVars, chainVars
    <3>4. Local' /\ Dead'
      BY <1>2, <2>1, <3>2, <3>3 DEF WInv, Local, Dead
    <3> QED
      BY <1>2, <2>4, <3>2, <3>4, OnlyWorkerKeeps
  <2> QED
    BY <1>2, <2>2, <2>3, <2>4 DEF Fund
<1> QED
  BY <1>1, <1>2

LEMMA SignKeeps == WInv /\ Sign => WInv'
<1> SUFFICES ASSUME WInv, Sign PROVE WInv'
  OBVIOUS
<1>1. /\ worker.pc = "sign" /\ worker.id \in Ids /\ active \in Signers
      /\ worker \in WorkerState
  BY Zenon DEF Sign, WInv, Local, TypeOK
<1>2. CASE active # worker.signer /\ Again /\ OnlyWorker
  BY <1>1, <1>2, AgainKeeps
<1>3. CASE active = worker.signer
  <2>1. PICK v \in Versions :
          LET tx == [signer |-> active, nonce |-> worker.nonce,
                     to |-> worker.id, version |-> v]
          IN  /\ RecordSubmitted(worker.id,
                     [tx |-> tx, nonce |-> worker.nonce, signer |-> worker.signer])
              /\ worker' = [worker EXCEPT !.pc = "send", !.tx = tx]
    BY Zenon, <1>3 DEF Sign
  <2> DEFINE tx == [signer |-> active, nonce |-> worker.nonce,
                    to |-> worker.id, version |-> v]
             sub == [tx |-> tx, nonce |-> worker.nonce, signer |-> worker.signer]
  <2>2. sub \in Submission /\ sub.tx.to = worker.id /\ sub.tx = tx
    BY <1>1 DEF Submission, Tx, WorkerState
  <2>3. RecordSubmitted(worker.id, sub) /\ worker' = [worker EXCEPT !.pc = "send", !.tx = sub.tx]
    BY <2>1, <2>2
  <2>4. OnlyStore
    BY Zenon, <1>3 DEF Sign
  <2> QED
    BY Zenon, <1>1, <2>2, <2>3, <2>4, SubmitKeeps
<1> QED
  BY Zenon, <1>2, <1>3 DEF Sign

LEMMA FailuresKeep == WInv /\ (ReplaceFails \/ SignFails) => WInv'
<1>1. ASSUME WInv, ReplaceFails PROVE WInv'
  <2>1. OnlyWorker /\ worker.pc = "resign" /\ Again
    BY <1>1 DEF ReplaceFails
  <2> QED
    BY <1>1, <2>1, AgainKeeps
<1>2. ASSUME WInv, SignFails PROVE WInv'
  <2>1. OnlyStore /\ worker.pc = "sign" /\ Settle(worker.id, "failed") /\ Return
    BY <1>2 DEF SignFails
  <2> QED
    BY <1>2, <2>1, SettleKeeps
<1> QED
  BY <1>1, <1>2

LEMMA SendWaitKeep == WInv /\ (Send \/ Wait) => WInv'
<1>1. ASSUME WInv, Send PROVE WInv'
  <2>1. /\ worker.pc = "send" /\ (Again \/ Goto("wait"))
        /\ Broadcast(worker.tx) \/ UNCHANGED chainVars
        /\ UNCHANGED <<storeVars, controlVars, admins, crashes>>
    BY <1>1 DEF Send
  <2> QED
    BY <1>1, <2>1, SendKeeps
<1>2. ASSUME WInv, Wait PROVE WInv'
  <2>1. /\ worker.pc = "wait" /\ status[worker.id] = "submitted"
        /\ worker.tx = submission[worker.id].tx
    BY <1>2 DEF Wait, WInv, Local
  <2>2. CASE Again /\ OnlyWorker
    BY <1>2, <2>1, <2>2, AgainKeeps
  <2>3. ASSUME NEW ok \in BOOLEAN, Landed(worker.tx, ok),
               Settle(worker.id, IF ok THEN "confirmed" ELSE "failed"),
               Return, OnlyStore
        PROVE  WInv'
    <3>1. CASE ok = TRUE
      BY <1>2, <2>1, <2>3, <3>1, SettleKeeps
    <3>2. CASE ok = FALSE
      BY <1>2, <2>1, <2>3, <3>2, SettleKeeps
    <3> QED
      BY Zenon, <3>1, <3>2
  <2> QED
    BY <1>2, <2>2, <2>3 DEF Wait
<1> QED
  BY <1>1, <1>2

-----------------------------------------------------------------------------
\* The steps of the others.

\* A step of the store's other users, or of the chain, that leaves requests and
\* worker alone, uses nonces only upwards and forgets no receipt.
LEMMA OthersKeep ==
    ASSUME WInv, TypeOK', UNCHANGED <<storeVars, worker>>,
           landed \subseteq landed',
           \A s \in Signers : nonce'[s] >= nonce[s],
           JournaledBeforeBroadcast'
    PROVE  WInv'
<1> USE DEF storeVars
<1>1. Books' /\ Local'
  BY DEF WInv, Books, Local
<1>2. Dead'
  <2> SUFFICES ASSUME worker.pc \in {"fence", "fund", "sign"},
                      status[worker.id] = "submitted"
               PROVE  nonce'[submission[worker.id].signer] > submission[worker.id].nonce
    BY DEF Dead
  <2>1. worker.id \in Ids
    BY DEF WInv, Local
  <2>2. submission[worker.id] \in Submission
    BY <2>1 DEF WInv, Books
  <2>3. /\ submission[worker.id].signer \in Signers
        /\ submission[worker.id].nonce \in Nat
    BY <2>2, WorkerAssumption DEF Submission, Nonces
  <2>4. nonce[submission[worker.id].signer] > submission[worker.id].nonce
    BY DEF WInv, Dead
  <2>5. /\ nonce[submission[worker.id].signer] \in Nat
        /\ nonce'[submission[worker.id].signer] \in Nat
    BY <2>3, WorkerAssumption DEF WInv, TypeOK
  <2> QED
    BY <2>3, <2>4, <2>5
<1>3. ConfirmedMeansFunded'
  BY DEF WInv, ConfirmedMeansFunded, Landed
<1> QED
  BY <1>1, <1>2, <1>3 DEF WInv

LEMMA LandKeeps == WInv /\ Land => WInv'
<1> SUFFICES ASSUME WInv, Land PROVE WInv'
  OBVIOUS
<1>1. PICK tx \in pool, ok \in BOOLEAN :
        /\ tx.nonce = nonce[tx.signer]
        /\ nonce' = [nonce EXCEPT ![tx.signer] = @ + 1]
        /\ pool' = {t \in pool : t.signer # tx.signer \/ t.nonce # tx.nonce}
        /\ landed' = landed \cup {[tx |-> tx, ok |-> ok]}
        /\ UNCHANGED <<storeVars, controlVars, worker, admins, drops, crashes>>
  BY Zenon DEF Land
<1>2. tx \in Tx /\ tx.signer \in Signers /\ tx.nonce \in 0 .. MaxNonce
  BY DEF WInv, TypeOK, Tx, Nonces
<1>3. /\ nonce' \in [Signers -> 0 .. MaxNonce + 1]
      /\ \A s \in Signers : nonce'[s] >= nonce[s]
  BY <1>1, <1>2, WorkerAssumption DEF WInv, TypeOK
<1>4. landed' \subseteq [tx: Tx, ok: BOOLEAN] /\ pool' \subseteq Tx
  BY <1>1, <1>2 DEF WInv, TypeOK
<1>5. TypeOK'
  BY <1>1, <1>3, <1>4 DEF WInv, TypeOK, storeVars, controlVars
<1>6. JournaledBeforeBroadcast'
  <2>1. pool' \cup {l.tx : l \in landed'} \subseteq pool \cup {l.tx : l \in landed}
    BY <1>1
  <2> QED
    BY <1>1, <2>1 DEF WInv, JournaledBeforeBroadcast, storeVars
<1> QED
  BY <1>1, <1>3, <1>5, <1>6, OthersKeep

LEMMA DropKeeps == WInv /\ Drop => WInv'
<1> SUFFICES ASSUME WInv, Drop PROVE WInv'
  OBVIOUS
<1>1. /\ pool' \subseteq pool /\ drops' \in 0 .. MaxDrops
      /\ UNCHANGED <<storeVars, controlVars, worker, admins, nonce, landed, crashes>>
  BY WorkerAssumption DEF Drop, WInv, TypeOK
<1>2. TypeOK'
  BY <1>1 DEF WInv, TypeOK, storeVars, controlVars
<1>3. \A s \in Signers : nonce'[s] >= nonce[s]
  BY <1>1, WorkerAssumption DEF WInv, TypeOK
<1>4. JournaledBeforeBroadcast'
  BY <1>1 DEF WInv, JournaledBeforeBroadcast, storeVars
<1> QED
  BY <1>1, <1>2, <1>3, <1>4, OthersKeep

\* Administrative calls change neither requests nor worker, and only a drain
\* touches the pool, with a transaction to the reserve.
LEMMA AdminKeeps == WInv /\ AdminStep => WInv'
<1> SUFFICES ASSUME WInv, AdminStep PROVE WInv'
  OBVIOUS
<1> DEFINE Quiet == /\ UNCHANGED <<storeVars, worker, crashes>>
                    /\ UNCHANGED <<nonce, landed, drops>>
<1>1. \A s \in Signers : nonce[s] >= nonce[s]
  BY WorkerAssumption DEF WInv, TypeOK
<1>2. ASSUME Quiet, UNCHANGED pool, paused' \in BOOLEAN, fenced' \subseteq Signers,
             active' \in Signers,
             admins' \in [Admins -> [pc: AdminPcs, key: Signers, nonce: Nonces]]
      PROVE  WInv'
  <2>1. TypeOK'
    BY <1>2 DEF WInv, TypeOK, storeVars
  <2>2. JournaledBeforeBroadcast'
    BY <1>2 DEF WInv, JournaledBeforeBroadcast, storeVars
  <2> QED
    BY <1>1, <1>2, <2>1, <2>2, OthersKeep
<1>3. /\ paused \in BOOLEAN /\ fenced \subseteq Signers /\ active \in Signers
      /\ admins \in [Admins -> [pc: AdminPcs, key: Signers, nonce: Nonces]]
  BY DEF WInv, TypeOK
<1> USE DEF OnlyControl, controlVars, chainVars
<1>4. CASE SetPaused
  BY <1>2, <1>3, <1>4 DEF SetPaused
<1>5. ASSUME NEW a \in Admins, RotateCheck(a) PROVE WInv'
  <2>1. PICK key \in Signers :
          admins' = [admins EXCEPT ![a].pc = "swap", ![a].key = key]
    BY Zenon, <1>5 DEF RotateCheck
  <2>2. admins' \in [Admins -> [pc: AdminPcs, key: Signers, nonce: Nonces]]
    BY Zenon, <1>3, <2>1 DEF AdminPcs
  <2> QED
    BY <1>2, <1>3, <1>5, <2>2 DEF RotateCheck
<1>6. ASSUME NEW a \in Admins, RotateSwap(a) PROVE WInv'
  <2>1. /\ admins' \in [Admins -> [pc: AdminPcs, key: Signers, nonce: Nonces]]
        /\ active' \in Signers
    BY Zenon, <1>3, <1>6 DEF RotateSwap, AdminPcs
  <2> QED
    BY <1>2, <1>3, <1>6, <2>1 DEF RotateSwap
<1>7. ASSUME NEW a \in Admins, RotateRecord(a) PROVE WInv'
  <2>1. /\ admins' \in [Admins -> [pc: AdminPcs, key: Signers, nonce: Nonces]]
        /\ fenced' \subseteq Signers
    BY <1>3, <1>7, IdleTypes, WorkerAssumption DEF RotateRecord, AdminPcs, IdleAdmin
  <2> QED
    BY <1>2, <1>3, <1>7, <2>1 DEF RotateRecord
<1>8. ASSUME NEW a \in Admins, DrainRead(a) PROVE WInv'
  <2>1. admins' \in [Admins -> [pc: AdminPcs, key: Signers, nonce: Nonces]]
    BY Zenon, <1>3, <1>8 DEF DrainRead, AdminPcs
  <2> QED
    BY <1>2, <1>3, <1>8, <2>1 DEF DrainRead
<1>9. ASSUME NEW a \in Admins, DrainSend(a) PROVE WInv'
  <2>1. admins' \in [Admins -> [pc: AdminPcs, key: Signers, nonce: Nonces]]
    BY SMTT(30), <1>3, <1>9, IdleTypes, WorkerAssumption DEF DrainSend, AdminPcs, IdleAdmin
  <2>2. /\ UNCHANGED <<storeVars, controlVars, worker, crashes>>
        /\ UNCHANGED <<nonce, landed, drops>>
    BY <1>9 DEF DrainSend, Broadcast
  <2>3. PICK v \in Versions :
          pool' \subseteq pool \cup {[signer |-> active, nonce |-> admins[a].nonce,
                                     to |-> Reserve, version |-> v]}
    BY <1>9 DEF DrainSend, Broadcast
  <2> DEFINE tx == [signer |-> active, nonce |-> admins[a].nonce,
                    to |-> Reserve, version |-> v]
  <2>4. tx \in Tx /\ tx.to \notin Ids
    BY <1>3, WorkerAssumption DEF Tx
  <2>5. pool' \subseteq pool \cup {tx}
    BY <2>3
  <2> HIDE DEF tx
  <2>6. TypeOK'
    BY <2>1, <2>2, <2>4, <2>5 DEF WInv, TypeOK, storeVars
  <2>7. JournaledBeforeBroadcast'
    BY <2>2, <2>4, <2>5 DEF WInv, JournaledBeforeBroadcast, storeVars
  <2> QED
    BY <1>1, <2>2, <2>6, <2>7, OthersKeep
<1> QED
  BY <1>4, <1>5, <1>6, <1>7, <1>8, <1>9 DEF AdminStep

\* A restart forgets what the worker and the handlers were doing.
LEMMA CrashKeeps == WInv /\ Crash => WInv'
<1> SUFFICES ASSUME WInv, Crash PROVE WInv'
  OBVIOUS
<1> USE DEF storeVars, chainVars
<1>1. worker' \in WorkerState /\ worker'.pc = "idle"
  BY IdleTypes DEF Crash, IdleWorker
<1>2. admins' \in [Admins -> [pc: AdminPcs, key: Signers, nonce: Nonces]]
  BY IdleTypes, WorkerAssumption DEF Crash, IdleAdmin, AdminPcs
<1>3. crashes' \in 0 .. MaxCrashes
  BY WorkerAssumption DEF Crash, WInv, TypeOK
<1>4. TypeOK'
  BY <1>1, <1>2, <1>3 DEF Crash, WInv, TypeOK
<1>5. Books' /\ ConfirmedMeansFunded' /\ JournaledBeforeBroadcast'
  BY DEF Crash, WInv, Books, ConfirmedMeansFunded, Landed, JournaledBeforeBroadcast
<1>6. Local' /\ Dead'
  BY <1>1 DEF Local, Dead
<1> QED
  BY <1>4, <1>5, <1>6 DEF WInv

-----------------------------------------------------------------------------
LEMMA WorkerInit == Init => WInv
<1> SUFFICES ASSUME Init PROVE WInv
  OBVIOUS
<1>1. TypeOK
  <2>1. worker \in WorkerState /\ nonce \in [Signers -> 0 .. MaxNonce + 1]
    BY IdleTypes, WorkerAssumption DEF Init
  <2>2. admins \in [Admins -> [pc: AdminPcs, key: Signers, nonce: Nonces]]
    BY IdleTypes, WorkerAssumption DEF Init, IdleAdmin, AdminPcs
  <2>3. status \in [Ids -> Statuses]
    BY DEF Init, Statuses, Pending
  <2>4. submission \in [Ids -> Submission \cup {NoSubmission}]
    BY DEF Init
  <2>5. journaled \in [Ids -> SUBSET Tx]
    BY DEF Init
  <2>6. drops \in 0 .. MaxDrops /\ crashes \in 0 .. MaxCrashes
    BY WorkerAssumption DEF Init
  <2> QED
    BY Zenon, <2>1, <2>2, <2>3, <2>4, <2>5, <2>6, WorkerAssumption DEF Init, TypeOK
<1>2. Books /\ Local /\ Dead
  BY DEF Init, Books, Local, Dead, IdleWorker
<1>3. JournaledBeforeBroadcast /\ ConfirmedMeansFunded
  BY DEF Init, JournaledBeforeBroadcast, ConfirmedMeansFunded
<1> QED
  BY <1>1, <1>2, <1>3 DEF WInv

LEMMA WorkerNext == WInv /\ [Next]_vars => WInv'
<1> SUFFICES ASSUME WInv, [Next]_vars PROVE WInv'
  OBVIOUS
<1>1. CASE WorkerStep
  BY <1>1, TakeKeeps, TopKeeps, SettleLandedKeeps, SettleCallsKeep, ReplaceKeeps,
     FundKeeps, SignKeeps, FailuresKeep, SendWaitKeep DEF WorkerStep
<1>2. CASE AdminStep
  BY <1>2, AdminKeeps
<1>3. CASE Land \/ Drop \/ Crash
  BY <1>3, LandKeeps, DropKeeps, CrashKeeps
<1>4. CASE UNCHANGED vars
  <2> USE <1>4 DEF vars, storeVars, controlVars, chainVars
  <2>1. TypeOK'
    BY DEF WInv, TypeOK
  <2>2. Books' /\ Local' /\ Dead'
    BY SMTT(30) DEF WInv, Books, Local, Dead
  <2>3. JournaledBeforeBroadcast' /\ ConfirmedMeansFunded'
    BY DEF WInv, JournaledBeforeBroadcast, ConfirmedMeansFunded, Landed
  <2> QED
    BY <2>1, <2>2, <2>3 DEF WInv
<1> QED
  BY <1>1, <1>2, <1>3, <1>4 DEF Next

\* Whatever crashes, a transfer to a requester is in the journal before the
\* network can hold it (fundOnce, replaceSubmission).
THEOREM JournalPrecedesBroadcast == Spec => []JournaledBeforeBroadcast
<1>1. WInv => JournaledBeforeBroadcast
  BY DEF WInv
<1> QED
  BY <1>1, WorkerInit, WorkerNext, PTL DEF Spec

\* A request reported as confirmed was paid by the hash it reports
\* (settleSubmission, fundOnce).
THEOREM ConfirmedIsFunded == Spec => []ConfirmedMeansFunded
<1>1. WInv => ConfirmedMeansFunded
  BY DEF WInv
<1> QED
  BY <1>1, WorkerInit, WorkerNext, PTL DEF Spec

\* Every variable keeps its type.
THEOREM WorkerTypeCorrect == Spec => []TypeOK
<1>1. WInv => TypeOK
  BY DEF WInv
<1> QED
  BY <1>1, WorkerInit, WorkerNext, PTL DEF Spec

-----------------------------------------------------------------------------
\* Only the two signing steps touch a submission: a replacement keeps the
\* signer and nonce on record, and a fresh signature follows a dead one.
LEMMA SubmissionsLast ==
    ASSUME WInv, Next, NEW id \in Ids, submission[id] # NoSubmission,
           <<submission'[id].signer, submission'[id].nonce>>
               # <<submission[id].signer, submission[id].nonce>>
    PROVE  nonce[submission[id].signer] > submission[id].nonce
<1>1. submission' # submission
  OBVIOUS
<1>2. Sign \/ ReplaceSign
  <2>1. CASE WorkerStep
    BY Zenon, <1>1, <2>1 DEF WorkerStep, Take, Top, SettleLanded, SettleNotFound,
       SettleFails, SettleNonce, ReplaceCheck, ReplaceFails, ReplaceSend, Fence,
       Fund, SignFails, Send,
       Wait, OnlyWorker, Settle, storeVars
  <2>2. CASE AdminStep
    BY Zenon, <1>1, <2>2 DEF AdminStep, SetPaused, RotateCheck, RotateSwap,
       RotateRecord, DrainRead, DrainSend, OnlyControl, storeVars
  <2>3. CASE Land \/ Drop \/ Crash
    BY <1>1, <2>3 DEF Land, Drop, Crash, storeVars
  <2> QED
    BY SMTT(30), <2>1, <2>2, <2>3 DEF Next
<1>3. /\ worker.id \in Ids
      /\ submission \in [Ids -> Submission \cup {NoSubmission}]
  BY Zenon, <1>2 DEF Sign, ReplaceSign, WInv, Local, TypeOK
<1>4. CASE ReplaceSign
  <2>1. PICK tx : submission' = [submission EXCEPT ![worker.id] =
                     [tx |-> tx, nonce |-> worker.seen.nonce,
                      signer |-> worker.seen.signer]]
    BY Zenon, <1>4 DEF ReplaceSign, RecordSubmitted
  <2>2. worker.seen = submission[worker.id]
    BY <1>4 DEF ReplaceSign, WInv, Local
  <2> QED
    BY <1>3, <2>1, <2>2
<1>5. CASE Sign
  <2>1. PICK sub : submission' = [submission EXCEPT ![worker.id] = sub]
    BY Zenon, <1>1, <1>5 DEF Sign, RecordSubmitted, OnlyWorker, storeVars
  <2>2. id = worker.id
    BY SMTT(30), <1>3, <2>1
  <2>3. /\ worker.pc = "sign"
        /\ status[id] = "submitted"
    BY Zenon, <1>5, <2>2 DEF Sign, WInv, Local, Books, Pending
  <2> QED
    BY <2>2, <2>3 DEF WInv, Dead
<1> QED
  BY <1>2, <1>4, <1>5

\* A journaled submission is given up for one of another signer or nonce only
\* when its nonce has been used, so it cannot land later (settleSubmission).
THEOREM AbandonedIsDead == Spec => AbandonedOnlyWhenDead
<1> DEFINE Step == \A id \in Ids :
        LET old == submission[id]
            new == submission'[id]
        IN  /\ old # NoSubmission
            /\ <<new.signer, new.nonce>> # <<old.signer, old.nonce>>
            => nonce[old.signer] > old.nonce
<1>1. WInv /\ [Next]_vars => [Step]_vars
  BY SubmissionsLast
<1>2. Spec => [][Step]_vars
  BY <1>1, WorkerInit, WorkerNext, PTL DEF Spec
<1> QED
  BY <1>2 DEF AbandonedOnlyWhenDead

-----------------------------------------------------------------------------
\* Administrative calls are made one at a time.
OneAdmin == \A a, b \in Admins : a = b

\* A rotation's new key is not fenced, and the old one is no longer active.
Rotating ==
    \A a \in Admins :
        /\ admins[a].pc = "swap" => admins[a].key \notin fenced \cup {active}
        /\ admins[a].pc = "record" => admins[a].key # active

LEMMA FenceKept ==
    ASSUME OneAdmin, TypeOK, Rotating, FencedNeverActive, [Next]_vars
    PROVE  Rotating' /\ FencedNeverActive'
<1> USE DEF OnlyControl, controlVars
<1>1. admins \in [Admins -> [pc: AdminPcs, key: Signers, nonce: Nonces]]
  BY DEF TypeOK
<1>2. CASE UNCHANGED <<fenced, active, admins>>
  BY <1>2 DEF Rotating, FencedNeverActive
<1>3. CASE WorkerStep
  <2>1. UNCHANGED <<fenced, active, admins>>
    BY Zenon, <1>3 DEF WorkerStep, Take, Top, SettleLanded, SettleNotFound, SettleFails,
       SettleNonce, ReplaceCheck, ReplaceSign, ReplaceFails, ReplaceSend, Fence,
       Fund, Sign, SignFails,
       Send, Wait, OnlyWorker, OnlyStore
  <2> QED
    BY <1>2, <2>1
<1>4. CASE Land \/ Drop \/ SetPaused \/ UNCHANGED vars
  <2>1. UNCHANGED <<fenced, active, admins>>
    BY <1>4 DEF Land, Drop, SetPaused, vars
  <2> QED
    BY <1>2, <2>1
<1>5. CASE Crash
  BY <1>5 DEF Crash, Rotating, FencedNeverActive, IdleAdmin
<1>6. ASSUME NEW a \in Admins, RotateCheck(a) PROVE Rotating' /\ FencedNeverActive'
  <2>1. PICK key \in Signers \ (fenced \cup {active}) :
          admins' = [admins EXCEPT ![a].pc = "swap", ![a].key = key]
    BY Zenon, <1>6 DEF RotateCheck
  <2> QED
    BY <1>1, <1>6, <2>1 DEF RotateCheck, Rotating, FencedNeverActive, OneAdmin
<1>7. ASSUME NEW a \in Admins, RotateSwap(a) PROVE Rotating' /\ FencedNeverActive'
  BY <1>1, <1>7 DEF RotateSwap, Rotating, FencedNeverActive, OneAdmin
<1>8. ASSUME NEW a \in Admins, RotateRecord(a) PROVE Rotating' /\ FencedNeverActive'
  BY <1>1, <1>8 DEF RotateRecord, Rotating, FencedNeverActive, OneAdmin, IdleAdmin
<1>9. ASSUME NEW a \in Admins, DrainRead(a) \/ DrainSend(a)
      PROVE  Rotating' /\ FencedNeverActive'
  <2>1. DrainRead(a) => admins'[a].pc = "drain"
    BY <1>1 DEF DrainRead
  <2>2. DrainSend(a) => admins'[a].pc = "idle"
    BY <1>1 DEF DrainSend, IdleAdmin
  <2>3. UNCHANGED <<fenced, active>>
    BY <1>9 DEF DrainRead, DrainSend
  <2> QED
    BY <1>9, <2>1, <2>2, <2>3 DEF Rotating, FencedNeverActive, OneAdmin
<1> QED
  BY <1>3, <1>4, <1>5, <1>6, <1>7, <1>8, <1>9 DEF Next, AdminStep

\* As long as administrative calls are made one at a time, a key that was
\* rotated out never becomes active again, over restarts too (handleRotate,
\* main).  FaucetWorkerFence.cfg shows that the condition is needed.
THEOREM FencedStaysInactive == ASSUME OneAdmin PROVE Spec => []FencedNeverActive
<1>1. Init => Rotating /\ FencedNeverActive
  BY DEF Init, Rotating, FencedNeverActive, IdleAdmin
<1>2. WInv => TypeOK
  BY DEF WInv
<1>3. WInv /\ Rotating /\ FencedNeverActive /\ [Next]_vars
        => (Rotating /\ FencedNeverActive)'
  BY <1>2, FenceKept
<1> QED
  BY <1>1, <1>3, WorkerInit, WorkerNext, PTL DEF Spec
=============================================================================
