---------------------------- MODULE FaucetWorker ----------------------------
(***************************************************************************)
(* The funding worker of the public faucet (publicfaucet/worker.go): one   *)
(* goroutine that drives a request to a terminal state by signing,         *)
(* journaling and broadcasting a transfer, and by settling from chain      *)
(* evidence a submission whose fate it does not know.  It shares the       *)
(* signer and the store with the administrative handlers (pause, resume,   *)
(* rotate, drain), and every call to the chain is a point where those, the *)
(* chain, or a crash may interleave.                                       *)
(*                                                                         *)
(* An Append that fails in RecordSubmitted or RecordConfirmed is part of   *)
(* SignFails, ReplaceFails, SettleFails and Wait; the other durable steps  *)
(* (RecordFailed, RecordRotation, Pause, Resume) succeed here, and their   *)
(* failures and the intake's budget are the subject of FaucetIntake.  The  *)
(* queue is abstracted: the worker may take any pending request.           *)
(***************************************************************************)
EXTENDS Naturals, FiniteSets

CONSTANTS
    Ids,            \* requests the store has accepted
    NoId,           \* the worker owns no request
    Reserve,        \* the recipient of a drain
    Signers,        \* hot keys, named by their address
    FirstSigner,    \* the key the service is first started with
    Admins,         \* administrative calls that may be in progress at once
    MaxNonce,       \* bound: nonces 0 .. MaxNonce can be used
    Versions,       \* fee settings, which is what makes two hashes differ
    MaxDrops,       \* bound on transactions the network loses
    MaxCrashes      \* bound on restarts

ASSUME WorkerAssumption ==
    /\ NoId \notin Ids /\ Reserve \notin Ids
    /\ FirstSigner \in Signers
    /\ MaxNonce \in Nat /\ MaxDrops \in Nat /\ MaxCrashes \in Nat

VARIABLES
    status, submission,         \* Store.requests: Status and the journaled hash
    paused, fenced,             \* Store.paused, Store.fencedKeys
    active,                     \* Signer.address
    worker,                     \* the process call of the loop goroutine
    admins,                     \* the administrative calls in progress
    nonce, pool, landed,        \* the chain
    journaled,                  \* history: every hash journaled per request
    drops, crashes

storeVars == <<status, submission, journaled>>
controlVars == <<paused, fenced, active>>
chainVars == <<nonce, pool, landed, drops>>
vars == <<storeVars, controlVars, chainVars, worker, admins, crashes>>

-----------------------------------------------------------------------------
\* Data.  A transaction stands for its hash: equal fields, equal hash.

Nonces == 0 .. MaxNonce

Tx == [signer: Signers, nonce: Nonces, to: Ids \cup {Reserve}, version: Versions]

\* The fields RecordSubmitted journals: the hash, and the nonce and the signer
\* it was told, which are not recomputed from the hash.
Submission == [tx: Tx, nonce: Nonces, signer: Signers]

NoSubmission == [tx |-> NoId]

Pending == {"queued", "submitted"}

Statuses == Pending \cup {"confirmed", "failed"}

NoTx == [to |-> NoId]

\* The local variables of process, settleSubmission, replaceSubmission and
\* fundOnce that outlive a call to the chain.
IdleWorker ==
    [pc |-> "idle", id |-> NoId, seen |-> NoSubmission,
     signer |-> FirstSigner, nonce |-> 0, tx |-> NoTx]

IdleAdmin == [pc |-> "idle", key |-> FirstSigner, nonce |-> 0]

WorkerPcs == {"idle", "top", "receipt", "nonceAt", "replace", "resign",
              "resend", "fence", "fund", "sign", "send", "wait"}

WorkerState ==
    [pc: WorkerPcs, id: Ids \cup {NoId}, seen: Submission \cup {NoSubmission},
     signer: Signers, nonce: Nonces, tx: Tx \cup {NoTx}]

AdminPcs == {"idle", "swap", "record", "drain"}

TypeOK ==
    /\ status \in [Ids -> Statuses]
    /\ submission \in [Ids -> Submission \cup {NoSubmission}]
    /\ paused \in BOOLEAN
    /\ fenced \subseteq Signers
    /\ active \in Signers
    /\ worker \in WorkerState
    /\ admins \in [Admins -> [pc: AdminPcs, key: Signers, nonce: Nonces]]
    /\ nonce \in [Signers -> 0 .. MaxNonce + 1]
    /\ pool \subseteq Tx
    /\ landed \subseteq [tx: Tx, ok: BOOLEAN]
    /\ journaled \in [Ids -> SUBSET Tx]
    /\ drops \in 0 .. MaxDrops
    /\ crashes \in 0 .. MaxCrashes

Init ==
    /\ status = [id \in Ids |-> "queued"]
    /\ submission = [id \in Ids |-> NoSubmission]
    /\ paused = FALSE
    /\ fenced = {}
    /\ active = FirstSigner
    /\ worker = IdleWorker
    /\ admins = [a \in Admins |-> IdleAdmin]
    /\ nonce = [s \in Signers |-> 0]
    /\ pool = {}
    /\ landed = {}
    /\ journaled = [id \in Ids |-> {}]
    /\ drops = 0
    /\ crashes = 0

-----------------------------------------------------------------------------
\* The chain, from how the worker uses it.

\* PendingNonceAt: the first nonce neither used nor held by a pooled transaction.
PendingNonce(s) ==
    CHOOSE n \in nonce[s] .. nonce[s] + Cardinality(pool) :
        /\ \A tx \in pool : tx.signer = s => tx.nonce # n
        /\ \A m \in nonce[s] .. n - 1 :
               \E tx \in pool : tx.signer = s /\ tx.nonce = m

Landed(tx, ok) == [tx |-> tx, ok |-> ok] \in landed

HasLanded(tx) == \E ok \in BOOLEAN : Landed(tx, ok)

\* A block includes a pooled transaction: it uses up its nonce, and every other
\* transaction of that nonce can no longer land.
Land ==
    \E tx \in pool, ok \in BOOLEAN :
        /\ tx.nonce = nonce[tx.signer]
        /\ nonce' = [nonce EXCEPT ![tx.signer] = @ + 1]
        /\ pool' = {t \in pool : t.signer # tx.signer \/ t.nonce # tx.nonce}
        /\ landed' = landed \cup {[tx |-> tx, ok |-> ok]}
        /\ UNCHANGED <<storeVars, controlVars, worker, admins, drops, crashes>>

\* The network loses a pooled transaction.
Drop ==
    /\ drops < MaxDrops
    /\ \E tx \in pool : pool' = pool \ {tx}
    /\ drops' = drops + 1
    /\ UNCHANGED <<storeVars, controlVars, worker, admins, nonce, landed, crashes>>

\* SendTransaction reaches the pool unless its nonce is used up.
Accepts(tx) == tx.nonce >= nonce[tx.signer]

Broadcast(tx) ==
    /\ Accepts(tx)
    /\ pool' = pool \cup {tx}
    /\ UNCHANGED <<nonce, landed, drops>>

-----------------------------------------------------------------------------
\* Writes to the store.

RecordSubmitted(id, sub) ==
    /\ status' = [status EXCEPT ![id] = "submitted"]
    /\ submission' = [submission EXCEPT ![id] = sub]
    /\ journaled' = [journaled EXCEPT ![id] = @ \cup {sub.tx}]

Settle(id, outcome) ==
    /\ status' = [status EXCEPT ![id] = outcome]
    /\ UNCHANGED <<submission, journaled>>

\* A return from process, or its next iteration.
Goto(pc) == worker' = [worker EXCEPT !.pc = pc]

Again == worker' = [IdleWorker EXCEPT !.pc = "top", !.id = worker.id]

Return == worker' = IdleWorker

OnlyWorker == UNCHANGED <<storeVars, controlVars, chainVars, admins, crashes>>

OnlyStore == UNCHANGED <<controlVars, chainVars, admins, crashes>>

-----------------------------------------------------------------------------
\* The worker.

\* loop receives a request from the queue.
Take ==
    /\ worker.pc = "idle"
    /\ \E id \in Ids :
        /\ status[id] \in Pending
        /\ worker' = [IdleWorker EXCEPT !.pc = "top", !.id = id]
    /\ OnlyWorker

\* The top of process' loop: a terminal request is left alone, a paused service
\* sleeps, a submitted request is settled, a queued one is funded.
Top ==
    /\ worker.pc = "top"
    /\ \/ /\ status[worker.id] \notin Pending
          /\ Return
       \/ /\ status[worker.id] \in Pending
          /\ ~paused
          /\ worker' = [worker EXCEPT
                 !.seen = submission[worker.id],
                 !.pc = IF status[worker.id] = "submitted"
                        THEN "receipt" ELSE "fence"]
    /\ OnlyWorker

\* settleSubmission, TransactionReceipt finds the journaled hash.
SettleLanded ==
    /\ worker.pc = "receipt"
    /\ \E ok \in BOOLEAN :
        /\ Landed(worker.seen.tx, ok)
        /\ Settle(worker.id, IF ok THEN "confirmed" ELSE "failed")
    /\ Return
    /\ OnlyStore

\* settleSubmission, TransactionReceipt answers NotFound.
SettleNotFound ==
    /\ worker.pc = "receipt"
    /\ ~HasLanded(worker.seen.tx)
    /\ Goto("nonceAt")
    /\ OnlyWorker

\* settleSubmission, one of the two calls fails and process sleeps.
SettleFails ==
    /\ worker.pc \in {"receipt", "nonceAt"}
    /\ Again
    /\ OnlyWorker

\* Mutant: the comparison with the submission's nonce is off by one.
SettleNonceLoose ==
    /\ worker.pc = "nonceAt"
    /\ \/ /\ nonce[worker.seen.signer] >= worker.seen.nonce
          /\ Goto("fence")
       \/ /\ nonce[worker.seen.signer] <= worker.seen.nonce
          /\ Again \/ Goto("replace")
    /\ OnlyWorker

\* settleSubmission, NonceAt: past the submission's nonce it is gone and the
\* request is funded afresh; otherwise it is unknown, and after a full timeout
\* it is replaced.
SettleNonce ==
    /\ worker.pc = "nonceAt"
    /\ \/ /\ nonce[worker.seen.signer] > worker.seen.nonce
          /\ Goto("fence")
       \/ /\ nonce[worker.seen.signer] <= worker.seen.nonce
          /\ Again \/ Goto("replace")
    /\ OnlyWorker

\* Mutant: a stuck submission is never replaced.
ReplaceNever ==
    /\ worker.pc = "replace"
    /\ Again
    /\ OnlyWorker

\* replaceSubmission up to the signature: it gives up on a submission of a
\* rotated signer (or on a failing call), and reads the fees.
ReplaceCheck ==
    /\ worker.pc = "replace"
    /\ \/ Again
       \/ /\ worker.seen.signer = active
          /\ Goto("resign")
    /\ OnlyWorker

\* replaceSubmission signs with whichever key is active now, at the
\* submission's nonce, and journals the hash with the submission's signer.
ReplaceSign ==
    /\ worker.pc = "resign"
    /\ \E v \in Versions :
        LET tx == [signer |-> active, nonce |-> worker.seen.nonce,
                   to |-> worker.id, version |-> v]
        IN  /\ RecordSubmitted(worker.id,
                   [tx |-> tx, nonce |-> worker.seen.nonce,
                    signer |-> worker.seen.signer])
            /\ worker' = [worker EXCEPT !.pc = "resend", !.tx = tx]
    /\ OnlyStore

\* replaceSubmission cannot sign or journal: process sleeps and loops.
ReplaceFails ==
    /\ worker.pc = "resign"
    /\ Again
    /\ OnlyWorker

\* replaceSubmission broadcasts; whatever the answer, process sleeps and loops.
ReplaceSend ==
    /\ worker.pc = "resend"
    /\ Broadcast(worker.tx) \/ UNCHANGED chainVars
    /\ Again
    /\ UNCHANGED <<storeVars, controlVars, admins, crashes>>

\* process refuses to fund with a fenced key.
Fence ==
    /\ worker.pc = "fence"
    /\ IF active \in fenced THEN Again ELSE Goto("fund")
    /\ OnlyWorker

\* fundOnce up to the signature: a failing call is retried, another chain's
\* identifier is terminal, otherwise the signer and its pending nonce are read.
Fund ==
    /\ worker.pc = "fund"
    /\ \/ Again /\ OnlyWorker
       \/ Settle(worker.id, "failed") /\ Return /\ OnlyStore
       \/ /\ PendingNonce(active) \in Nonces
          /\ worker' = [worker EXCEPT !.pc = "sign", !.signer = active,
                                      !.nonce = PendingNonce(active)]
          /\ OnlyWorker

\* Mutant: the transaction is broadcast without having been journaled.
SignUnjournaled ==
    /\ worker.pc = "sign"
    /\ \/ active # worker.signer /\ Again
       \/ /\ active = worker.signer
          /\ \E v \in Versions :
                worker' = [worker EXCEPT !.pc = "send",
                    !.tx = [signer |-> active, nonce |-> worker.nonce,
                            to |-> worker.id, version |-> v]]
    /\ OnlyWorker

\* fundOnce signs, gives up if the signer was rotated since it was read, and
\* journals the hash.
Sign ==
    /\ worker.pc = "sign"
    /\ \/ active # worker.signer /\ Again /\ OnlyWorker
       \/ /\ active = worker.signer
          /\ \E v \in Versions :
                LET tx == [signer |-> active, nonce |-> worker.nonce,
                           to |-> worker.id, version |-> v]
                IN  /\ RecordSubmitted(worker.id,
                           [tx |-> tx, nonce |-> worker.nonce,
                            signer |-> worker.signer])
                    /\ worker' = [worker EXCEPT !.pc = "send", !.tx = tx]
          /\ OnlyStore

\* fundOnce cannot sign or journal: a terminal error, and nothing was sent.
SignFails ==
    /\ worker.pc = "sign"
    /\ Settle(worker.id, "failed")
    /\ Return
    /\ OnlyStore

\* fundOnce broadcasts: accepted, refused, or an error that leaves open whether
\* the transaction reached the pool.
Send ==
    /\ worker.pc = "send"
    /\ \/ Broadcast(worker.tx) /\ (Goto("wait") \/ Again)
       \/ UNCHANGED chainVars /\ Again
    /\ UNCHANGED <<storeVars, controlVars, admins, crashes>>

\* Mutant: the receipt's status is not looked at.
WaitIgnoresStatus ==
    /\ worker.pc = "wait"
    /\ \/ /\ HasLanded(worker.tx)
          /\ Settle(worker.id, "confirmed")
          /\ Return
          /\ OnlyStore
       \/ Again /\ OnlyWorker

\* waitForReceipt and the end of fundOnce.
Wait ==
    /\ worker.pc = "wait"
    /\ \/ \E ok \in BOOLEAN :
            /\ Landed(worker.tx, ok)
            /\ Settle(worker.id, IF ok THEN "confirmed" ELSE "failed")
            /\ Return
            /\ OnlyStore
       \/ Again /\ OnlyWorker

-----------------------------------------------------------------------------
\* The administrative handlers.

OnlyControl == UNCHANGED <<storeVars, chainVars, worker, crashes>>

\* handlePause and handleResume.
SetPaused ==
    /\ Admins # {}
    /\ paused' = ~paused
    /\ UNCHANGED <<fenced, active, admins>>
    /\ OnlyControl

\* Mutant: a fenced key is let back in.
RotateCheckEqualOnly(a) ==
    /\ admins[a].pc = "idle"
    /\ \E key \in Signers \ {active} :
        admins' = [admins EXCEPT ![a].pc = "swap", ![a].key = key]
    /\ UNCHANGED controlVars
    /\ OnlyControl

\* handleRotate's checks: the new key is neither fenced nor active.
RotateCheck(a) ==
    /\ admins[a].pc = "idle"
    /\ \E key \in Signers \ (fenced \cup {active}) :
        admins' = [admins EXCEPT ![a].pc = "swap", ![a].key = key]
    /\ UNCHANGED controlVars
    /\ OnlyControl

\* Signer.Rotate: key holds the previous address from here on.
RotateSwap(a) ==
    /\ admins[a].pc = "swap"
    /\ active' = admins[a].key
    /\ admins' = [admins EXCEPT ![a].pc = "record", ![a].key = active]
    /\ UNCHANGED <<paused, fenced>>
    /\ OnlyControl

\* RecordRotation.
RotateRecord(a) ==
    /\ admins[a].pc = "record"
    /\ fenced' = fenced \cup {admins[a].key}
    /\ admins' = [admins EXCEPT ![a] = IdleAdmin]
    /\ UNCHANGED <<paused, active>>
    /\ OnlyControl

\* Drain reads the signer's pending nonce, if the service is paused.
DrainRead(a) ==
    /\ admins[a].pc = "idle"
    /\ paused
    /\ PendingNonce(active) \in Nonces
    /\ admins' = [admins EXCEPT ![a].pc = "drain",
                                ![a].nonce = PendingNonce(active)]
    /\ UNCHANGED controlVars
    /\ OnlyControl

\* Drain signs with whichever key is active now, and broadcasts.
DrainSend(a) ==
    /\ admins[a].pc = "drain"
    /\ \E v \in Versions :
        \/ Broadcast([signer |-> active, nonce |-> admins[a].nonce,
                      to |-> Reserve, version |-> v])
        \/ UNCHANGED chainVars
    /\ admins' = [admins EXCEPT ![a] = IdleAdmin]
    /\ UNCHANGED <<storeVars, controlVars, worker, crashes>>

-----------------------------------------------------------------------------
\* The process stops, at any point, and is started again with a key of the
\* operator's choice; main refuses a fenced one.
Crash ==
    /\ crashes < MaxCrashes
    /\ crashes' = crashes + 1
    /\ active' \in Signers \ fenced
    /\ worker' = IdleWorker
    /\ admins' = [a \in Admins |-> IdleAdmin]
    /\ UNCHANGED <<storeVars, chainVars, paused, fenced>>

WorkerStep ==
    \/ Take \/ Top
    \/ SettleLanded \/ SettleNotFound \/ SettleFails \/ SettleNonce
    \/ ReplaceCheck \/ ReplaceSign \/ ReplaceFails \/ ReplaceSend
    \/ Fence \/ Fund \/ Sign \/ SignFails \/ Send \/ Wait

AdminStep ==
    \/ SetPaused
    \/ \E a \in Admins : \/ RotateCheck(a) \/ RotateSwap(a) \/ RotateRecord(a)
                         \/ DrainRead(a) \/ DrainSend(a)

Next == WorkerStep \/ AdminStep \/ Land \/ Drop \/ Crash

Spec == Init /\ [][Next]_vars

\* Calls to the chain that are retried for ever do not fail for ever, a
\* submission that stays unknown times out, the chain includes what is pooled,
\* and an administrative call in progress finishes.
Advances(A) == A /\ worker'.pc # "top"

Fairness ==
    /\ WF_vars(WorkerStep)
    /\ SF_vars(SettleLanded) /\ SF_vars(SettleNotFound)
    /\ SF_vars(Advances(SettleNonce)) /\ SF_vars(Advances(ReplaceCheck))
    /\ SF_vars(ReplaceSign)
    /\ SF_vars(ReplaceSend /\ Broadcast(worker.tx))
    /\ SF_vars(Advances(Fund) /\ UNCHANGED status)
    /\ SF_vars(Advances(Send))
    /\ SF_vars(Land)
    /\ \A a \in Admins :
        WF_vars(RotateSwap(a) \/ RotateRecord(a) \/ DrainSend(a))

FairSpec == Spec /\ Fairness

-----------------------------------------------------------------------------
\* Properties.

\* A transfer to a requester is known to the journal before the network can
\* hold it, whatever crashes, so that a restart can settle it (fundOnce: "the
\* submitted hash is journaled before broadcast").
JournaledBeforeBroadcast ==
    \A tx \in pool \cup {l.tx : l \in landed} :
        tx.to \in Ids => tx \in journaled[tx.to]

\* A request reported as confirmed was paid by the very hash it reports
\* (settleSubmission and fundOnce, RecordConfirmed).
ConfirmedMeansFunded ==
    \A id \in Ids :
        status[id] = "confirmed" => Landed(submission[id].tx, TRUE)

\* A submission is abandoned for one at another nonce or of another signer only
\* when its own nonce has been used, so that it cannot land later (settleGone).
AbandonedOnlyWhenDead ==
    [][\A id \in Ids :
        LET old == submission[id]
            new == submission'[id]
        IN  /\ old # NoSubmission
            /\ <<new.signer, new.nonce>> # <<old.signer, old.nonce>>
            => nonce[old.signer] > old.nonce]_vars

\* A key that was rotated out is not the signing key again (SignerFenced: "A
\* fenced key must never sign again").
FencedNeverActive == active \notin fenced

\* A request is paid once (process: "a retry can never double-fund a request").
Payments(id) == {l \in landed : l.ok /\ l.tx.to = id}

FundedAtMostOnce == \A id \in Ids : Cardinality(Payments(id)) <= 1

\* While the service is not left paused, every accepted request is settled
\* (process "drives one request to a terminal state").  Running out of the
\* model's nonces is no fault of the worker's.
Exhausted == \E s \in Signers : nonce[s] > MaxNonce

EveryRequestFinishes ==
    <>[]~paused => \A id \in Ids : <>(status[id] \notin Pending \/ Exhausted)
=============================================================================
