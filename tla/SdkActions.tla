----------------------------- MODULE SdkActions -----------------------------
(* Actions of the SDK: runAction (internal/execution.ts), which starts an
   asynchronous task, races it against a timeout and the caller's signal and
   retries reads, composed with the tasks it runs: the wallet's preflight, its
   submit-once and its wait for a receipt (wallet.ts), and a one-request read.

   JavaScript runs one callback to completion at a time.  A step is what happens
   between two awaits, so a timer or an abort and the failure it causes are one
   step: the rejected race is handled before any other callback runs.  The task
   that lost the race is not stopped; it goes on until it looks at the signal.

   The caller owns the request object and the signer's account object, and may
   change both while the SDK waits. *)
EXTENDS SdkErrors, Integers

CONSTANTS
    Calls,          \* invocations of SDK actions
    RawErrors,      \* errors a transport, node or wallet may answer with
    Accounts,       \* addresses an account object may carry
    Values,         \* transferred amounts a request may name
    Balance,        \* the account's first balance
    MaxNonce,       \* bound on the account's nonce
    MaxEdits        \* bound on the caller's changes to its own objects

\* "earlier" names the transaction that no call of these sent.
ASSUME SdkAssumption ==
    "earlier" \notin Calls /\ Values \subseteq Nat /\ Balance \in Nat /\ MaxNonce \in Nat

VARIABLES
    phase,      \* "idle", "attempt", "backoff", "succeeded" or "failed"
    plan,       \* what was asked: task, timeout, signal, attempts
    attempt,    \* number of the attempt that runs, or would run next
    aborted,    \* operation.signal.aborted
    timedOut,   \* the timer fired first
    events,     \* phases of the diagnostic events emitted
    result,     \* the status returned
    failure,    \* the error thrown
    task,       \* where each attempt's task waits
    request,    \* the caller's request and account objects
    snapshot,   \* the task's own copy of the request
    reads,      \* answers of the preflight's concurrent reads
    approved,   \* the preflight passed to authorize()
    sent,       \* transactions handed to the wallet's sendTransaction
    account,    \* the account on the chain: pending nonce and balance
    landed,     \* transactions committed
    edits       \* changes the caller made to its objects

opVars == <<phase, attempt, aborted, events, result, failure>>
dataVars == <<snapshot, reads, approved, sent>>
worldVars == <<request, account, landed, edits>>
sdkVars == <<opVars, plan, timedOut, task, dataVars, worldVars>>

MaximumReadAttempts == 3
Attempts == 1..MaximumReadAttempts
AnyNonce == -1      \* the request names no nonce
Unread == -1        \* a read of the preflight is not answered yet

Tasks == {"request", "preflight", "send", "wait"}
KindOf(t) == IF t = "send" THEN "broadcast" ELSE "read"
FallbackOf(t) ==
    CASE t = "request" -> "transport"
      [] t = "preflight" -> "simulation"
      [] t = "send" -> "transport"
      [] t = "wait" -> "rpc"

Plans ==
    [task : Tasks, timeout : BOOLEAN, signal : BOOLEAN, attempts : Attempts]

Requests == [value : Values, from : Accounts, nonce : {AnyNonce} \cup 0..MaxNonce]

Open(c) == phase[c] \in {"attempt", "backoff"}
Ended(c) == phase[c] \in {"succeeded", "failed"}
Running(c, k) == task[c][k] \notin {"unstarted", "settled"}

\* A transaction the application submitted before, for which "wait" waits.
EarlierTransaction ==
    [call |-> "earlier", from |-> "nobody", value |-> 0, cost |-> 1, nonce |-> 0]

NoPlan == [task |-> "request", timeout |-> FALSE, signal |-> FALSE, attempts |-> 1]
NoError == SdkError("none", FALSE, FALSE)
NoReads == [nonce |-> Unread, balance |-> Unread]
NoPreflight == [from |-> "nobody", value |-> 0, cost |-> 0, nonce |-> 0]

SdkInit ==
    /\ phase = [c \in Calls |-> "idle"]
    /\ plan = [c \in Calls |-> NoPlan]
    /\ attempt = [c \in Calls |-> 1]
    /\ aborted = [c \in Calls |-> FALSE]
    /\ timedOut = [c \in Calls |-> FALSE]
    /\ events = [c \in Calls |-> <<>>]
    /\ result = [c \in Calls |-> "none"]
    /\ failure = [c \in Calls |-> NoError]
    /\ task = [c \in Calls |-> [k \in Attempts |-> "unstarted"]]
    /\ request \in [Calls -> Requests]
    /\ snapshot = request
    /\ reads = [c \in Calls |-> NoReads]
    /\ approved = [c \in Calls |-> NoPreflight]
    /\ sent = {EarlierTransaction}
    /\ account = [nonce |-> 0, balance |-> Balance]
    /\ landed = {}
    /\ edits = 0

\* ------------------------------------------------------------ runAction ---

\* operation.normalize(): a signal-only operation keeps RPC_ABORTED and turns
\* any other error after an abort into a cancellation; an operation with its own
\* controller reports a timeout first and keeps an SDK error as it is.
Normalize(c, error, ab, late) ==
    IF plan[c].signal /\ ~plan[c].timeout
    THEN IF ab /\ ~error.rpcAborted THEN ControlError("cancellation") ELSE error
    ELSE IF late THEN ControlError("timeout") ELSE error

Thrown(c, error, ab, late) ==
    EnforceOperationSafety(Normalize(c, error, ab, late), KindOf(plan[c].task))

\* validateRetry(allowRetry ? options.retry : undefined).
MaxAttempts(c) == IF KindOf(plan[c].task) = "read" THEN plan[c].attempts ELSE 1

MayRetryRetryable(c, error) ==
    error.retryable /\ attempt[c] < plan[c].attempts /\ ~aborted[c]

MayRetry(c, error) ==
    /\ KindOf(plan[c].task) = "read"
    /\ error.safeToRetry
    /\ attempt[c] < MaxAttempts(c)
    /\ ~aborted[c]

\* emit(failure) after the events already emitted, then throw.
Fail(c, emitted, error) ==
    /\ phase' = [phase EXCEPT ![c] = "failed"]
    /\ events' = [events EXCEPT ![c] = emitted \o <<"failure">>]
    /\ failure' = [failure EXCEPT ![c] = error]
    /\ UNCHANGED result

\* The awaited attempt rejected.  The diagnostics hook is the caller's code: it
\* may abort the signal while it is told of the retry, and then waitForRetry
\* throws at once.
HandleError(c, error) ==
    LET thrown == Thrown(c, error, aborted[c], timedOut[c])
        retry == events[c] \o <<"retry">>
        cancelled == Thrown(c, ControlError("cancellation"), TRUE, FALSE)
    IN  \/ /\ ~MayRetry(c, thrown)
           /\ Fail(c, events[c], thrown)
           /\ UNCHANGED <<attempt, aborted>>
        \/ /\ MayRetry(c, thrown)
           /\ attempt' = [attempt EXCEPT ![c] = @ + 1]
           /\ \/ /\ phase' = [phase EXCEPT ![c] = "backoff"]
                 /\ events' = [events EXCEPT ![c] = retry]
                 /\ UNCHANGED <<result, failure, aborted>>
              \/ /\ plan[c].signal
                 /\ aborted' = [aborted EXCEPT ![c] = TRUE]
                 /\ Fail(c, retry, cancelled)

\* The task of attempt k is over.  Only the attempt the operation still awaits
\* is heard; raceAbort swallows what a task does after the race was lost.
Settle(c, k) == task' = [task EXCEPT ![c][k] = "settled"]

Awaited(c, k) == phase[c] = "attempt" /\ attempt[c] = k

Reject(c, k, error) ==
    /\ Settle(c, k)
    /\ IF Awaited(c, k)
       THEN HandleError(c, error)
       ELSE UNCHANGED opVars

Resolve(c, k, status) ==
    /\ Settle(c, k)
    /\ IF Awaited(c, k)
       THEN /\ phase' = [phase EXCEPT ![c] = "succeeded"]
            /\ events' = [events EXCEPT ![c] = @ \o <<"success">>]
            /\ result' = [result EXCEPT ![c] = status]
       ELSE UNCHANGED <<phase, events, result>>
    /\ UNCHANGED <<attempt, aborted, failure>>

\* What a task does before its first await: the wallet's tasks normalise the
\* request into a copy of their own.
FirstAwait(t) ==
    CASE t = "request" -> "answer"
      [] t \in {"preflight", "send"} -> "chainId"
      [] t = "wait" -> "receipt"

StartTask(c, k, t) ==
    /\ task' = [task EXCEPT ![c][k] = FirstAwait(t)]
    /\ snapshot' = [snapshot EXCEPT ![c] = request[c]]
    /\ reads' = [reads EXCEPT ![c] = NoReads]

\* runAction up to its first await.  Controls that do not validate throw before
\* any event; a signal that is aborted already, or by the hook told of the
\* start, ends the operation before the task is started.
Invoke(c) ==
    /\ phase[c] = "idle"
    /\ \E p \in Plans, valid \in BOOLEAN, ab \in BOOLEAN :
        /\ ab => p.signal /\ valid
        /\ plan' = [plan EXCEPT ![c] = p]
        /\ aborted' = [aborted EXCEPT ![c] = ab]
        /\ \/ /\ ~valid
              /\ phase' = [phase EXCEPT ![c] = "failed"]
              /\ failure' = [failure EXCEPT ![c] = SdkError("configuration", FALSE, FALSE)]
              /\ UNCHANGED <<result, events, task, snapshot, reads>>
           \/ /\ valid /\ ab
              /\ Fail(c, <<"start">>, ControlError("cancellation"))
              /\ UNCHANGED <<task, snapshot, reads>>
           \/ /\ valid /\ ~ab
              /\ phase' = [phase EXCEPT ![c] = "attempt"]
              /\ events' = [events EXCEPT ![c] = <<"start">>]
              /\ StartTask(c, 1, p.task)
              /\ UNCHANGED <<result, failure>>
    /\ UNCHANGED <<worldVars, attempt, timedOut, approved, sent>>

\* The backoff timer: the loop's next turn.
Retry(c) ==
    /\ phase[c] = "backoff"
    /\ phase' = [phase EXCEPT ![c] = "attempt"]
    /\ StartTask(c, attempt[c], plan[c].task)
    /\ UNCHANGED <<worldVars, plan, attempt, aborted, timedOut, events, result,
                   failure, approved, sent>>

\* The caller aborts its signal: raceAbort, or waitForRetry, rejects.
Abort(c) ==
    /\ Open(c) /\ plan[c].signal
    /\ aborted' = [aborted EXCEPT ![c] = TRUE]
    /\ Fail(c, events[c], Thrown(c, ControlError("cancellation"), TRUE, FALSE))
    /\ UNCHANGED <<dataVars, worldVars, plan, attempt, timedOut, task>>

TimeoutFirstOnly(c) ==
    /\ Open(c) /\ plan[c].timeout /\ attempt[c] = 1
    /\ aborted' = [aborted EXCEPT ![c] = TRUE]
    /\ timedOut' = [timedOut EXCEPT ![c] = TRUE]
    /\ Fail(c, events[c], Thrown(c, ControlError("cancellation"), TRUE, TRUE))
    /\ UNCHANGED <<dataVars, worldVars, plan, attempt, task>>

\* The operation's timer fires and aborts the controller.
Timeout(c) ==
    /\ Open(c) /\ plan[c].timeout
    /\ aborted' = [aborted EXCEPT ![c] = TRUE]
    /\ timedOut' = [timedOut EXCEPT ![c] = TRUE]
    /\ Fail(c, events[c], Thrown(c, ControlError("cancellation"), TRUE, TRUE))
    /\ UNCHANGED <<dataVars, worldVars, plan, attempt, task>>

taskOnly == UNCHANGED <<plan, timedOut, worldVars>>

\* ---------------------------------------------------------------- tasks ---

RawError(c, raw) ==
    NormalizeToriumError(raw, KindOf(plan[c].task), FallbackOf(plan[c].task))

AbortError == SdkError("cancellation", FALSE, FALSE)

\* The wallet, the transport or authorize() may use the SDK itself; an error that
\* is an SDK error already is kept as it is.
NestedError == SdkError("transport", TRUE, TRUE)

\* Whatever the task waits for may fail, and every await of the wallet's tasks
\* is followed by signal.throwIfAborted() before the answer is used.
AnswerFails(c, k) ==
    /\ Running(c, k)
    /\ \E error \in {RawError(c, raw) : raw \in RawErrors} \cup {NestedError} :
        Reject(c, k, error)
    /\ UNCHANGED dataVars
    /\ taskOnly

ThrowIfAborted(c, k) ==
    /\ task[c][k] \in {"chainId", "call", "reads", "authorize"}
    /\ aborted[c]
    /\ Reject(c, k, AbortError)
    /\ UNCHANGED dataVars
    /\ taskOnly

\* What the wallet's tasks refuse before they ask anything: a chain that is not the
\* canonical definition or not that of both clients, and a request whose fields are
\* malformed or beyond the limits of the protocol.
LocalRefusals(t) == {"configuration"} \cup {w \in {"wrong-chain"} : t = "send"}

RefuseLocally(c, k) ==
    /\ task[c][k] = "chainId" /\ ~aborted[c]
    /\ \E category \in LocalRefusals(plan[c].task) : Reject(c, k, SdkError(category, FALSE, FALSE))
    /\ UNCHANGED dataVars
    /\ taskOnly

\* A one-request read: the answer comes back.
Answer(c, k) ==
    /\ task[c][k] = "answer"
    /\ Resolve(c, k, "answered")
    /\ UNCHANGED dataVars
    /\ taskOnly

\* waitForToriumTransactionImpl: the receipt of an earlier transaction, or the
\* receipt client's own timeout, which is not an error.
Receipt(c, k) ==
    /\ task[c][k] = "receipt"
    /\ \/ \E tx \in landed : tx.call = "earlier"
             /\ Resolve(c, k, IF tx.success THEN "committed" ELSE "reverted")
       \/ Resolve(c, k, "unknown")
    /\ UNCHANGED dataVars
    /\ taskOnly

\* preflightToriumTransactionImpl: the chain id, then eth_call.
ChainId(c, k) ==
    /\ task[c][k] = "chainId" /\ ~aborted[c]
    /\ \/ /\ task' = [task EXCEPT ![c][k] = "call"]
          /\ UNCHANGED opVars
       \/ Reject(c, k, SdkError("wrong-chain", FALSE, FALSE))
    /\ UNCHANGED dataVars
    /\ taskOnly

Call(c, k) ==
    /\ task[c][k] = "call" /\ ~aborted[c]
    /\ task' = [task EXCEPT ![c][k] = "reads"]
    /\ UNCHANGED <<opVars, dataVars>>
    /\ taskOnly

\* Two of the four reads of Promise.all, answered in either order.
ReadNonce(c, k) ==
    /\ task[c][k] = "reads" /\ reads[c].nonce = Unread
    /\ reads' = [reads EXCEPT ![c].nonce = account.nonce]
    /\ UNCHANGED <<opVars, task, snapshot, approved, sent>>
    /\ taskOnly

ReadBalance(c, k) ==
    /\ task[c][k] = "reads" /\ reads[c].balance = Unread
    /\ reads' = [reads EXCEPT ![c].balance = account.balance]
    /\ UNCHANGED <<opVars, task, snapshot, approved, sent>>
    /\ taskOnly

\* The preflight's report: what would be signed, and what forbids it.
Preflight(c, fee) ==
    [from |-> snapshot[c].from,
     value |-> snapshot[c].value,
     cost |-> fee + snapshot[c].value,
     nonce |-> IF snapshot[c].nonce = AnyNonce THEN reads[c].nonce
                                               ELSE snapshot[c].nonce]

Blockers(c, pre, gasTooLow) ==
    {b \in {"gas-below-estimate"} : gasTooLow}
        \cup {b \in {"insufficient-funds"} : reads[c].balance < pre.cost}
        \cup {b \in {"nonce-mismatch"} : pre.nonce # reads[c].nonce}

BlockerCategory(blockers) ==
    IF "insufficient-funds" \in blockers THEN "funds"
    ELSE IF "nonce-mismatch" \in blockers THEN "nonce" ELSE "simulation"

\* All four reads answered.  A preflight action returns its report; a submission
\* refuses a blocked one, and passes another to the caller's authorize().
Preflighted(c, k) ==
    /\ task[c][k] = "reads" /\ ~aborted[c]
    /\ reads[c].nonce # Unread /\ reads[c].balance # Unread
    /\ \E gasTooLow \in BOOLEAN :
        LET pre == Preflight(c, 1)
            blockers == Blockers(c, pre, gasTooLow)
        IN  \/ /\ plan[c].task = "preflight"
               /\ Resolve(c, k, IF blockers = {} THEN "submittable" ELSE "blocked")
               /\ UNCHANGED approved
            \/ /\ plan[c].task = "send" /\ blockers # {}
               /\ Reject(c, k, SdkError(BlockerCategory(blockers), FALSE, FALSE))
               /\ UNCHANGED approved
            \/ /\ plan[c].task = "send" /\ blockers = {}
               /\ task' = [task EXCEPT ![c][k] = "authorize"]
               /\ approved' = [approved EXCEPT ![c] = pre]
               /\ UNCHANGED opVars
    /\ UNCHANGED <<snapshot, reads, sent>>
    /\ taskOnly

\* The answers do not fit: an estimate or a fee is out of range, or the transaction
\* signed with the longest signature would be too long for the network.
AnswersOutOfRange(c, k) ==
    /\ task[c][k] = "reads" /\ ~aborted[c]
    /\ reads[c].nonce # Unread /\ reads[c].balance # Unread
    /\ Reject(c, k, SdkError("configuration", FALSE, FALSE))
    /\ UNCHANGED dataVars
    /\ taskOnly

TransactionLive(c) == [call |-> c, from |-> request[c].from,
                       value |-> request[c].value, cost |-> approved[c].cost,
                       nonce |-> approved[c].nonce]

\* The account object is the caller's own: its address is read again after
\* authorize(), and the transaction is signed by whatever it is then.
Transaction(c) == [call |-> c, from |-> request[c].from,
                   value |-> approved[c].value, cost |-> approved[c].cost,
                   nonce |-> approved[c].nonce]

SignerChanged(c) == request[c].from # approved[c].from

AuthorizeLate(c, k) ==
    /\ task[c][k] = "authorize" /\ ~SignerChanged(c)
    /\ sent' = sent \cup {Transaction(c)}
    /\ task' = [task EXCEPT ![c][k] = "send"]
    /\ UNCHANGED <<opVars, snapshot, reads, approved>>
    /\ taskOnly

Authorize(c, k) ==
    /\ task[c][k] = "authorize" /\ ~aborted[c]
    /\ \/ /\ ~SignerChanged(c)
          /\ sent' = sent \cup {Transaction(c)}
          /\ task' = [task EXCEPT ![c][k] = "send"]
          /\ UNCHANGED opVars
       \/ /\ SignerChanged(c)
          /\ Reject(c, k, SdkError("transport", TRUE, FALSE))
          /\ UNCHANGED sent
       \/ /\ Reject(c, k, SdkError("cancellation", FALSE, FALSE))
          /\ UNCHANGED sent
    /\ UNCHANGED <<snapshot, reads, approved>>
    /\ taskOnly

\* sendTransaction answers with a hash.
Acknowledge(c, k) ==
    /\ task[c][k] = "send"
    /\ Resolve(c, k, "acknowledged")
    /\ UNCHANGED dataVars
    /\ taskOnly

\* ---------------------------------------------------------- environment ---

\* The chain commits a transaction it was sent, whatever the caller was told.
Commit(tx, success) ==
    /\ tx.nonce = account.nonce /\ tx.cost <= account.balance
    /\ account.nonce < MaxNonce
    /\ account' = [nonce |-> account.nonce + 1, balance |-> account.balance - tx.cost]
    /\ landed' = landed \cup {[call |-> tx.call, success |-> success]}
    /\ UNCHANGED <<opVars, dataVars, plan, timedOut, task, request, edits>>

\* Another wallet of the same account spends from it.
SpendElsewhere ==
    /\ account.nonce < MaxNonce /\ account.balance > 0
    /\ account' = [nonce |-> account.nonce + 1, balance |-> account.balance - 1]
    /\ UNCHANGED <<opVars, dataVars, plan, timedOut, task, request, landed, edits>>

\* The caller changes its request or its account object during the call.
EditRequest(c) ==
    /\ edits < MaxEdits /\ Open(c)
    /\ \E v \in Values, a \in Accounts :
        request' = [request EXCEPT ![c].value = v, ![c].from = a]
    /\ edits' = edits + 1
    /\ UNCHANGED <<opVars, dataVars, plan, timedOut, task, account, landed>>

TaskStep(c, k) ==
    \/ AnswerFails(c, k) \/ ThrowIfAborted(c, k) \/ RefuseLocally(c, k)
    \/ Answer(c, k) \/ Receipt(c, k)
    \/ ChainId(c, k) \/ Call(c, k) \/ ReadNonce(c, k) \/ ReadBalance(c, k)
    \/ Preflighted(c, k) \/ AnswersOutOfRange(c, k)
    \/ Authorize(c, k) \/ Acknowledge(c, k)

SdkNext ==
    \/ \E c \in Calls :
        \/ Invoke(c) \/ Retry(c) \/ Abort(c) \/ Timeout(c) \/ EditRequest(c)
        \/ \E k \in Attempts : TaskStep(c, k)
    \/ \E tx \in sent, success \in BOOLEAN : Commit(tx, success)
    \/ SpendElsewhere

\* The event loop runs timers that are due.  Nothing makes a remote peer answer
\* or a caller act.
SdkFairness ==
    \A c \in Calls : WF_sdkVars(Timeout(c)) /\ WF_sdkVars(Retry(c))

SdkSpec == SdkInit /\ [][SdkNext]_sdkVars /\ SdkFairness

\* ----------------------------------------------------------- properties ---

\* A retry never overlaps the attempt it replaces: while runAction's operation
\* is open, no task of an earlier attempt is still running, although a task that
\* lost its race is never stopped.
OneAttemptInFlight ==
    \A c \in Calls : Open(c) =>
        \A k \in Attempts : Running(c, k) => phase[c] = "attempt" /\ k = attempt[c]

\* runToriumWriteActionOnce: whatever errors, retry options, aborts and timers do,
\* a submission runs its task once and hands the wallet at most one transaction.
WritesRunOnce ==
    \A c \in Calls : phase[c] # "idle" /\ KindOf(plan[c].task) # "read" =>
        /\ \A k \in Attempts \ {1} : task[c][k] = "unstarted"
        /\ Cardinality({tx \in sent : tx.call = c}) <= 1

\* sendToriumTransactionOnceImpl looks at the signal after authorize() returns:
\* a submission the caller was already told had failed is never begun.
NoLateSubmission ==
    [][\A tx \in sent' \ sent : phase[tx.call] = "attempt" /\ ~aborted[tx.call]]_sdkVars

\* What the wallet is asked to sign is what authorize() was shown, and the funds
\* for it were seen, whatever the caller does to its request and account objects
\* while the SDK waits.
SentAsAuthorized ==
    \A tx \in sent : tx.call \in Calls =>
        LET shown == approved[tx.call]
        IN  /\ tx = [call |-> tx.call, from |-> shown.from, value |-> shown.value,
                     cost |-> shown.cost, nonce |-> shown.nonce]
            /\ tx.cost <= reads[tx.call].balance

\* A thrown error that says the operation is safe to retry comes from an
\* operation that asked the wallet for nothing (enforceOperationSafety): one that
\* may still land after the failure never invites a second submission.
SafeToRetryMeansUnsent ==
    \A c \in Calls : failure[c].safeToRetry =>
        \A tx \in sent : tx.call # c

\* The diagnostic events tell the operation's story: one start, one retry for
\* each further attempt, and exactly one end, which agrees with what the caller
\* got; a call whose controls are invalid tells nothing.
EventsTellTheStory ==
    \A c \in Calls :
        LET told(p) == Cardinality({i \in DOMAIN events[c] : events[c][i] = p})
        IN  /\ told("retry") = attempt[c] - 1
            /\ told("start") = IF events[c] = <<>> THEN 0 ELSE 1
            /\ told("success") = (IF phase[c] = "succeeded" THEN 1 ELSE 0)
            /\ told("failure") =
                 IF phase[c] = "failed" /\ events[c] # <<>> THEN 1 ELSE 0
            /\ Open(c) => events[c] # <<>>

\* A call with a timeout ends, even if nothing it waits for ever answers.
TimedCallsEnd ==
    \A c \in Calls : (Open(c) /\ plan[c].timeout) ~> Ended(c)

\* runAction makes one attempt at a time, a submission makes one in all, and the
\* events the diagnostics hook is given tell exactly those attempts.
AttemptsAreSingle == OneAttemptInFlight /\ WritesRunOnce /\ EventsTellTheStory
=============================================================================
