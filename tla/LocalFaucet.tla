----------------------------- MODULE LocalFaucet -----------------------------
(* The faucet of the localnet (chain/app/faucet): an address gets nothing while it is
   in cooldown and no more than an amount per rolling window.  A handler reads the
   clock, then waits for the limiter's lock and keeps it over the whole transfer, so
   requests may be checked in another order than they arrived in, and long after.
   The records live in memory and are gone after a restart. *)
EXTENDS Integers, Sequences, SequencesExt, FiniteSetsExt

CONSTANTS
    Recipients, Callers,
    MinimumAmount, MaximumAmountPerRequest, MaximumAmountPerWindow,
    AddressWindow, Cooldown,
    MaxClock,       \* bound on the clock
    MaxAsked        \* bound on the requests

\* Policy.Validate.
ASSUME LocalPolicyIsValid ==
    /\ 0 < MinimumAmount /\ MinimumAmount <= MaximumAmountPerRequest
    /\ MaximumAmountPerRequest <= MaximumAmountPerWindow
    /\ 0 < Cooldown /\ Cooldown < AddressWindow

VARIABLES
    clock,
    fundings,       \* recipient -> limiter.records
    calls,          \* caller -> its request
    limiterHolder,  \* the caller that holds limiter.mu, or "nobody"
    asked,          \* number of requests
    checkedAt,      \* recipient -> latest arrival time that was checked
    confirmed       \* recipient -> transfers confirmed since the start

localFaucetVars == <<clock, fundings, calls, limiterHolder, asked, checkedAt, confirmed>>

Amounts == MinimumAmount..MaximumAmountPerRequest
NoCall == [at |-> "idle"]

LocalFaucetInit ==
    /\ clock = 0
    /\ fundings = [a \in Recipients |-> <<>>]
    /\ calls = [h \in Callers |-> NoCall]
    /\ limiterHolder = "nobody"
    /\ asked = 0
    /\ checkedAt = [a \in Recipients |-> 0]
    /\ confirmed = [a \in Recipients |-> <<>>]

\* --------------------------------------------------------------------- limiter ---

Kept(records, now) == SelectSeq(records, LAMBDA r : r.at > now - AddressWindow)
TotalOf(records) == FoldSeq(LAMBDA r, sum : r.amount + sum, 0, records)

\* checkLocked: how long to wait, or 0.  The first record is there when the window is
\* exceeded, since no request is above the maximum of the window.
RetryAfter(records, amount, now) ==
    LET kept == Kept(records, now) IN
    IF kept # <<>> /\ now < Last(kept).at + Cooldown THEN Last(kept).at + Cooldown - now
    ELSE IF TotalOf(kept) + amount > MaximumAmountPerWindow THEN kept[1].at + AddressWindow - now
    ELSE 0

\* -------------------------------------------------------------------- handlers ---

Arrive(h, recipient, amount) ==
    /\ calls[h] = NoCall
    /\ asked < MaxAsked
    /\ calls' = [calls EXCEPT ![h] = [at |-> "waiting", recipient |-> recipient, amount |-> amount,
                                      now |-> clock]]
    /\ asked' = asked + 1
    /\ UNCHANGED <<clock, fundings, limiterHolder, checkedAt, confirmed>>

Checked(h, holder) ==
    LET call == calls[h]
        free == RetryAfter(fundings[call.recipient], call.amount, call.now) = 0
    IN  /\ fundings' = [fundings EXCEPT ![call.recipient] = Kept(@, call.now)]
        /\ checkedAt' = [checkedAt EXCEPT ![call.recipient] = Max({@, call.now})]
        /\ limiterHolder' = IF free THEN holder ELSE "nobody"
        /\ calls' = [calls EXCEPT ![h] = IF free THEN [call EXCEPT !.at = "funding"] ELSE NoCall]
        /\ UNCHANGED <<clock, asked, confirmed>>

CheckUnlocked(h) ==
    /\ calls[h].at = "waiting"
    /\ Checked(h, "nobody")

CheckLocked(h) ==
    /\ calls[h].at = "waiting"
    /\ limiterHolder = "nobody"
    /\ Checked(h, h)

\* Fund returned the receipt: the transfer counts from when the request arrived.
RecordLocked(h) ==
    LET call == calls[h]
    IN  /\ call.at = "funding"
        /\ fundings' = [fundings EXCEPT ![call.recipient] =
               Append(@, [at |-> call.now, amount |-> call.amount])]
        /\ confirmed' = [confirmed EXCEPT ![call.recipient] =
               Append(@, [at |-> call.now, amount |-> call.amount, latest |-> checkedAt[call.recipient]])]
        /\ calls' = [calls EXCEPT ![h] = NoCall]
        /\ limiterHolder' = "nobody"
        /\ UNCHANGED <<clock, asked, checkedAt>>

\* Fund failed, was cancelled or ran out of time: nothing is recorded.
FundFails(h) ==
    /\ calls[h].at = "funding"
    /\ calls' = [calls EXCEPT ![h] = NoCall]
    /\ limiterHolder' = "nobody"
    /\ UNCHANGED <<clock, fundings, asked, checkedAt, confirmed>>

LocalTick ==
    /\ clock < MaxClock
    /\ clock' = clock + 1
    /\ UNCHANGED <<fundings, calls, limiterHolder, asked, checkedAt, confirmed>>

LocalFaucetRestart ==
    /\ fundings' = [a \in Recipients |-> <<>>]
    /\ calls' = [h \in Callers |-> NoCall]
    /\ limiterHolder' = "nobody"
    /\ checkedAt' = [a \in Recipients |-> 0]
    /\ confirmed' = [a \in Recipients |-> <<>>]
    /\ UNCHANGED <<clock, asked>>

LocalFaucetNext ==
    \/ \E h \in Callers : \/ \E a \in Recipients, n \in Amounts : Arrive(h, a, n)
                          \/ CheckLocked(h) \/ RecordLocked(h) \/ FundFails(h)
    \/ LocalTick
    \/ LocalFaucetRestart

LocalFaucetSpec == LocalFaucetInit /\ [][LocalFaucetNext]_localFaucetVars

\* ------------------------------------------------------------------ properties ---

\* The confirmed transfers that count against a window ending at a time.
Counting(a, now) == SelectSeq(confirmed[a], LAMBDA r : r.at > now - AddressWindow)

\* Trimming, failures and requests served out of order never make the limiter forget
\* a confirmed transfer that a request arriving from now on must be measured against,
\* nor remember one that was not confirmed.
LimiterRemembers ==
    \A a \in Recipients :
        LET times(s) == [i \in DOMAIN s |-> <<s[i].at, s[i].amount>>]
        IN  times(Counting(a, checkedAt[a])) = times(Kept(fundings[a], checkedAt[a]))

\* A transfer was only made when, with those that the window of the latest request
\* checked so far holds, it stays below the maximum of the window, and the cooldown
\* of the last of them was over when it was asked for.
PaidWithinLimits ==
    \A a \in Recipients : \A i \in DOMAIN confirmed[a] :
        LET paid == confirmed[a][i]
            before == SelectSeq(SubSeq(confirmed[a], 1, i - 1), LAMBDA r : r.at > paid.latest - AddressWindow)
        IN  /\ TotalOf(before) + paid.amount <= MaximumAmountPerWindow
            /\ before # <<>> => Last(before).at + Cooldown <= paid.at

\* A refused caller is not told to wait too long for nothing: whoever asks for as much
\* before the time given has passed is refused as well.
RetryAfterIsNeeded ==
    \A a \in Recipients, n \in Amounts : \A now \in checkedAt[a]..clock :
        \A early \in 0..RetryAfter(fundings[a], n, now) - 1 :
            RetryAfter(fundings[a], n, now + early) > 0

LocalLimitsHold == LimiterRemembers /\ PaidWithinLimits /\ RetryAfterIsNeeded
=============================================================================
