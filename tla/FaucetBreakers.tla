--------------------------- MODULE FaucetBreakers ---------------------------
(***************************************************************************)
(* The circuit breakers of the public faucet (publicfaucet/breakers.go)    *)
(* with the goroutines that feed and read them: the probe loop, the worker, *)
(* a fund handler, and the administrative calls that reset them.  Every    *)
(* breaker operation holds the breakers' lock; between two of them the     *)
(* others run.  Balances and the spent budget are counted in payments.     *)
(***************************************************************************)
EXTENDS Naturals, Sequences, FiniteSets

CONSTANTS
    Signers, FirstSigner,
    ErrorRateWindow, ErrorRateTripCount,    \* the profile's breakers
    RPCTripAfter,
    HaltBelow, Budget,
    HotBalance,         \* what every signer holds at first
    Refill,             \* what an operator's refill adds
    MaxHistory,         \* bound on outcomes and on probes that are remembered
    MaxRefills          \* bound on refills

\* What Profile.Validate demands of the breaker parameters; "none" stands for the
\* address no signer has.
ASSUME BreakerAssumption ==
    /\ FirstSigner \in Signers /\ "none" \notin Signers
    /\ ErrorRateWindow \in Nat \ {0} /\ RPCTripAfter \in Nat \ {0}
    /\ ErrorRateTripCount \in 1 .. ErrorRateWindow
    /\ HaltBelow \in Nat /\ Budget \in Nat \ {0}
    /\ HotBalance \in Nat /\ Refill \in Nat \ {0}
    /\ MaxHistory \in Nat /\ MaxRefills \in Nat

VARIABLES
    outcomes, rpcFailures, rpcDown,     \* Breakers
    balance,                            \* Breakers.balanceBaseUnits, <<>> is nil
    active, fenced,                     \* Signer.address, Store.fencedKeys
    probe,                              \* probeOnce: where it is, what it read
    baseline,                           \* lastProbedSigner and its balance
    worker, handler, rotation,          \* where each goroutine is
    spent, pending,                     \* the store: budget and work
    hot,                                \* the chain: balance of each signer
    sinceReset, probes,                 \* history: outcomes, probe results
    refills, observed                   \* history: refills made, journaled

breakerVars == <<outcomes, rpcFailures, rpcDown, balance, sinceReset, probes>>
probeVars == <<probe, baseline, observed>>
workVars == <<worker, handler, spent, pending>>
signerVars == <<active, fenced, rotation, hot, refills>>
breakersVars == <<breakerVars, probeVars, workVars, signerVars>>

NoRotation == [pc |-> "idle", old |-> FirstSigner]

NoBaseline == [signer |-> "none", balance |-> 0]

Balances == 0 .. HotBalance + Refill * MaxRefills

BreakersInit ==
    /\ outcomes = <<>> /\ rpcFailures = 0 /\ rpcDown = FALSE /\ balance = <<>>
    /\ active = FirstSigner /\ fenced = {}
    /\ probe = [pc |-> "idle", read |-> 0]
    /\ baseline = NoBaseline
    /\ worker = "idle" /\ handler = "idle" /\ rotation = NoRotation
    /\ spent = 0 /\ pending = 0
    /\ hot = [s \in Signers |-> HotBalance]
    /\ sinceReset = <<>> /\ probes = <<>>
    /\ refills = 0 /\ observed = 0

-----------------------------------------------------------------------------
\* Operations of Breakers.

\* The last n elements of a sequence, all of them when it is shorter.
LastOf(s, n) == IF Len(s) <= n THEN s ELSE SubSeq(s, Len(s) - n + 1, Len(s))

WindowAfter(success) == LastOf(Append(outcomes, success), ErrorRateWindow)

RecordOutcome(success) ==
    /\ Len(sinceReset) < MaxHistory
    /\ outcomes' = WindowAfter(success)
    /\ sinceReset' = Append(sinceReset, success)
    /\ UNCHANGED <<rpcFailures, rpcDown, balance, probes>>

RecordRPCProbe(healthy) ==
    /\ Len(probes) < MaxHistory
    /\ probes' = Append(probes, healthy)
    /\ rpcFailures' = IF healthy THEN 0 ELSE rpcFailures + 1
    /\ rpcDown' = (~healthy /\ (rpcDown \/ rpcFailures + 1 >= RPCTripAfter))
    /\ UNCHANGED <<outcomes, balance, sinceReset>>

ResetErrorWindow ==
    /\ outcomes' = <<>>
    /\ sinceReset' = <<>>
    /\ UNCHANGED <<rpcFailures, rpcDown, balance, probes>>

\* Evaluate.
Failures(window) == Cardinality({i \in DOMAIN window : ~window[i]})

ErrorRateTripped ==
    /\ Len(outcomes) = ErrorRateWindow
    /\ Failures(outcomes) >= ErrorRateTripCount

BalanceFloor == balance # <<>> /\ balance[1] < HaltBelow

BudgetSpent == spent + 1 > Budget

AnyOpen == ErrorRateTripped \/ rpcDown \/ BalanceFloor \/ BudgetSpent

-----------------------------------------------------------------------------
\* probeOnce.

\* ChainID or BalanceAt fails, or the chain is another one.
ProbeFails ==
    /\ probe.pc = "idle"
    /\ RecordRPCProbe(FALSE)
    /\ UNCHANGED <<probeVars, workVars, signerVars>>

\* BalanceAt answers for the signer that is active now.
ProbeRead ==
    /\ probe.pc = "idle"
    /\ probe' = [pc |-> "healthy", read |-> hot[active]]
    /\ UNCHANGED <<baseline, observed, breakerVars, workVars, signerVars>>

ProbeHealthy ==
    /\ probe.pc = "healthy"
    /\ RecordRPCProbe(TRUE)
    /\ probe' = [probe EXCEPT !.pc = "balance"]
    /\ UNCHANGED <<baseline, observed, workVars, signerVars>>

\* RecordBalance.
ProbeBalance ==
    /\ probe.pc = "balance"
    /\ balance' = <<probe.read>>
    /\ probe' = [probe EXCEPT !.pc = "refill"]
    /\ UNCHANGED <<outcomes, rpcFailures, rpcDown, sinceReset, probes>>
    /\ UNCHANGED <<baseline, observed, workVars, signerVars>>

\* Mutant: the baseline is only set for a new signer.
ProbeRefillKeepsBaseline ==
    /\ probe.pc = "refill"
    /\ probe' = [pc |-> "idle", read |-> 0]
    /\ baseline' = IF baseline.signer = active THEN baseline
                   ELSE [signer |-> active, balance |-> probe.read]
    /\ observed' = IF /\ baseline.signer = active
                      /\ probe.read >= baseline.balance + 1
                   THEN observed + 1 ELSE observed
    /\ UNCHANGED <<breakerVars, workVars, signerVars>>

\* observeRefill: with a new signer, or none before, only the baseline is set;
\* an increase of at least one payment is journaled.
ProbeRefill ==
    /\ probe.pc = "refill"
    /\ probe' = [pc |-> "idle", read |-> 0]
    /\ baseline' = [signer |-> active, balance |-> probe.read]
    /\ observed' = IF /\ baseline.signer = active
                      /\ probe.read >= baseline.balance + 1
                   THEN observed + 1 ELSE observed
    /\ UNCHANGED <<breakerVars, workVars, signerVars>>

-----------------------------------------------------------------------------
\* The readers.

\* handleFund evaluates the breakers, later Accept checks the budget again.
FundEvaluate ==
    /\ handler = "idle"
    /\ ~AnyOpen
    /\ handler' = "accept"
    /\ UNCHANGED <<worker, spent, pending, breakerVars, probeVars, signerVars>>

FundAccept ==
    /\ handler = "accept"
    /\ handler' = "idle"
    /\ IF BudgetSpent
       THEN UNCHANGED <<spent, pending>>
       ELSE spent' = spent + 1 /\ pending' = pending + 1
    /\ UNCHANGED <<worker, breakerVars, probeVars, signerVars>>

WorkerTake ==
    /\ worker = "idle"
    /\ pending > 0
    /\ worker' = "top"
    /\ UNCHANGED <<handler, spent, pending, breakerVars, probeVars, signerVars>>

\* The top of process: two of the breakers hold back the worker.
WorkerGate ==
    /\ worker = "top"
    /\ ~rpcDown /\ ~BalanceFloor
    /\ worker' = "signing"
    /\ UNCHANGED <<handler, spent, pending, breakerVars, probeVars, signerVars>>

\* The attempt ends: paid, terminally failed with its budget released, or
\* deferred to the next iteration.
WorkerPaid ==
    /\ worker = "signing"
    /\ \E s \in fenced \cup {active, rotation.old} :   \* the key that signed
        /\ hot[s] > 0
        /\ hot' = [hot EXCEPT ![s] = @ - 1]
    /\ RecordOutcome(TRUE)
    /\ worker' = "idle" /\ pending' = pending - 1
    /\ UNCHANGED <<handler, spent, active, fenced, rotation, refills, probeVars>>

WorkerFailed ==
    /\ worker = "signing"
    /\ RecordOutcome(FALSE)
    /\ worker' = "idle" /\ pending' = pending - 1 /\ spent' = spent - 1
    /\ UNCHANGED <<handler, probeVars, signerVars>>

WorkerDeferred ==
    /\ worker = "signing"
    /\ worker' = "top"
    /\ UNCHANGED <<handler, spent, pending, breakerVars, probeVars, signerVars>>

-----------------------------------------------------------------------------
\* Operators.

\* handleResume, whatever the pause state.
Resume ==
    /\ outcomes # <<>>
    /\ ResetErrorWindow
    /\ UNCHANGED <<probeVars, workVars, signerVars>>

\* handleRotate: the key is swapped for one that is not fenced, and with the
\* journal entry for the old one the window is reset.
RotateSwap ==
    /\ rotation.pc = "idle"
    /\ \E s \in Signers \ (fenced \cup {active}) : active' = s
    /\ rotation' = [pc |-> "record", old |-> active]
    /\ UNCHANGED <<fenced, hot, refills, breakerVars, probeVars, workVars>>

RotateRecord ==
    /\ rotation.pc = "record"
    /\ fenced' = fenced \cup {rotation.old}
    /\ rotation' = NoRotation
    /\ ResetErrorWindow
    /\ UNCHANGED <<active, hot, refills, probeVars, workVars>>

\* The operator sends funds to the signer.
RefillHot ==
    /\ refills < MaxRefills
    /\ refills' = refills + 1
    /\ hot' = [hot EXCEPT ![active] = @ + Refill]
    /\ UNCHANGED <<active, fenced, rotation, breakerVars, probeVars, workVars>>

Probe == ProbeFails \/ ProbeRead \/ ProbeHealthy \/ ProbeBalance \/ ProbeRefill

Reader ==
    \/ FundEvaluate \/ FundAccept
    \/ WorkerTake \/ WorkerGate \/ WorkerPaid \/ WorkerFailed \/ WorkerDeferred

Operator == Resume \/ RotateSwap \/ RotateRecord \/ RefillHot

BreakersNext == Probe \/ Reader \/ Operator

BreakersSpec == BreakersInit /\ [][BreakersNext]_breakersVars

-----------------------------------------------------------------------------
\* Properties.

\* The error-rate window holds exactly the latest outcomes since the operator
\* last intervened (RecordOutcome, ResetErrorWindow).
WindowIsRecent == outcomes = LastOf(sinceReset, ErrorRateWindow)

\* The RPC breaker is open exactly when the latest RPCTripAfter probes have all
\* failed (RecordRPCProbe, profile rpcTripAfter).
RPCBreakerExact ==
    rpcDown <=> /\ Len(probes) >= RPCTripAfter
                /\ \A i \in DOMAIN LastOf(probes, RPCTripAfter) :
                       ~LastOf(probes, RPCTripAfter)[i]

\* Until the first rotation, no more refills are journaled than were made,
\* whatever is paid out between two probes (observeRefill).  After a rotation
\* between BalanceAt and observeRefill this is not so.
RefillsAreReal == active = FirstSigner => observed <= refills

\* The breakers open and close on exactly what happened: the latest outcomes, the
\* latest probes and the refills that were made.
BreakersAreExact == WindowIsRecent /\ RPCBreakerExact /\ RefillsAreReal
=============================================================================
