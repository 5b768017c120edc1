-------------------------- MODULE RewardDistributor --------------------------
(* ToriumRewardDistributor.sol and what the SDK reads from it (contracts.ts): the
   distributor's state, and the preflight of a claim.

   A transaction is one step; one that reverts changes nothing.  An SDK call
   awaits several reads at once, and each is answered at a moment of its own
   while transactions are mined and time passes; a behaviour makes one call. *)
EXTENDS RewardTree, Functions

CONSTANTS
    EpochClaims,        \* the claims of each epoch's fixture, by epoch id
    PublicationDelay,
    ClawbackDelay,
    Windows,            \* claim windows publishers ask for: start and end
    MaxTime,            \* bound on block timestamps
    MaxForced           \* bound on native coin pushed into the contract

ASSUME RewardDelays == PublicationDelay > 0 /\ ClawbackDelay > 0

VARIABLES
    now,                \* timestamp of the next block
    paused,
    epochs,             \* epochs[epochId]
    nextEpochId,
    usedRoots,          \* _usedRootHashes
    claimedBits,        \* pairs <<epochId, index>> of _claimedBitMaps
    totals,             \* totalFunded, totalClaimed, totalClawed
    balance,            \* native balance of the contract
    payments,           \* times each claim of each fixture was paid
    call                \* the SDK call under way or answered

chainVars == <<now, paused, epochs, nextEpochId, usedRoots, claimedBits,
               totals, balance, payments>>
rewardVars == <<chainVars, call>>

EpochIds == DOMAIN EpochClaims
RootOf == [e \in EpochIds |-> Tree(e, EpochClaims[e])[0]]
NoEpoch == [rootHash |-> ZeroHash, funded |-> 0, claimStart |-> 0, claimEnd |-> 0,
            claimed |-> 0, clawed |-> 0]

Remaining(epoch) == epoch.funded - epoch.claimed - epoch.clawed
Outstanding == totals.funded - totals.claimed - totals.clawed

\* A claim as a caller submits it.
Submission(e, claim, proof) == [epochId |-> e, claim |-> claim, proof |-> proof]
Committed == UNION {{Submission(e, c, ProofOf(e, EpochClaims[e], c)) :
                        c \in Range(EpochClaims[e])} : e \in EpochIds}

Some == CHOOSE s \in Committed : TRUE

\* What callers submit: what the fixtures say, and for one claim another amount,
\* another epoch or a damaged proof.
Submissions ==
    Committed \cup {[Some EXCEPT !.claim.amount = @ + 1],
                    [Some EXCEPT !.epochId = (@ % Len(EpochClaims)) + 1],
                    [Some EXCEPT !.proof = Append(@, NoRoot)]}

\* The root each submission leads to.
Computed == [s \in Submissions |-> ProcessProof(s.epochId, s.claim, s.proof)]

NothingRead == [epoch |-> NoEpoch, claimed |-> FALSE, paused |-> FALSE, time |-> 0,
                totals |-> [funded |-> 0, claimed |-> 0, clawed |-> 0]]
NoCall == [kind |-> "none", submission |-> Some,
           pending |-> {}, seen |-> NothingRead, answered |-> FALSE,
           blockers |-> {}, quiet |-> TRUE]

RewardInit ==
    /\ now = 0 /\ paused = FALSE
    /\ epochs = [e \in EpochIds |-> NoEpoch]
    /\ nextEpochId = 1 /\ usedRoots = {} /\ claimedBits = {}
    /\ totals = [funded |-> 0, claimed |-> 0, clawed |-> 0]
    /\ balance = 0
    /\ payments = [s \in Committed |-> 0]
    /\ call = NoCall

\* --------------------------------------------------------- the contract ---

\* The chain moved: what an SDK call has read may be out of date.
Moved == call' = [call EXCEPT !.quiet = call.kind = "none"]

\* forcedSurplus, which _emitAccounting calls, reverts an insolvent transaction.
AccountingHolds == balance' >= totals'.funded - totals'.claimed - totals'.clawed

PublishEpoch(e, root, sum, start, end) ==
    /\ ~paused
    /\ e = nextEpochId
    /\ root \notin usedRoots \cup {ZeroHash}
    /\ sum > 0
    /\ start >= now + PublicationDelay
    /\ end > start
    /\ epochs' = [epochs EXCEPT ![e] =
           [rootHash |-> root, funded |-> sum, claimStart |-> start,
            claimEnd |-> end, claimed |-> 0, clawed |-> 0]]
    /\ usedRoots' = usedRoots \cup {root}
    /\ nextEpochId' = e + 1
    /\ totals' = [totals EXCEPT !.funded = @ + sum]
    /\ balance' = balance + sum
    /\ AccountingHolds
    /\ Moved
    /\ UNCHANGED <<now, paused, claimedBits, payments>>

\* prepareToriumRewardEpochPublication: a root that is not zero, and exactly its sum
\* attached.
PrepareToriumRewardEpochPublication(e, root, sum, start, end) ==
    /\ root # ZeroHash
    /\ PublishEpoch(e, root, sum, start, end)

ClaimRevertNoBitmap(s) ==
    LET epoch == epochs[s.epochId]
    IN  CASE paused -> "EnforcedPause"
          [] epoch.rootHash = ZeroHash -> "EpochNotFound"
          [] now < epoch.claimStart -> "ClaimNotStarted"
          [] now >= epoch.claimEnd -> "ClaimWindowClosed"
          [] Computed[s] # Node(epoch.rootHash, epoch.funded)
                -> "InvalidProof"
          [] OTHER -> "none"

\* Why claim reverts in this state, in the order of its checks.
ClaimRevert(s) ==
    LET epoch == epochs[s.epochId]
    IN  CASE paused -> "EnforcedPause"
          [] epoch.rootHash = ZeroHash -> "EpochNotFound"
          [] s.claim.account = 0 -> "ZeroAddress"
          [] s.claim.amount = 0 -> "ZeroAmount"
          [] now < epoch.claimStart -> "ClaimNotStarted"
          [] now >= epoch.claimEnd -> "ClaimWindowClosed"
          [] <<s.epochId, s.claim.index>> \in claimedBits -> "ClaimAlreadyProcessed"
          [] Computed[s] # Node(epoch.rootHash, epoch.funded)
                -> "InvalidProof"
          [] balance < s.claim.amount -> "NativeTransferFailed"
          [] OTHER -> "none"

\* The recipient may also refuse the transfer; the transaction then reverts.
Claim(s) ==
    /\ ClaimRevert(s) = "none"
    /\ claimedBits' = claimedBits \cup {<<s.epochId, s.claim.index>>}
    /\ epochs' = [epochs EXCEPT ![s.epochId].claimed = @ + s.claim.amount]
    /\ totals' = [totals EXCEPT !.claimed = @ + s.claim.amount]
    /\ balance' = balance - s.claim.amount
    /\ payments' = [payments EXCEPT ![s] = @ + 1]
    /\ AccountingHolds
    /\ Moved
    /\ UNCHANGED <<now, paused, nextEpochId, usedRoots>>

ClawbackAtOnce(e) ==
    /\ ~paused
    /\ epochs[e].rootHash # ZeroHash
    /\ now >= epochs[e].claimStart
    /\ LET amount == Remaining(epochs[e]) IN
        /\ amount > 0
        /\ epochs' = [epochs EXCEPT ![e].clawed = @ + amount]
        /\ totals' = [totals EXCEPT !.clawed = @ + amount]
        /\ balance' = balance - amount
    /\ Moved
    /\ UNCHANGED <<now, paused, nextEpochId, usedRoots, claimedBits, payments>>

Clawback(e) ==
    /\ ~paused
    /\ epochs[e].rootHash # ZeroHash
    /\ now >= epochs[e].claimEnd + ClawbackDelay
    /\ LET amount == Remaining(epochs[e]) IN
        /\ amount > 0
        /\ balance >= amount
        /\ epochs' = [epochs EXCEPT ![e].clawed = @ + amount]
        /\ totals' = [totals EXCEPT !.clawed = @ + amount]
        /\ balance' = balance - amount
    /\ AccountingHolds
    /\ Moved
    /\ UNCHANGED <<now, paused, nextEpochId, usedRoots, claimedBits, payments>>

SetPaused ==
    /\ paused' = ~paused
    /\ Moved
    /\ UNCHANGED <<now, epochs, nextEpochId, usedRoots, claimedBits, totals,
                   balance, payments>>

\* Native coin arrives without a call (a block reward, a selfdestruct).
ForceNative ==
    /\ balance < Outstanding + MaxForced
    /\ balance' = balance + 1
    /\ Moved
    /\ UNCHANGED <<now, paused, epochs, nextEpochId, usedRoots, claimedBits,
                   totals, payments>>

NextBlock ==
    /\ now < MaxTime
    /\ now' = now + 1
    /\ Moved
    /\ UNCHANGED <<paused, epochs, nextEpochId, usedRoots, claimedBits, totals,
                   balance, payments>>

\* -------------------------------------------------------------- the SDK ---

ClaimReads == {"epochs", "isClaimed", "paused", "block"}
StateReads == {"totalFunded", "totalClaimed", "totalClawed"}

StartPreflight(s) ==
    /\ call.kind = "none"
    /\ call' = [NoCall EXCEPT !.kind = "claim", !.submission = s, !.pending = ClaimReads,
                              !.blockers = IF Computed[s] = NoRoot
                                           THEN {"malformed-proof"} ELSE {}]
    /\ UNCHANGED chainVars

StartStateRead ==
    /\ call.kind = "none"
    /\ call' = [NoCall EXCEPT !.kind = "state", !.pending = StateReads]
    /\ UNCHANGED chainVars

\* simulateToriumContractRequest of a prepared claim: one eth_call, whose revert is
\* decoded to the name of the contract's error.
SimulateClaim(s) ==
    /\ call.kind = "none"
    /\ call' = [NoCall EXCEPT !.kind = "claim", !.submission = s, !.answered = TRUE,
                              !.blockers = {ClaimRevert(s)} \ {"none"}]
    /\ UNCHANGED chainVars

\* An answer has not the form its parser accepts: the call throws.
InvalidRewardResponse ==
    /\ call.pending # {}
    /\ call' = [NoCall EXCEPT !.kind = "failed", !.quiet = FALSE]
    /\ UNCHANGED chainVars

\* readRewardFunction and getBlock: one eth_call is answered.
Answer(read) ==
    /\ read \in call.pending
    /\ LET seen == call.seen
           s == call.submission
       IN  call' = [call EXCEPT !.pending = @ \ {read}, !.seen =
               CASE read = "epochs" -> [seen EXCEPT !.epoch = epochs[s.epochId]]
                 [] read = "isClaimed" ->
                        [seen EXCEPT !.claimed = <<s.epochId, s.claim.index>> \in claimedBits]
                 [] read = "paused" -> [seen EXCEPT !.paused = paused]
                 [] read = "block" -> [seen EXCEPT !.time = now]
                 [] read = "totalFunded" -> [seen EXCEPT !.totals.funded = totals.funded]
                 [] read = "totalClaimed" -> [seen EXCEPT !.totals.claimed = totals.claimed]
                 [] read = "totalClawed" -> [seen EXCEPT !.totals.clawed = totals.clawed]]
    /\ UNCHANGED chainVars

\* The blockers that preflightToriumRewardClaim derives from its reads.
BlockersAt(seen, s, lastTime) ==
    (IF seen.paused THEN {"distributor-paused"} ELSE {})
      \cup (IF seen.claimed THEN {"already-claimed"} ELSE {})
      \cup IF seen.epoch.rootHash = ZeroHash THEN {"epoch-not-found"}
           ELSE (IF seen.time < seen.epoch.claimStart THEN {"claim-not-started"} ELSE {})
                  \cup (IF seen.time > lastTime THEN {"claim-window-closed"} ELSE {})
                  \cup (IF Computed[s] \notin {NoRoot, Node(seen.epoch.rootHash, seen.epoch.funded)}
                        THEN {"invalid-proof"} ELSE {})

BlockersLate(seen, s) == BlockersAt(seen, s, seen.epoch.claimEnd)
BlockersOf(seen, s) == BlockersAt(seen, s, seen.epoch.claimEnd - 1)

Answered ==
    /\ call.kind # "none" /\ call.pending = {} /\ ~call.answered
    /\ call' = [call EXCEPT !.answered = TRUE, !.blockers =
           IF call.kind = "claim" THEN @ \cup BlockersOf(call.seen, call.submission) ELSE @]
    /\ UNCHANGED chainVars

RewardNext ==
    \* a publisher may take the root or the sum of another epoch's fixture
    \/ \E e, f, g \in EpochIds, w \in Windows :
           PrepareToriumRewardEpochPublication(e, RootOf[f].hash, RootOf[g].sum, w[1], w[2])
    \/ \E s \in Submissions : Claim(s) \/ StartPreflight(s) \/ SimulateClaim(s)
    \/ \E e \in EpochIds : Clawback(e)
    \/ SetPaused \/ ForceNative \/ NextBlock
    \/ StartStateRead \/ Answered \/ InvalidRewardResponse
    \/ \E read \in ClaimReads \cup StateReads : Answer(read)

RewardSpec == RewardInit /\ [][RewardNext]_rewardVars

\* ----------------------------------------------------------- properties ---

SumOver(f) == FoldFunction(LAMBDA a, b : a + b, 0, f)

\* The three totals are those of the epochs, no epoch gives out more than it was
\* funded with, and the balance covers what is outstanding: forcedSurplus never
\* reverts AccountingInsolvent, whatever is claimed, clawed back or forced in.
Solvent ==
    /\ totals.funded = SumOver([e \in EpochIds |-> epochs[e].funded])
    /\ totals.claimed = SumOver([e \in EpochIds |-> epochs[e].claimed])
    /\ totals.clawed = SumOver([e \in EpochIds |-> epochs[e].clawed])
    /\ \A e \in EpochIds : Remaining(epochs[e]) >= 0
    /\ balance >= Outstanding

\* Only claims of the fixtures are paid, each at most once, and an epoch's claimed
\* sum is that of the claims it paid.
PaidAsCommitted ==
    /\ \A s \in Committed : payments[s] <= 1
    /\ \A e \in EpochIds : epochs[e].claimed =
        SumOver([s \in {t \in Committed : t.epochId = e} |-> payments[s] * s.claim.amount])

\* While the window of an epoch that was published with its fixture is open, no
\* order of other claims, clawbacks or forced coin makes an unpaid claim fail.
EveryClaimIsPayable ==
    \A s \in Committed : LET epoch == epochs[s.epochId] IN
        ( /\ Node(epoch.rootHash, epoch.funded) = RootOf[s.epochId]
          /\ now \in epoch.claimStart..(epoch.claimEnd - 1)
          /\ ~paused /\ payments[s] = 0 )
        => ClaimRevert(s) = "none"

\* A preflight answered while nothing was mined speaks for the contract: after
\* canClaim the claim does not revert.  The totals are the contract's likewise.
QuietCallsAgree ==
    call.answered /\ call.quiet =>
        IF call.kind = "claim"
        THEN call.blockers = {} => ClaimRevert(call.submission) = "none"
        ELSE call.seen.totals = totals

\* Reads answered at different moments never mix into a wrong yes: after canClaim
\* the contract can refuse only because of a pause, of the same claim having been
\* paid, or of the window having closed.
CanClaimStays ==
    call.answered /\ call.kind = "claim" /\ call.blockers = {} =>
        ClaimRevert(call.submission) \in
            {"none", "EnforcedPause", "ClaimAlreadyProcessed", "ClaimWindowClosed"}

\* The distributor's totals, its balance and the payments it made agree.
BooksBalance == PaidAsCommitted /\ Solvent

\* A claim preflight speaks for the contract it read, and is only ever overtaken.
PreflightHolds == QuietCallsAgree /\ CanClaimStays
=============================================================================
