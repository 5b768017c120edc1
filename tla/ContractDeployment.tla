-------------------------- MODULE ContractDeployment --------------------------
(* The deployment script (deploy-testnet.mjs), the CREATE2 factory it deploys and
   deploys through (ToriumCreate2Factory.sol), and the SDK's resolution and
   verification of what was deployed (contracts.ts).

   Runs of the script share one deployer key and may overlap; a run may end at
   any await, and anybody may call the factory.  The factory's address follows
   from deployer nonce 0, the address of each other contract from its init code. *)
EXTENDS Integers, Sequences, FiniteSets

CONSTANTS
    Runs,           \* runs of the script
    MaxNonceUsed    \* bound on the deployer's transactions

VARIABLES
    code,           \* runtime code by contract, at its predicted address
    strayFactories, \* factories at other addresses of the deployer
    deployerNonce,  \* transactions of the deployer in blocks
    mempool,        \* the deployer's pending transactions, in nonce order
    receipts,       \* by run: "none", "success at prediction", "success elsewhere"
    plan,           \* the configuration each run is given
    runAt,          \* what each run does next: contract and step
    sent,           \* contracts each run broadcast a transaction for
    recordOf,       \* the record a run wrote
    resolved,       \* a deployment the SDK resolved
    verifiedAs      \* what verifyToriumContractDeployment answered

scriptVars == <<code, strayFactories, deployerNonce, mempool, receipts, plan,
                runAt, sent, recordOf>>
deploymentVars == <<scriptVars, resolved, verifiedAs>>

Contracts == {"factory", "attestations", "rewards"}
After(c) == IF c = "factory" THEN "attestations" ELSE IF c = "attestations" THEN "rewards" ELSE "record"

\* What may be wrong with a configuration or with the files it is run against.
Plans == {"sound", "wrong-chain", "wrong-key", "artifact-differs", "no-reward-plan", "dry-run"}

NoRecordYet == [c \in Contracts |-> "none"]
At(c, step) == [contract |-> c, step |-> step]

\* An override of the registry's entry in the SDK.
Overrides == [version : {"registry", "another"}, hash : {"none", "pinned", "foreign"}]
NotResolved == [contract |-> "none", override |-> [version |-> "registry", hash |-> "none"]]

DeploymentInit ==
    /\ code = [c \in Contracts |-> "empty"]
    /\ strayFactories = 0 /\ deployerNonce = 0 /\ mempool = <<>>
    /\ receipts = [r \in Runs |-> "none"]
    /\ plan \in [Runs -> Plans]
    /\ runAt = [r \in Runs |-> At("factory", "start")]
    /\ sent = [r \in Runs |-> {}]
    /\ recordOf = [r \in Runs |-> NoRecordYet]
    /\ resolved = NotResolved
    /\ verifiedAs = "none"

Untouched == UNCHANGED <<code, strayFactories, deployerNonce, mempool, receipts, plan, sent>>
GoTo(r, c, step) == runAt' = [runAt EXCEPT ![r] = At(c, step)]
Fail(r) == GoTo(r, runAt[r].contract, "failed") /\ UNCHANGED recordOf
Finished(r, c, status) ==
    /\ recordOf' = [recordOf EXCEPT ![r][c] = status]
    /\ GoTo(r, After(c), IF c = "rewards" THEN "write" ELSE "plan")
Waits(r, step) == runAt[r].step = step /\ UNCHANGED <<resolved, verifiedAs>>

\* ----------------------------------------------------------- the script ---

\* The assertions before the first contract: artifacts against their pinned
\* hashes, the chain id, the signing key.
Start(r) ==
    /\ Waits(r, "start") /\ Untouched
    /\ IF plan[r] \in {"wrong-chain", "wrong-key", "artifact-differs"}
       THEN Fail(r)
       ELSE GoTo(r, "factory", "code") /\ UNCHANGED recordOf

\* deployViaFactory asserts that the configuration has a plan for the contract.
CheckPlan(r) ==
    /\ Waits(r, "plan") /\ Untouched
    /\ IF plan[r] = "no-reward-plan" /\ runAt[r].contract = "rewards"
       THEN Fail(r)
       ELSE GoTo(r, runAt[r].contract, "code") /\ UNCHANGED recordOf

\* getCode at the predicted address: reuse, refuse, plan, or go on to send.
ReadCode(r) ==
    /\ Waits(r, "code") /\ Untouched
    /\ LET c == runAt[r].contract IN
       CASE code[c] = "pinned" -> Finished(r, c, "reused")
         [] code[c] = "other" -> Fail(r)
         [] code[c] = "empty" /\ c = "factory" ->
                GoTo(r, c, "nonce") /\ UNCHANGED recordOf
         [] code[c] = "empty" /\ c # "factory" ->
                IF plan[r] = "dry-run" THEN Finished(r, c, "planned")
                ELSE GoTo(r, c, "simulate") /\ UNCHANGED recordOf

\* getTransactionCount counts what is in blocks; pending transactions are not.
ReadNonce(r) ==
    /\ Waits(r, "nonce") /\ Untouched
    /\ IF deployerNonce # 0 THEN Fail(r)
       ELSE IF plan[r] = "dry-run" THEN Finished(r, "factory", "planned")
       ELSE GoTo(r, "factory", "send") /\ UNCHANGED recordOf

\* simulateContract: the factory has no code unless it was deployed.
Simulate(r) ==
    /\ Waits(r, "simulate") /\ Untouched
    /\ IF code["factory"] = "pinned"
       THEN GoTo(r, runAt[r].contract, "send") /\ UNCHANGED recordOf
       ELSE Fail(r)

\* sendTransaction takes the nonce that follows the pending ones.
Send(r) ==
    /\ Waits(r, "send")
    /\ deployerNonce + Len(mempool) < MaxNonceUsed
    /\ LET c == runAt[r].contract IN
        /\ mempool' = Append(mempool, At(c, r))
        /\ sent' = [sent EXCEPT ![r] = @ \cup {c}]
        /\ GoTo(r, c, "wait")
    /\ receipts' = [receipts EXCEPT ![r] = "none"]
    /\ UNCHANGED <<code, strayFactories, deployerNonce, plan, recordOf>>

ReceiveAnyReceipt(r) ==
    /\ Waits(r, "wait") /\ receipts[r] # "none" /\ Untouched
    /\ Finished(r, runAt[r].contract, "deployed")

ReceiveReceipt(r) ==
    /\ Waits(r, "wait") /\ receipts[r] # "none" /\ Untouched
    /\ LET c == runAt[r].contract IN
        IF receipts[r] = "success elsewhere" THEN Fail(r)
        ELSE GoTo(r, c, "check") /\ UNCHANGED recordOf

AssertRuntimeCode(r) ==
    /\ Waits(r, "check") /\ Untouched
    /\ LET c == runAt[r].contract IN
        IF code[c] = "pinned" THEN Finished(r, c, "deployed") ELSE Fail(r)

WriteRecord(r) ==
    /\ Waits(r, "write") /\ Untouched
    /\ GoTo(r, "record", "done") /\ UNCHANGED recordOf

Working == {"start", "plan", "code", "nonce", "simulate", "send", "wait", "check", "write"}

\* An await throws, or the operator stops the run.
RunEnds(r) ==
    /\ runAt[r].step \in Working /\ UNCHANGED <<resolved, verifiedAs>> /\ Untouched
    /\ Fail(r)

\* ------------------------------------------------------------ the chain ---

\* ToriumCreate2Factory.deploy: existing code is checked and left, otherwise
\* created; the call fails unless the code is the expected one.
FactoryDeploy(c) == [code EXCEPT ![c] = IF @ = "empty" THEN "pinned" ELSE @]

Mine ==
    /\ mempool # <<>>
    /\ LET tx == Head(mempool) IN
        IF tx.contract = "factory"
        THEN IF deployerNonce = 0
             THEN /\ code' = [code EXCEPT !["factory"] = "pinned"]
                  /\ receipts' = [receipts EXCEPT ![tx.step] = "success at prediction"]
                  /\ UNCHANGED strayFactories
             ELSE /\ strayFactories' = strayFactories + 1
                  /\ receipts' = [receipts EXCEPT ![tx.step] = "success elsewhere"]
                  /\ UNCHANGED code
        ELSE /\ code' = FactoryDeploy(tx.contract)
             /\ receipts' = [receipts EXCEPT ![tx.step] = "success at prediction"]
             /\ UNCHANGED strayFactories
    /\ mempool' = Tail(mempool)
    /\ deployerNonce' = deployerNonce + 1
    /\ UNCHANGED <<plan, runAt, sent, recordOf, resolved, verifiedAs>>

\* Anybody calls the factory with the same salt and init code.
SomebodyDeploys ==
    /\ code["factory"] = "pinned"
    /\ \E c \in Contracts \ {"factory"} :
        code[c] = "empty" /\ code' = FactoryDeploy(c)
    /\ UNCHANGED <<strayFactories, deployerNonce, mempool, receipts, plan, runAt,
                   sent, recordOf, resolved, verifiedAs>>

\* The deployer key is used for something else first, or for a contract of its
\* own: nonce 0 is gone, or other code sits at the factory's address.
KeyUsedElsewhere ==
    /\ deployerNonce = 0 /\ mempool = <<>>
    /\ deployerNonce' = 1
    /\ \/ UNCHANGED code
       \/ code' = [code EXCEPT !["factory"] = "other"]
    /\ UNCHANGED <<strayFactories, mempool, receipts, plan, runAt, sent, recordOf,
                   resolved, verifiedAs>>

\* -------------------------------------------------------------- the SDK ---

\* resolveToriumContractDeployment: an override keeps the registry's pinned hash
\* only for the registry's own version, or brings a hash of its own.
PinnedHash(o) ==
    IF o.hash # "none" THEN o.hash
    ELSE IF o.version = "registry" THEN "pinned" ELSE "none"

\* Without an override the registry's entry is taken, which has its version and its
\* hash; for an entry without a broadcast address that throws.  The code is read
\* once and compared.
VerifyDeployment(c, o) ==
    /\ resolved' = [contract |-> c, override |-> o]
    /\ verifiedAs' = IF PinnedHash(o) = "none" THEN "CONFIG_INVALID"
                     ELSE IF code[c] = "empty" THEN "CODE_MISSING"
                     ELSE IF code[c] # PinnedHash(o) THEN "CODE_MISMATCH" ELSE "verified"
    /\ UNCHANGED scriptVars

\* A behaviour ends with the answer of the SDK, which nothing later changes.
DeploymentNext ==
    /\ verifiedAs = "none"
    /\ \/ \E r \in Runs :
            \/ Start(r) \/ CheckPlan(r) \/ ReadCode(r) \/ ReadNonce(r) \/ Simulate(r)
            \/ Send(r) \/ ReceiveReceipt(r) \/ AssertRuntimeCode(r) \/ WriteRecord(r)
            \/ RunEnds(r)
       \/ Mine \/ SomebodyDeploys \/ KeyUsedElsewhere
       \/ \E c \in Contracts, o \in Overrides : VerifyDeployment(c, o)

DeploymentSpec == DeploymentInit /\ [][DeploymentNext]_deploymentVars

\* ----------------------------------------------------------- properties ---

\* What a run writes down is true of the chain, through overlapping runs, runs
\* that ended between sending and the receipt, and deployments by others: each
\* contract it calls deployed or reused has the pinned code at the address.
RecordIsTrue ==
    \A r \in Runs, c \in Contracts :
        recordOf[r][c] \in {"deployed", "reused"} => code[c] = "pinned"

\* A run against the wrong chain, with the wrong key or with artifacts that differ
\* from the pinned ones broadcasts nothing, and neither does a dry run.
NothingSentUnchecked ==
    \A r \in Runs :
        plan[r] \in {"wrong-chain", "wrong-key", "artifact-differs", "dry-run"} => sent[r] = {}

\* A verified deployment has the generated contract's code, and a caller who names
\* another version than the registry's has given the hash that was compared.
VerifiedIsPinned ==
    verifiedAs = "verified" =>
        /\ code[resolved.contract] = "pinned"
        /\ resolved.override.version = "another" => resolved.override.hash # "none"

\* What the script records and the SDK verifies is what is deployed, and nothing is
\* sent before everything was checked.
DeploymentIsTrue == RecordIsTrue /\ NothingSentUnchecked /\ VerifiedIsPinned
=============================================================================
