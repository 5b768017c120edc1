----------------------------- MODULE SdkEndpoint -----------------------------
(* The network status of an endpoint (toriumPublicActions in clients.ts) and the
   endpoint validation it starts with (validateToriumEndpoint in chains.ts),
   under the retries of runToriumReadAction.

   Each answer is read at its own moment from whatever node the URL leads to.
   Between two answers the node produces blocks, starts or stops syncing, or is
   replaced by a node of another network or of a network started anew. *)
EXTENDS SdkErrors

CONSTANTS
    Networks,           \* networks an endpoint may belong to: chain, net, genesis
    Expected,           \* the network of the selected chain definition
    EndpointErrors,     \* raw errors a request may fail with
    UrlLists,           \* the lists of URLs a caller may give
    MaxHeight,          \* bound on the node's height
    MaxReplacements     \* bound on replacements of the node

VARIABLES
    node,           \* what the URL leads to: network, syncing, height
    options,        \* what the caller asked for
    step,           \* the request that is awaited, or "new", "idle", "backoff", "done"
    tries,          \* attempts started
    observed,       \* what this attempt read: syncing, blockNumber, fingerprint
    verdict,        \* the code the call ended with; "ok" when it returned
    verdicts,       \* codes of the attempts that failed
    replaced,       \* the node was replaced since this attempt started
    replacements

endpointVars == <<node, options, step, tries, observed, verdict,
                  verdicts, replaced, replacements>>

\* "status" is getToriumNetworkStatus, which validates without compatibility
\* checks and may retry; without it validateToriumEndpoint is called directly.
Options ==
    {o \in [status : BOOLEAN, local : BOOLEAN, ready : BOOLEAN, minimum : 0..1,
            fingerprint : BOOLEAN, checks : 0..1, requireChecks : BOOLEAN,
            attempts : 1..2] :
        IF o.status THEN o.checks = 0 /\ ~o.requireChecks ELSE o.attempts = 1}

NothingObserved == [syncing |-> FALSE, blockNumber |-> 0, fingerprint |-> "unread"]

RpcMethods ==
    {"eth_chainId", "net_version", "eth_syncing", "eth_blockNumber",
     "eth_getBlockByNumber", "check", "web3_clientVersion", "net_listening",
     "net_peerCount"}

EndpointInit ==
    /\ node \in [network : Networks, syncing : BOOLEAN, height : 0..1]
    /\ options \in Options
    /\ step = "new" /\ tries = 0
    /\ observed = NothingObserved
    /\ verdict = "none" /\ verdicts = {}
    /\ replaced = FALSE /\ replacements = 0

\* ------------------------------------------------------------- the call ---

MayTryAgain(error) == error.safeToRetry /\ tries < options.attempts

\* An attempt threw.  runAction starts another one when the error is safe to
\* retry, and the status action reports every cancellation as RPC_ABORTED.
Throw(code, error) ==
    /\ verdicts' = verdicts \cup {code}
    /\ IF MayTryAgain(error)
       THEN step' = "backoff" /\ UNCHANGED verdict
       ELSE step' = "done" /\ verdict' = code
    /\ UNCHANGED <<node, options, tries, observed, replaced, replacements>>

RefuseEndpoint(code) == Throw(code, EndpointError(code))

Await(request, seen) ==
    /\ step' = request
    /\ observed' = seen
    /\ UNCHANGED <<node, options, tries, verdict, verdicts,
                   replaced, replacements>>

\* validateUrls: the kinds of URL among the values that may not be used.
ValidUrls(kinds, protocols) == kinds # {} /\ kinds \subseteq protocols

\* withToriumRpcUrls: the caller's URLs replace those of the chain definition, or
\* none is used.  Without WebSocket URLs there are none to check.
WithToriumRpcUrls(http, webSocket) ==
    /\ step = "new"
    /\ IF ValidUrls(http, {"http:", "https:"})
             /\ (webSocket # {} => ValidUrls(webSocket, {"ws:", "wss:"}))
       THEN Await("idle", observed)
       ELSE RefuseEndpoint("CONFIG_INVALID")

\* The options that validateToriumEndpoint refuses before any request.
ConfigInvalid == options.requireChecks /\ options.checks = 0

StartAttempt ==
    /\ step \in {"idle", "backoff"}
    /\ tries' = tries + 1
    /\ observed' = NothingObserved
    /\ replaced' = FALSE
    /\ IF ConfigInvalid
       THEN /\ step' = "done"
            /\ verdict' = "CONFIG_INVALID"
            /\ verdicts' = verdicts \cup {"CONFIG_INVALID"}
       ELSE /\ step' = "eth_chainId"
            /\ UNCHANGED <<verdict, verdicts>>
    /\ UNCHANGED <<node, options, replacements>>

\* requestRpc and requestStatusRpc: the request fails, and the error takes its
\* category and its retryability from the cause.
RequestFails ==
    /\ step \in RpcMethods \ {"check"}
    /\ \E raw \in EndpointErrors : Throw("RPC_REQUEST_FAILED", RequestFailed(raw))

\* The answer has not the form that the parser of the method accepts: a hexadecimal
\* or a decimal number that is not too large, or a block with a hash.
ResponseInvalid ==
    /\ step \in RpcMethods \ {"check"}
    /\ RefuseEndpoint("RPC_RESPONSE_INVALID")

\* The caller aborts its signal while a request or a backoff is awaited.
AbortCall ==
    /\ step \in (RpcMethods \ {"check"}) \cup {"backoff"}
    /\ step' = "done"
    /\ verdict' = "RPC_ABORTED"
    /\ verdicts' = verdicts \cup {"RPC_ABORTED"}
    /\ UNCHANGED <<node, options, tries, observed, replaced, replacements>>

ReadChainId ==
    /\ step = "eth_chainId"
    /\ IF node.network.chain # Expected.chain
       THEN RefuseEndpoint("CHAIN_ID_MISMATCH")
       ELSE Await("net_version", observed)

ReadNetworkId ==
    /\ step = "net_version"
    /\ IF node.network.net # Expected.net
       THEN RefuseEndpoint("NETWORK_ID_MISMATCH")
       ELSE Await("eth_syncing", observed)

ReadSyncing ==
    /\ step = "eth_syncing"
    /\ Await("eth_blockNumber", [observed EXCEPT !.syncing = node.syncing])

Status(seen) ==
    IF seen.syncing THEN "syncing"
    ELSE IF seen.blockNumber = 0 THEN "booting" ELSE "ready"

Accept(seen) ==
    /\ step' = "done" /\ verdict' = "ok"
    /\ observed' = seen
    /\ UNCHANGED <<node, options, tries, verdicts, replaced,
                   replacements>>

\* What follows the fingerprint: the caller's checks, or the end of the
\* validation, or the three requests of the status action.
AfterFingerprint(seen) ==
    IF options.checks > 0 THEN Await("check", seen)
    ELSE IF options.status THEN Await("web3_clientVersion", seen)
    ELSE Accept(seen)

DefectTrustsTheChainId(seen) ==
    IF options.ready /\ Status(seen) = "syncing" THEN "RPC_SYNCING"
    ELSE IF options.ready /\ Status(seen) = "booting" THEN "RPC_NOT_READY"
    ELSE IF seen.blockNumber < options.minimum THEN "RPC_STALE" ELSE "none"

\* What is wrong with a node of this state, and with asking for no fingerprint.
Defect(seen) ==
    IF options.ready /\ Status(seen) = "syncing" THEN "RPC_SYNCING"
    ELSE IF options.ready /\ Status(seen) = "booting" THEN "RPC_NOT_READY"
    ELSE IF seen.blockNumber < options.minimum THEN "RPC_STALE"
    ELSE IF ~options.local /\ ~options.fingerprint
         THEN "NETWORK_FINGERPRINT_REQUIRED" ELSE "none"

ReadBlockNumber ==
    /\ step = "eth_blockNumber"
    /\ LET seen == [observed EXCEPT !.blockNumber = node.height]
       IN  IF Defect(seen) # "none"
           THEN RefuseEndpoint(Defect(seen))
           ELSE IF options.fingerprint
           THEN Await("eth_getBlockByNumber", seen)
           ELSE AfterFingerprint([seen EXCEPT !.fingerprint = "unavailable-local"])

ReadGenesis ==
    /\ step = "eth_getBlockByNumber"
    /\ IF node.network.genesis # Expected.genesis
       THEN RefuseEndpoint("NETWORK_FINGERPRINT_MISMATCH")
       ELSE AfterFingerprint([observed EXCEPT !.fingerprint = "verified"])

\* A compatibility check is the caller's: it answers, or fails, as it likes.
Check ==
    /\ step = "check"
    /\ \/ Accept(observed)
       \/ RefuseEndpoint("ENDPOINT_INCOMPATIBLE")

ReadStatus ==
    \/ step = "web3_clientVersion" /\ Await("net_listening", observed)
    \/ step = "net_listening" /\ Await("net_peerCount", observed)

ReadPeerCount ==
    /\ step = "net_peerCount"
    /\ Accept(observed)

\* ------------------------------------------------------------- the node ---

NodeUnchanged == UNCHANGED <<options, step, tries, observed, verdict, verdicts>>

NodeProgress ==
    /\ step \in RpcMethods \cup {"backoff"}
    /\ \/ node.height < MaxHeight /\ node' = [node EXCEPT !.height = @ + 1]
       \/ node' = [node EXCEPT !.syncing = ~@]
    /\ UNCHANGED <<replaced, replacements>>
    /\ NodeUnchanged

NodeReplaced ==
    /\ step \in RpcMethods \cup {"backoff"}
    /\ replacements < MaxReplacements
    /\ node' \in [network : Networks \ {node.network}, syncing : {node.syncing},
                  height : 0..1]
    /\ replaced' = TRUE
    /\ replacements' = replacements + 1
    /\ NodeUnchanged

EndpointNext ==
    \/ \E http, webSocket \in UrlLists : WithToriumRpcUrls(http, webSocket)
    \/ StartAttempt \/ RequestFails \/ ResponseInvalid \/ AbortCall
    \/ ReadChainId \/ ReadNetworkId \/ ReadSyncing \/ ReadBlockNumber
    \/ ReadGenesis \/ Check \/ ReadStatus \/ ReadPeerCount
    \/ NodeProgress \/ NodeReplaced

EndpointSpec == EndpointInit /\ [][EndpointNext]_endpointVars

\* ----------------------------------------------------------- properties ---

\* An endpoint that is accepted, and was not exchanged for another while its
\* answers came in, is the selected network: same chain, same network id and, but
\* on a localnet without a fingerprint, the same genesis.  A network that was
\* started anew with the same ids is not taken for the old one.
AcceptedIsTheNetwork ==
    verdict = "ok" /\ ~replaced =>
        /\ node.network.chain = Expected.chain
        /\ node.network.net = Expected.net
        /\ options.fingerprint \/ ~options.local =>
                node.network.genesis = Expected.genesis

\* Accepting with requireReady and a minimum means the node has that height now
\* too, although it was read several answers ago.
AcceptedIsCaughtUp ==
    verdict = "ok" /\ ~replaced =>
        /\ node.height >= options.minimum
        /\ options.ready => node.height > 0 /\ ~observed.syncing

\* Only a failed request is worth another attempt.  A verdict on what the
\* endpoint is, or that it is not ready, ends the call with that verdict: a retry
\* that happens to reach another node never replaces it.
VerdictsStand ==
    \A code \in verdicts \ {"RPC_REQUEST_FAILED"} : step = "done" /\ verdict = code

\* The verdict of validateToriumEndpoint is true of the endpoint that gave it, and
\* final.
VerdictIsTrue == AcceptedIsTheNetwork /\ AcceptedIsCaughtUp /\ VerdictsStand
=============================================================================
