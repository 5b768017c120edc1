------------------------------- MODULE MCSdk -------------------------------
(* The programs that ask a node: the parts of torium-sdk, the capacity baselines and
   the health monitor.  They share no state and are checked in one run: a behaviour
   chooses one part at the start and only that part steps. *)
EXTENDS SdkActions, SdkEndpoint, SdkUtils, SdkDiagnostics, BaselineRunner, HealthMonitor

CONSTANTS c1, a1, a2, o1, o2, o3, v1, v2

VARIABLE part

Raw(marks, codes, statuses, argument) ==
    [marks |-> marks, codes |-> codes, statuses |-> statuses, argument |-> argument]
MCRawErrors == {Raw({}, {}, {503}, FALSE), Raw({"revert"}, {}, {}, FALSE)}

Net(c, n, g) == [chain |-> c, net |-> n, genesis |-> g]
MCExpected == Net(1, 1, "g")
MCNetworks == {MCExpected, Net(1, 1, "restarted"), Net(1, 2, "g"), Net(2, 1, "g")}

\* A URL is its scheme, or "malformed" or "credentials" for one that is refused.
MCUrlLists == {{}, {"https:"}, {"http:", "credentials"}, {"malformed"}, {"wss:"}}

MCChains == [localnet |-> 1, devnet |-> 2, testnet |-> 4, mainnet |-> 8]

\* Objects of a caught error: plain ones with a name that is told or withheld, HTTP
\* failures, refusals of the user, and reverts with and without data.
Link(name, marks, codes, statuses) ==
    [name |-> name, marks |-> marks, codes |-> codes, statuses |-> statuses,
     afterMs |-> {}, afterSec |-> {}, data |-> "none"]
MCLinks ==
    {Link("TypeError", {}, {}, {}), Link("PrivateError", {}, {}, {}),
     Link("Error", {}, {UserRejected}, {}), Link("Error", {}, {InternalError}, {}),
     [Link("HttpRequestError", {"transport"}, {}, {503}) EXCEPT !.afterMs = {1500}],
     [Link("HttpRequestError", {"transport"}, {}, {400}) EXCEPT !.afterMs = {-1}, !.afterSec = {2}],
     [Link("Error", {"revert"}, {}, {}) EXCEPT !.data = "0x"],
     [Link("Error", {}, {}, {}) EXCEPT !.data = "EpochNotFound"]}

MCAddresses == {<<222, 173, 190, 239, 1>>, <<0, 0, 0, 0, 0>>}

\* The capacity workloads; the read mix twice, so that a second run finds the files
\* of the first.
MCProgrammes == {<<"transfer">>, <<"rpc", "rpc">>, <<"archive">>}

\* Two validators, one of which is a quorum: a wait for the other, a sample that
\* requires all, one without a client node, and the exporter with a right and with a
\* wrong total power.
MCLayout(total, client) ==
    [power |-> [v \in Members |-> IF v = v1 THEN 2 ELSE 1], total |-> total, quorum |-> 2, client |-> client]
MCPurpose(kind, requireAll, requireNode) ==
    [kind |-> kind, requireAll |-> requireAll, requireNode |-> requireNode]
MCSetups ==
    {[layout |-> MCLayout(3, v1), purpose |-> MCPurpose("wait", FALSE, v2)],
     [layout |-> MCLayout(3, v1), purpose |-> MCPurpose("once", TRUE, NoMember)],
     [layout |-> MCLayout(3, NoMember), purpose |-> MCPurpose("once", FALSE, NoMember)],
     [layout |-> MCLayout(3, v1), purpose |-> MCPurpose("metrics", FALSE, NoMember)],
     [layout |-> MCLayout(4, v1), purpose |-> MCPurpose("metrics", FALSE, NoMember)]}

\* A part that does not step starts from one state, whichever it is.
MCInit ==
    /\ part \in {"actions", "endpoint", "utils", "diagnostics", "baseline", "health"}
    /\ SdkInit
    /\ part # "actions" => request = [c \in Calls |-> CHOOSE r \in Requests : TRUE]
    /\ EndpointInit
    /\ part # "endpoint" =>
        /\ node = [network |-> Expected, syncing |-> FALSE, height |-> 0]
        /\ options = CHOOSE o \in Options : TRUE
    /\ UtilsInit /\ DiagnosticsInit
    /\ BaselineInit /\ (part # "baseline" => programme = <<"archive">>)
    /\ HealthInit /\ (part # "health" => purpose.kind = "once" /\ purpose.requireAll)

MCNext ==
    \/ /\ part = "actions" /\ SdkNext
       /\ UNCHANGED <<part, endpointVars, utilsVars, diagnosticVars, benchVars, healthVars>>
    \/ /\ part = "endpoint" /\ EndpointNext
       /\ UNCHANGED <<part, sdkVars, utilsVars, diagnosticVars, benchVars, healthVars>>
    \/ /\ part = "utils" /\ UtilsNext
       /\ UNCHANGED <<part, sdkVars, endpointVars, diagnosticVars, benchVars, healthVars>>
    \/ /\ part = "diagnostics" /\ DiagnosticsNext
       /\ UNCHANGED <<part, sdkVars, endpointVars, utilsVars, benchVars, healthVars>>
    \/ /\ part = "baseline" /\ BaselineNext
       /\ UNCHANGED <<part, sdkVars, endpointVars, utilsVars, diagnosticVars, healthVars>>
    \/ /\ part = "health" /\ HealthNext
       /\ UNCHANGED <<part, sdkVars, endpointVars, utilsVars, diagnosticVars, benchVars>>

MCVars == <<part, sdkVars, endpointVars, utilsVars, diagnosticVars, benchVars, healthVars>>

MCSpec == MCInit /\ [][MCNext]_MCVars /\ SdkFairness
=============================================================================
