---------------------------- MODULE HealthMonitor ----------------------------
(* The localnet health script (localnet/scripts/health.mjs) and the Prometheus
   exporter built on it (observability/health-exporter.mjs), against a network that
   goes on changing while it is sampled: the validators are asked side by side, then
   the EVM endpoint and then the REST endpoint of the client node, so that a report is
   no snapshot.  Names, URLs, versions, peer counts and the text of the metrics are
   left out. *)
EXTENDS Integers, FiniteSets, FiniteSetsExt, Functions

CONSTANTS
    Members,        \* the validators
    Setups,         \* what the process is run with: topology.json, and its options
    Openings,       \* the conditions the validators may be in at the start
    MaxTip,         \* bound on the height of the chain
    MaxChanges,     \* bound on the changes of condition
    MaxSamples      \* bound on the samples taken by --wait

VARIABLES
    layout,         \* [power, total, quorum, client]
    purpose,        \* [kind, requireAll, requireNode]
    members,        \* validator -> its condition and height
    tip,            \* the height of the chain
    changes,
    watch           \* the process: its samples and what it reported

healthVars == <<layout, purpose, members, tip, changes, watch>>

NoMember == "none"
Conditions == {"serving", "catching up", "down", "other node", "other network", "blank"}

\* ------------------------------------------------------------------ one answer ---

\* What /status says of a validator, for each way it may answer.
Unreachable ==
    [reachable |-> FALSE, ready |-> FALSE, height |-> 0, catchingUp |-> "null",
     identityMatches |-> "null", networkMatches |-> "null"]

\* A field that is missing counts against the node: no height, catching up, and
\* neither the identity nor the network expected.
StatusOf(v) ==
    LET condition == members[v].condition
        blank == condition = "blank"
        height == IF blank THEN 0 ELSE members[v].height
        catchingUp == condition \in {"catching up", "blank"}
        identity == condition \notin {"other node", "blank"}
        network == condition \notin {"other network", "blank"}
    IN  IF condition = "down" THEN Unreachable
        ELSE [reachable |-> TRUE,
              ready |-> height > 0 /\ ~catchingUp /\ identity /\ network,
              height |-> height,
              catchingUp |-> IF catchingUp THEN "true" ELSE "false",
              identityMatches |-> IF identity THEN "true" ELSE "false",
              networkMatches |-> IF network THEN "true" ELSE "false"]

NoEndpoint == [reachable |-> FALSE, ready |-> FALSE, height |-> 0, syncing |-> "null"]

\* The batch of five calls to the client node.
EvmOf(v) ==
    LET syncing == members[v].condition = "catching up"
    IN  IF members[v].condition = "down" THEN NoEndpoint
        ELSE [reachable |-> TRUE,
              ready |-> members[v].condition # "other network" /\ members[v].height > 0 /\ ~syncing,
              height |-> members[v].height, syncing |-> IF syncing THEN "true" ELSE "false"]

RestOf(v) ==
    IF members[v].condition = "down" THEN NoEndpoint
    ELSE [NoEndpoint EXCEPT !.reachable = TRUE, !.ready = members[v].condition # "other network"]

\* -------------------------------------------------------------------- a report ---

PowerOf(vs) == MapThenSumSet(LAMBDA v : layout.power[v], vs)

Report(validators, evm, rest) ==
    LET readyOnes == {v \in Members : validators[v].ready}
        available == PowerOf(readyOnes)
        consensusReady == available >= layout.quorum
        highest == Max({validators[v].height : v \in Members})
        mismatch == \E v \in Members : /\ validators[v].reachable
                                       /\ \/ validators[v].identityMatches = "false"
                                          \/ validators[v].networkMatches = "false"
        syncing == \/ \E v \in Members : validators[v].catchingUp = "true"
                   \/ evm.reachable /\ evm.syncing \notin {"false", "null"}
        fullyReady == consensusReady /\ evm.ready /\ rest.ready
        answered == evm.reachable \/ rest.reachable \/ \E v \in Members : validators[v].reachable
    IN  [state |-> CASE mismatch -> "unhealthy"
                     [] ~mismatch /\ syncing -> "syncing"
                     [] ~mismatch /\ ~syncing /\ fullyReady ->
                            IF readyOnes = Members THEN "ready" ELSE "degraded"
                     [] OTHER -> IF highest = 0 /\ answered THEN "booting" ELSE "unhealthy",
         ready |-> fullyReady,
         allValidatorsReady |-> readyOnes = Members,
         highestHeight |-> highest,
         consensusReady |-> consensusReady,
         available |-> available, total |-> layout.total, quorum |-> layout.quorum,
         evm |-> evm, rest |-> rest, validators |-> validators]

NoReportYet == [state |-> "none"]

RequirementsSatisfied(report) ==
    /\ report.ready
    /\ purpose.requireAll => report.allValidatorsReady
    /\ purpose.requireNode # NoMember => report.validators[purpose.requireNode].ready

\* -------------------------------------------------------------------- exporter ---

\* validateExporterInputs.
InputsAsGiven == TRUE

ExporterInputsValid ==
    /\ layout.quorum <= layout.total
    /\ PowerOf(Members) = layout.total
    /\ layout.client \in Members

\* validateReport: the numbers of a report must agree with each other.
ReportReconciles(report) ==
    LET readyPower == PowerOf({v \in Members : report.validators[v].ready})
    IN  /\ report.available <= report.total /\ report.quorum <= report.total
        /\ \A v \in Members : report.validators[v].ready => report.validators[v].reachable
        /\ PowerOf(Members) = report.total
        /\ readyPower = report.available
        /\ report.consensusReady = (report.available >= report.quorum)
        /\ report.ready = (report.consensusReady /\ report.evm.ready /\ report.rest.ready)

\* The gauges of formatPrometheus that alerts are written on.
FormatPrometheus(report) ==
    [ready |-> IF report.ready THEN 1 ELSE 0,
     state |-> [s \in {"booting", "syncing", "ready", "degraded", "unhealthy"} |->
                    IF s = report.state THEN 1 ELSE 0],
     consensusHeight |-> report.highestHeight,
     quorum |-> IF report.consensusReady THEN 1 ELSE 0,
     validatorReady |-> [v \in Members |-> IF report.validators[v].ready THEN 1 ELSE 0]]

\* ----------------------------------------------------------------- the process ---

NewWatch ==
    [at |-> "start", asked |-> {}, validators |-> [v \in Members |-> Unreachable],
     evm |-> NoEndpoint, taken |-> 0, first |-> [v \in Members |-> Unreachable],
     startTip |-> 0, report |-> NoReportYet, outcome |-> "none", gauges |-> "none"]

HealthInit ==
    /\ \E setup \in Setups : layout = setup.layout /\ purpose = setup.purpose
    /\ members \in [Members -> {[condition |-> c, height |-> h] : c \in Openings, h \in {1}}]
    /\ tip = 1
    /\ changes = 0
    /\ watch = NewWatch

WatchAt(place) == watch.at = place
NetworkIdle == UNCHANGED <<layout, purpose, members, tip, changes>>

\* The exporter reads its inputs once and refuses to start on bad ones; the health
\* script takes them as they are.
StartHealth ==
    /\ WatchAt("start")
    /\ watch' = IF purpose.kind = "metrics" /\ ~ExporterInputsValid
                THEN [watch EXCEPT !.at = "end", !.outcome = "refused"]
                ELSE [watch EXCEPT !.at = "validators", !.startTip = tip]
    /\ NetworkIdle

\* The validators answer in any order, each with what holds at that moment; a
\* request may also time out.
AskValidator(v) ==
    /\ WatchAt("validators")
    /\ v \notin watch.asked
    /\ \E answer \in {StatusOf(v), Unreachable} :
        watch' = [watch EXCEPT !.validators[v] = answer, !.asked = @ \cup {v}]
    /\ NetworkIdle

\* Without a node for clients the script fails once the validators have answered.
NoClientNode ==
    /\ WatchAt("validators") /\ watch.asked = Members
    /\ layout.client \notin Members
    /\ watch' = [watch EXCEPT !.at = "end", !.outcome = "refused"]
    /\ NetworkIdle

AskEvm ==
    /\ WatchAt("validators") /\ watch.asked = Members
    /\ layout.client \in Members
    /\ \E evm \in {EvmOf(layout.client), NoEndpoint} :
        watch' = [watch EXCEPT !.evm = evm, !.at = "rest"]
    /\ NetworkIdle

\* The REST answer completes the sample.
AskRest ==
    /\ WatchAt("rest")
    /\ \E rest \in {RestOf(layout.client), NoEndpoint} :
        watch' = [watch EXCEPT
            !.report = Report(watch.validators, watch.evm, rest),
            !.first = IF watch.taken = 0 THEN watch.validators ELSE @,
            !.taken = @ + 1, !.at = purpose.kind, !.asked = {}]
    /\ NetworkIdle

InitialHeight == Max({watch.first[v].height : v \in Members})

\* One sample without --wait.
ReportOnce ==
    /\ WatchAt("once")
    /\ watch' = [watch EXCEPT !.at = "end",
                              !.outcome = IF RequirementsSatisfied(watch.report) THEN "ready" ELSE "not ready"]
    /\ NetworkIdle

\* waitForReadiness: ready means that the height has also risen since the first
\* sample.  The deadline is looked at before each decision.
WaitSatisfied == RequirementsSatisfied(watch.report)
ProgressObserved == watch.report.highestHeight > InitialHeight

WaitEnds ==
    /\ WatchAt("wait")
    /\ WaitSatisfied /\ ProgressObserved
    /\ watch' = [watch EXCEPT !.at = "end", !.outcome = "ready"]
    /\ NetworkIdle

WaitAgain ==
    /\ WatchAt("wait")
    /\ ~(WaitSatisfied /\ ProgressObserved)
    /\ watch.taken < MaxSamples
    /\ watch' = [watch EXCEPT !.at = "validators"]
    /\ NetworkIdle

WaitTimesOut ==
    /\ WatchAt("wait")
    /\ watch' = [watch EXCEPT !.at = "end", !.outcome = "not ready"]
    /\ NetworkIdle

\* The handler of GET /metrics.
ServeMetrics ==
    /\ WatchAt("metrics")
    /\ watch' = IF ReportReconciles(watch.report)
                THEN [watch EXCEPT !.at = "end", !.outcome = "200",
                                   !.gauges = FormatPrometheus(watch.report)]
                ELSE [watch EXCEPT !.at = "end", !.outcome = "503"]
    /\ NetworkIdle

\* ----------------------------------------------------------------- the network ---

\* A quorum of validators at the tip commits a block.
CommitHeight ==
    LET voting == {v \in Members : members[v].condition = "serving" /\ members[v].height = tip}
    IN  /\ ~WatchAt("end")
        /\ tip < MaxTip
        /\ PowerOf(voting) >= layout.quorum
        /\ tip' = tip + 1
        /\ members' = [v \in Members |-> IF v \in voting THEN [members[v] EXCEPT !.height = tip + 1]
                                         ELSE members[v]]
        /\ UNCHANGED <<layout, purpose, changes, watch>>

FollowTip(v) ==
    /\ ~WatchAt("end")
    /\ members[v].condition \in {"serving", "catching up"} /\ members[v].height < tip
    /\ members' = [members EXCEPT ![v].height = @ + 1]
    /\ UNCHANGED <<layout, purpose, tip, changes, watch>>

ChangeCondition(v) ==
    /\ ~WatchAt("end")
    /\ changes < MaxChanges
    /\ \E c \in Conditions \ {members[v].condition} : members' = [members EXCEPT ![v].condition = c]
    /\ changes' = changes + 1
    /\ UNCHANGED <<layout, purpose, tip, watch>>

HealthNext ==
    \/ StartHealth \/ NoClientNode \/ AskEvm \/ AskRest
    \/ \E v \in Members : AskValidator(v) \/ FollowTip(v) \/ ChangeCondition(v)
    \/ ReportOnce \/ WaitEnds \/ WaitAgain \/ WaitTimesOut \/ ServeMetrics
    \/ CommitHeight

HealthSpec == HealthInit /\ [][HealthNext]_healthVars

\* ------------------------------------------------------------------ properties ---

\* --wait calls the network ready only after a block: the chain is higher than when
\* the wait began, unless the first sample missed the validators that were at the
\* tip.  (It is the sample that counts: a validator that answers only later brings a
\* height that looks like progress.)
ProgressIsReal ==
    watch.outcome = "ready" /\ purpose.kind = "wait" =>
        \/ tip > watch.startTip
        \/ \A v \in Members : watch.first[v].height < watch.startTip

\* A scrape of an exporter that started is always answered with metrics: whatever
\* the nodes did while they were sampled, the report agrees with itself.  Exactly one
\* state is set, and readiness is never exported without a quorum of the validators.
ScrapesAreAnswered ==
    /\ watch.outcome # "503"
    /\ watch.outcome = "200" =>
        /\ Cardinality({s \in DOMAIN watch.gauges.state : watch.gauges.state[s] = 1}) = 1
        /\ watch.gauges.ready = 1 =>
            /\ watch.gauges.quorum = 1
            /\ PowerOf({v \in Members : watch.gauges.validatorReady[v] = 1}) >= layout.quorum

\* State and readiness are computed apart from each other.  A network that is called
\* ready or degraded is ready; one that is ready and called something else has a
\* validator that is syncing or not the expected one; with --require-all nothing but
\* "ready" succeeds.
StateFitsReadiness ==
    LET report == watch.report IN
    report # NoReportYet =>
        /\ report.state \in {"ready", "degraded"} => report.ready
        /\ report.ready /\ report.state \notin {"ready", "degraded"} =>
            \E v \in Members : /\ report.validators[v].reachable
                               /\ ~report.validators[v].ready
        /\ watch.outcome = "ready" /\ purpose.requireAll => report.state = "ready"

\* The three together.
HealthIsTold ==
    ProgressIsReal /\ ScrapesAreAnswered /\ StateFitsReadiness
=============================================================================
