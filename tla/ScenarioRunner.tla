--------------------------- MODULE ScenarioRunner ---------------------------
(* The resilience drills: run-scenario-v0.mjs, which injects a fault into the
   localnet, observes, recovers, audits every commit and writes a result, and
   validate-resilience-plan-v0.mjs, which accepts results and the plan.

   The runner awaits every command and every poll; the chain moves in between.
   Any command may fail, and may have done part of its work when it does.
   Heights count from the baseline of the scenario that runs. *)
EXTENDS Integers, Sequences, FiniteSets, FiniteSetsExt, SequencesExt

CONSTANTS
    Sessions,       \* sequences of scenario ids, run one after the other
    Recorded,       \* those of which the first scenario has a result already
    Advance,        \* heights that waitHeightAdvance asks for
    Margin,         \* heights that recovery adds to the highest one seen
    MaxHeights,     \* bound on the heights of each scenario after its baseline
    MaxForked       \* bound on the nodes that commit the other block of a fork

VARIABLES
    session,        \* the scenarios still to run; the first one is running
    drill,          \* where runScenario is and what it has seen
    scratch,        \* context.scratch
    nets,           \* the containers and what was done to them
    ledger,         \* the chain
    disk,           \* artifacts and result of the scenario that runs
    slipped         \* some command of bestEffortCleanup failed

drillVars == <<session, drill, scratch, nets, ledger, disk, slipped>>

Nodes == 0..3
Faucet == 4
Scenario == Head(session)
MaxHeight == MaxHeights[Scenario]

\* ------------------------------------------------- scenario fault modules ---

Do(op, on) == [op |-> op, on |-> on]

\* startValidatorClone: the node is stopped, copied and started again whatever
\* the copy does, and then the duplicate is run.
Clone(n) == <<Do("stop", {n}), Do("start", {n}), Do("clone", {n})>>

OneValidatorOffline ==
    [down |-> {1}, outside |-> FALSE,
     inject |-> <<Do("stop", {1})>>,
     observe |-> <<Do("advance", {0})>>,
     recover |-> <<Do("start", {1})>>]

TwoValidatorsOffline ==
    [down |-> {1, 2}, outside |-> FALSE,
     inject |-> <<Do("stop", {1, 2})>>,
     observe |-> <<Do("first", {0}), Do("last", {0}), Do("halted", {})>>,
     recover |-> <<Do("start", {1, 2})>>]

ThreeOnePartition ==
    [down |-> {}, outside |-> FALSE,
     inject |-> <<Do("disconnect", {3})>>,
     observe |-> <<Do("advance", {0}), Do("first", {3}), Do("last", {3}), Do("halted", {})>>,
     recover |-> <<Do("connect", {3})>>]

TwoTwoPartition ==
    [down |-> {}, outside |-> FALSE,
     inject |-> <<Do("disconnect", {2}), Do("disconnect", {3})>>,
     observe |-> <<Do("first", {0}), Do("last", {0}), Do("first", {2}), Do("last", {2}),
                   Do("halted", {})>>,
     recover |-> <<Do("connect", {2}), Do("connect", {3})>>]

AllValidatorRestart ==
    [down |-> Nodes, outside |-> FALSE,
     inject |-> <<Do("stop", Nodes)>>,
     observe |-> <<Do("silent", Nodes)>>,
     recover |-> <<Do("start", Nodes)>>]

SingleEquivocation ==
    [down |-> {}, outside |-> FALSE,
     inject |-> <<Do("traffic", {"load"}), Do("query", {})>> \o Clone(1) \o <<Do("keepClones", {1})>>,
     observe |-> <<Do("evidence", {0}), Do("query", {}), Do("convicted", {})>>,
     recover |-> <<Do("stopTraffic", {"load"}), Do("unclone", {1})>>]

UnsafeByzantineThreshold ==
    [down |-> {}, outside |-> TRUE,
     inject |-> <<Do("traffic", {"load"}), Do("query", {})>> \o Clone(2) \o Clone(3)
                  \o <<Do("keepClones", {2, 3})>>,
     observe |-> <<Do("evidence", {0}), Do("query", {})>>,
     recover |-> <<Do("stopTraffic", {"load"}), Do("unclone", {2}), Do("unclone", {3})>>]

ValidatorSetChange ==
    [down |-> {3}, outside |-> FALSE,
     inject |-> <<Do("keepBonded", {}), Do("stop", {3})>>,
     observe |-> <<Do("jailed", {}), Do("mark", {0}), Do("advance", {0}),
                   Do("mark", {0}), Do("advance", {0})>>,
     recover |-> <<Do("start", {3})>>]

DelayRemembersLate ==
    [down |-> {}, outside |-> FALSE,
     inject |-> <<Do("query", {}), Do("netem", {2}), Do("netem", {3}), Do("keepNetem", {2, 3})>>,
     observe |-> <<Do("mark", {0}), Do("glance", {0})>>,
     recover |-> <<Do("unnetem", {2}), Do("unnetem", {3})>>]

ClockAndNetworkDelay ==
    [down |-> {}, outside |-> FALSE,
     inject |-> <<Do("query", {}), Do("keepNetem", {2, 3}), Do("netem", {2}), Do("netem", {3})>>,
     observe |-> <<Do("mark", {0}), Do("glance", {0})>>,
     recover |-> <<Do("unnetem", {2}), Do("unnetem", {3})>>]

RpcExplorerOutage ==
    [down |-> {}, outside |-> FALSE,
     inject |-> <<Do("stop", {Faucet})>>,
     observe |-> <<Do("advance", {0})>>,
     recover |-> <<Do("start", {Faucet}), Do("query", {})>>]

ProposerCensorship ==
    [down |-> {}, outside |-> FALSE,
     inject |-> <<Do("query", {}), Do("keepCensor", {1}), Do("query", {}), Do("censor", {1}),
                  Do("query", {}), Do("await", {1})>>,
     observe |-> <<Do("mark", {0}), Do("query", {}), Do("censored", {1})>>,
     recover |-> <<Do("release", {1}), Do("await", {1}), Do("query", {})>>]

FaultOf(id) ==
    CASE id = "local-one-validator-offline" -> OneValidatorOffline
      [] id = "local-two-validators-offline" -> TwoValidatorsOffline
      [] id = "local-three-one-partition" -> ThreeOnePartition
      [] id = "local-two-two-partition" -> TwoTwoPartition
      [] id = "local-all-validator-restart" -> AllValidatorRestart
      [] id = "local-single-equivocation" -> SingleEquivocation
      [] id = "local-unsafe-byzantine-threshold" -> UnsafeByzantineThreshold
      [] id = "local-validator-set-change" -> ValidatorSetChange
      [] id = "local-clock-and-network-delay" -> ClockAndNetworkDelay
      [] id = "local-rpc-explorer-outage" -> RpcExplorerOutage
      [] id = "local-proposer-censorship" -> ProposerCensorship

Fault == FaultOf(Scenario)

\* ------------------------------------------------------------- the world ---

\* What a command does to the containers, their networks and their images.
CommandEffect(w, op, on) ==
    CASE op = "stop" -> [w EXCEPT !.up = @ \ on]
      [] op = "start" -> [w EXCEPT !.up = @ \cup on]
      [] op = "disconnect" -> [w EXCEPT !.linked = @ \ on]
      [] op = "connect" -> [w EXCEPT !.linked = @ \cup on]
      [] op = "netem" -> [w EXCEPT !.delayed = @ \cup on]
      [] op = "unnetem" -> [w EXCEPT !.delayed = @ \ on]
      [] op = "clone" -> [w EXCEPT !.cloned = @ \cup on]
      [] op = "unclone" -> [w EXCEPT !.cloned = @ \ on]
      [] op = "censor" -> [w EXCEPT !.censoring = @ \cup on]
      [] op = "release" -> [w EXCEPT !.censoring = @ \ on]
      [] op = "traffic" -> [w EXCEPT !.traffic = @ \cup on]
      [] op = "stopTraffic" -> [w EXCEPT !.traffic = @ \ on]
      [] OTHER -> w

CleanNets == [up |-> Nodes \cup {Faucet}, linked |-> Nodes, delayed |-> {}, cloned |-> {},
              censoring |-> {}, traffic |-> {}]
EmptyScratch == [traffic |-> {}, clones |-> {}, netem |-> {}, censor |-> {}, bonded |-> {}]
Remember(op, on) ==
    CASE op = "traffic" -> [scratch EXCEPT !.traffic = on]
      [] op = "keepClones" -> [scratch EXCEPT !.clones = on]
      [] op = "keepNetem" -> [scratch EXCEPT !.netem = on]
      [] op = "keepCensor" -> [scratch EXCEPT !.censor = on]
      [] op = "keepBonded" -> [scratch EXCEPT !.bonded = ledger.bonded]
      [] OTHER -> scratch

\* commitAt: the signatures of a commit in percent of its slots, rounded.
CommitVotingPower(signed, slots) == (200 * signed + slots) \div (2 * slots)

Voters == ledger.bonded \cap nets.up \cap nets.linked
HasQuorum == 3 * Cardinality(Voters) > 2 * Cardinality(ledger.bonded)
Byzantine == 3 * Cardinality(nets.cloned \cap ledger.bonded) >= Cardinality(ledger.bonded)
AtBaseline(bonded) ==
    [head |-> 0, at |-> [n \in Nodes |-> 0], bonded |-> bonded, evidence |-> {}, split |-> {},
     power |-> 100]

DrillRuns == drill.stage \in {"inject", "observe", "recover", "settle", "wait", "cleanup"}
ChainStep == DrillRuns /\ UNCHANGED <<session, drill, scratch, nets, disk, slipped>>
Extended(receivers, other) ==
    [ledger EXCEPT !.head = @ + 1,
                   !.at = [n \in Nodes |-> IF n \in receivers THEN ledger.head + 1 ELSE @[n]],
                   !.split = @ \cup {<<n, ledger.head + 1>> : n \in other},
                   !.power = Min({@, CommitVotingPower(Cardinality(Voters),
                                                       Cardinality(ledger.bonded))})]

\* A block, which delayed nodes may miss; with a third of the power on duplicate
\* keys, two at one height.
CommitBlock(slow, other) ==
    /\ ChainStep
    /\ ledger.head < MaxHeight /\ HasQuorum
    /\ LET receivers == (nets.up \cap nets.linked) \ slow IN
        /\ other \subseteq receivers /\ other # Nodes
        /\ other # {} => ledger.split = {} /\ Cardinality(other) <= MaxForked
        /\ ledger' = Extended(receivers, other)

\* The evidence against a duplicate signer is committed; the signer is tombstoned.
CommitEvidence(n) ==
    /\ ChainStep
    /\ ledger.head < MaxHeight /\ HasQuorum
    /\ n \in nets.cloned \cap ledger.bonded
    /\ ledger' = [Extended(nets.up \cap nets.linked, {}) EXCEPT
                       !.bonded = @ \ {n}, !.evidence = @ \cup {ledger.head + 1}]

\* A validator that does not sign is jailed for downtime.
JailValidator(n) ==
    /\ ChainStep
    /\ HasQuorum
    /\ n \in ledger.bonded \ Voters
    /\ ledger' = [ledger EXCEPT !.bonded = @ \ {n}]

NodeCatchesUp(n) ==
    /\ ChainStep
    /\ n \in nets.up \cap nets.linked /\ ledger.at[n] < ledger.head
    /\ ledger' = [ledger EXCEPT !.at[n] = ledger.head]

\* ----------------------------------------------------------- runScenario ---

Steps == Fault[drill.stage]
Step == Steps[drill.step]
Performs(ops) == drill.stage \in {"inject", "observe", "recover"} /\ Step.op \in ops
StageAfter == [inject |-> "observe", observe |-> "recover", recover |-> "settle"]

Onward(d) == IF d.step < Len(Fault[d.stage]) THEN [d EXCEPT !.step = @ + 1]
             ELSE [d EXCEPT !.stage = StageAfter[@], !.step = 1]

\* Only a failed injection or observation is cleaned up.
Thrown(d) == [d EXCEPT !.stage = IF @ \in {"inject", "observe"} THEN "cleanup" ELSE "threw",
                       !.step = 1]

NewDrill == [stage |-> "begin", step |-> 1, from |-> 0, seen |-> 0, target |-> 0,
             scanned |-> 0, found |-> {}, samples |-> <<>>]
NoHeight == -1

\* latestHeight: a stopped node never answers, and any other one may fail to.
Answers(n) == {ledger.at[n] : m \in nets.up \cap {n}}
OrElse(n, fallback) == Answers(n) \cup {fallback}

BeginScenario ==
    /\ drill.stage = "begin"
    /\ \/ Nodes \subseteq nets.up /\ drill' = [drill EXCEPT !.stage = "inject"]
       \/ drill' = Thrown(drill)
    /\ ledger' = AtBaseline(ledger.bonded)
    /\ UNCHANGED <<session, scratch, nets, disk, slipped>>

InMemory == {"keepClones", "keepNetem", "keepCensor"}
CommandOps == {"stop", "start", "disconnect", "connect", "netem", "unnetem", "clone", "unclone",
               "censor", "release", "traffic", "stopTraffic", "query", "keepBonded"} \cup InMemory

RunCommand ==
    /\ Performs(CommandOps)
    /\ nets' = CommandEffect(nets, Step.op, Step.on)
    /\ scratch' = Remember(Step.op, Step.on)
    /\ drill' = Onward(drill)
    /\ UNCHANGED <<session, ledger, disk, slipped>>

\* What a rejected command had done.  A duplicate that docker run did not report
\* is not running, and traffic starts after everything that can fail.
PartOf(step) == IF step.op \in {"clone", "traffic"} THEN {{}} ELSE SUBSET step.on

CommandFails ==
    /\ Performs(CommandOps \ (InMemory \cup {"stopTraffic"}))
    /\ \E done \in PartOf(Step) : nets' = CommandEffect(nets, Step.op, done)
    /\ drill' = Thrown(drill)
    /\ UNCHANGED <<session, scratch, ledger, disk, slipped>>

\* stopValidatorClone drops the error of docker rm.
CloneOutlives ==
    /\ Performs({"unclone"})
    /\ drill' = Onward(drill)
    /\ slipped' = TRUE
    /\ UNCHANGED <<session, scratch, nets, ledger, disk>>

Watches == UNCHANGED <<session, scratch, nets, ledger, disk, slipped>>
Target == CHOOSE n \in Step.on : TRUE

\* waitHeightAdvance, from the baseline or from the height marked last.
HeightAdvances ==
    /\ Performs({"advance"})
    /\ \E h \in Answers(Target) :
        /\ h >= drill.from + Advance
        /\ drill' = Onward([drill EXCEPT !.seen = h])
    /\ Watches

MarkHeight ==
    /\ Performs({"mark"})
    /\ \E h \in Answers(Target) : drill' = Onward([drill EXCEPT !.from = h])
    /\ Watches

\* waitNodeReachable and waitHeightAdvance of a recreated node.
NodeRejoins ==
    /\ Performs({"await"})
    /\ Target \in nets.up /\ ledger.at[Target] = ledger.head
    /\ drill' = Onward(drill)
    /\ Watches

\* observeHalt: two samples; a node that does not answer counts as halted.
SampleFirst ==
    /\ Performs({"first"})
    /\ \E h \in OrElse(Target, NoHeight) :
        drill' = Onward([drill EXCEPT !.samples = Append(@, [first |-> h, last |-> h])])
    /\ Watches

SampleLast ==
    /\ Performs({"last"})
    /\ \E h \in OrElse(Target, Last(drill.samples).first) :
        drill' = Onward([drill EXCEPT !.samples[Len(drill.samples)].last = h])
    /\ Watches

Halted(sample) == sample.first = NoHeight \/ sample.last - sample.first <= 1

\* A halt reports the first node's last height, or the baseline's without one;
\* a height reported before it (the majority's) stands.
CheckHalted ==
    /\ Performs({"halted"})
    /\ drill' =
        IF \A i \in DOMAIN drill.samples : Halted(drill.samples[i])
        THEN Onward([drill EXCEPT !.samples = <<>>, !.seen =
                        IF @ > 0 \/ drill.samples[1].first = NoHeight THEN @
                        ELSE drill.samples[1].last])
        ELSE Thrown([drill EXCEPT !.samples = <<>>])
    /\ Watches

CheckSilent ==
    /\ Performs({"silent"})
    /\ \E answering \in SUBSET (Step.on \cap nets.up) :
        drill' = IF answering = {} THEN Onward(drill) ELSE Thrown(drill)
    /\ Watches

\* One turn of waitForEquivocationEvidence.  Without an answer the head is taken
\* to be the next height to scan, and a block that cannot be read is passed over.
PollEvidence ==
    /\ Performs({"evidence"})
    /\ \E head \in OrElse(0, drill.scanned) :
        /\ head <= MaxHeight
        /\ \E read \in SUBSET (ledger.evidence \cap drill.scanned..head) :
            LET d == [drill EXCEPT !.found = @ \cup read, !.scanned = Max({@, head + 1}),
                                   !.seen = head]
            IN  \/ d.found # {} /\ drill' = Onward(d)
                \/ d.found = {} /\ drill' \in {d, Onward(d)}
    /\ Watches

CheckConvicted ==
    /\ Performs({"convicted"})
    /\ drill' = IF drill.found # {} THEN Onward(drill) ELSE Thrown(drill)
    /\ Watches

AwaitJailed ==
    /\ Performs({"jailed"})
    /\ Cardinality(ledger.bonded) < Cardinality(scratch.bonded)
    /\ drill' = Onward(drill)
    /\ Watches

GlanceHeight ==
    /\ Performs({"glance"})
    /\ \E h \in OrElse(Target, drill.from) : drill' = Onward([drill EXCEPT !.seen = h])
    /\ Watches

\* The marked transactions were dropped by the fixture and included by others.
ConfirmCensored ==
    /\ Performs({"censored"})
    /\ Target \in nets.censoring \cap nets.up
    /\ \E h \in Answers(0) : h > drill.from /\ drill' = Onward([drill EXCEPT !.seen = h])
    /\ Watches

\* A deadline passes or a read that is not caught fails.
ObservationFails ==
    /\ Performs({"advance", "mark", "await", "jailed", "censored"})
    /\ drill' = Thrown(drill)
    /\ Watches

\* ------------------------------------------------------ bestEffortCleanup ---

CleanupSteps ==
    <<Do("start", Fault.down), Do("stopTraffic", scratch.traffic),
      Do("unclone", scratch.clones), Do("unnetem", scratch.netem),
      Do("release", scratch.censor)>>

BestEffortCleanup ==
    /\ drill.stage = "cleanup"
    /\ LET step == CleanupSteps[drill.step] IN
        \E done \in IF step.op = "stopTraffic" THEN {step.on} ELSE SUBSET step.on :
            /\ nets' = CommandEffect(nets, step.op, done)
            /\ slipped' = (slipped \/ done # step.on)
    /\ drill' = IF drill.step < Len(CleanupSteps) THEN [drill EXCEPT !.step = @ + 1]
                ELSE [drill EXCEPT !.stage = "cleaned", !.step = 1]
    /\ UNCHANGED <<session, scratch, ledger, disk>>

\* ------------------------------------------------- recovery and the audit ---

\* The height recovery waits for: above every height a node answered with (0
\* when it did not answer) and above the height observed under the fault.
TargetHeight(live) == Max({live, drill.seen}) + Margin

ChooseTarget ==
    /\ drill.stage = "settle"
    /\ \E live \in {0} \cup UNION {Answers(n) : n \in Nodes} :
        drill' = [drill EXCEPT !.stage = "wait", !.target = TargetHeight(live)]
    /\ Watches

AllRecovered ==
    /\ drill.stage = "wait"
    /\ \A n \in Nodes : n \in nets.up /\ ledger.at[n] >= drill.target
    /\ drill' = [drill EXCEPT !.stage = "artifacts"]
    /\ Watches

\* A node does not get there in time, or a commit cannot be read.
RecoveryFails ==
    /\ drill.stage \in {"settle", "wait"}
    /\ drill' = Thrown(drill)
    /\ Watches

BlockAt(n, h) == IF <<n, h>> \in ledger.split THEN "other" ELSE "block"
CommittedStates == {[node |-> n, height |-> h, block |-> BlockAt(n, h)] :
                        n \in Nodes, h \in 0..drill.target}
Contradictory(commits) ==
    {h \in {c.height : c \in commits} :
        Cardinality({c.block : c \in {d \in commits : d.height = h}}) > 1}

RequiredEvents == <<"baseline", "change-applied", "expected-behavior-observed",
                    "recovery-started", "recovery-complete">>
Timeline ==
    LET observed == Max({0, drill.seen})
    IN  [i \in 1..5 |-> [kind |-> RequiredEvents[i],
                         height |-> <<0, 0, observed, observed, drill.target>>[i]]]

RequiredKinds == <<"timeline", "node-observations", "commit-audit", "operator-decisions">>
ArtifactKinds ==
    RequiredKinds \o
        (CASE Scenario = "local-single-equivocation" -> <<"equivocation-evidence">>
           [] Scenario = "local-unsafe-byzantine-threshold" -> <<"assumption-violation-evidence">>
           [] Scenario = "local-proposer-censorship" -> <<"proposer-censorship-evidence">>
           [] Scenario = "local-validator-set-change" -> <<"validator-set-change">>
           [] OTHER -> <<>>)
AllKinds == Range(RequiredKinds) \cup
    {"equivocation-evidence", "assumption-violation-evidence", "proposer-censorship-evidence",
     "validator-set-change", "worktree-patch"}

ResultStatusByAgreement(contradictory, allPassed) ==
    IF contradictory # {} THEN "unsafe" ELSE IF allPassed THEN "pass" ELSE "fail"
ResultStatus(contradictory, allPassed) ==
    IF Fault.outside \/ contradictory # {} THEN "unsafe"
    ELSE IF allPassed THEN "pass" ELSE "fail"

\* The result: liveness and recovery were observed, or the module had thrown.
ResultOf(dirty) ==
    LET commits == CommittedStates
        contradictory == Contradictory(commits)
        agreed == Fault.outside \/ contradictory = {}
        nodes == [n \in Nodes |-> BlockAt(n, drill.target)]
        assertions == [liveness |-> TRUE, safety |-> agreed, finality |-> agreed,
                       recovery |-> \A n \in Nodes : nodes[n] = nodes[0]]
        status == ResultStatus(contradictory, \A a \in DOMAIN assertions : assertions[a])
    IN  [run |-> "new", status |-> status, blocked |-> Fault.outside \/ status # "pass",
         startHeight |-> 0, endHeight |-> drill.target, canonicalHeight |-> drill.target,
         timeline |-> Timeline, nodes |-> nodes, commits |-> commits, power |-> ledger.power,
         contradictory |-> contradictory, assertions |-> assertions, dirty |-> dirty,
         artifacts |-> Range(ArtifactKinds) \cup (IF dirty THEN {"worktree-patch"} ELSE {})]

NoReport == [run |-> "none"]
TornReport == [run |-> "torn"]
Written(kind, content) == disk' = [disk EXCEPT !.files[kind] = content]
Records == UNCHANGED <<session, scratch, nets, ledger, slipped>>

WriteArtifact ==
    /\ drill.stage = "artifacts"
    /\ Written(ArtifactKinds[drill.step], "new")
    /\ drill' = IF drill.step < Len(ArtifactKinds) THEN [drill EXCEPT !.step = @ + 1]
                ELSE [drill EXCEPT !.stage = "provenance", !.step = 1]
    /\ Records

\* collectProvenance; a dirty worktree adds its patch.
CollectProvenance(dirty) ==
    /\ drill.stage = "provenance"
    /\ IF dirty THEN Written("worktree-patch", "new") ELSE UNCHANGED disk
    /\ drill' = [drill EXCEPT !.stage = IF dirty THEN "dirty result" ELSE "result"]
    /\ Records

WriteResult ==
    /\ drill.stage \in {"result", "dirty result"}
    /\ disk' = [disk EXCEPT !.report = ResultOf(drill.stage = "dirty result")]
    /\ drill' = [drill EXCEPT !.stage = "done"]
    /\ Records

\* The process stops or a write fails: the file it was writing may be cut short.
WritingStops ==
    /\ drill.stage \in {"artifacts", "provenance", "result", "dirty result"}
    /\ \/ UNCHANGED disk
       \/ drill.stage = "artifacts" /\ Written(ArtifactKinds[drill.step], "torn")
       \/ drill.stage = "provenance" /\ Written("worktree-patch", "torn")
       \/ /\ drill.stage \in {"result", "dirty result"}
          /\ disk' = [disk EXCEPT !.report = TornReport]
    /\ drill' = [drill EXCEPT !.stage = "threw"]
    /\ Records

\* --------------------------------------------- validate-resilience-plan ---

\* Required events in order, each at a height of the run.
TimelineHolds(r) ==
    /\ [i \in DOMAIN r.timeline |-> r.timeline[i].kind] = RequiredEvents
    /\ \A i \in DOMAIN r.timeline : r.timeline[i].height \in r.startHeight..r.endHeight

CommitAuditHolds(r) ==
    /\ {<<c.node, c.height>> : c \in r.commits} = Nodes \X (r.startHeight..r.endHeight)
    /\ Cardinality(r.commits) = Cardinality(Nodes) * (r.endHeight - r.startHeight + 1)
    /\ r.power > 66
    /\ r.contradictory = Contradictory(r.commits)

PassHolds(r) ==
    /\ \A a \in DOMAIN r.assertions : r.assertions[a]
    /\ r.contradictory = {} /\ ~r.blocked
    /\ \A n \in Nodes :
        /\ r.nodes[n] = r.nodes[0]
        /\ [node |-> n, height |-> r.canonicalHeight, block |-> r.nodes[n]] \in r.commits

AssertResultSemantics(r) ==
    /\ TimelineHolds(r)
    /\ CommitAuditHolds(r)
    /\ Range(RequiredKinds) \subseteq r.artifacts
    /\ r.dirty => "worktree-patch" \in r.artifacts
    /\ r.canonicalHeight \in r.startHeight..r.endHeight
    /\ r.contradictory # {} => r.status = "unsafe" /\ r.blocked
    /\ Scenario = "local-unsafe-byzantine-threshold" => r.blocked /\ r.status # "pass"
    /\ r.status = "fail" => \E a \in DOMAIN r.assertions : ~r.assertions[a]
    /\ IF r.status = "pass" THEN PassHolds(r) ELSE r.blocked

\* The hash of an artifact tells what another run wrote, or half wrote, apart.
ArtifactsPresent(d) == \A kind \in d.report.artifacts : d.files[kind] \in {"old", "new"}
ArtifactsMatch(d) == \A kind \in d.report.artifacts : d.files[kind] = d.report.run

ValidateExternalResult(d) ==
    /\ d.report \notin {NoReport, TornReport}
    /\ AssertResultSemantics(d.report)
    /\ ArtifactsMatch(d)

\* byzantinePower of the plan, and Math.floor(100 / 3).
ByzantinePower(id) ==
    CASE id \in {"local-single-equivocation", "local-proposer-censorship"} -> 25
      [] id = "local-unsafe-byzantine-threshold" -> 50
      [] OTHER -> 0
OutsideEnvelope(id) == ByzantinePower(id) > 100 \div 3

\* The readiness a plan must state when the eleven canonical scenarios are
\* executed, the report of this one being r and those of the others resolved.
Unresolved(id, r) == r.status = "unsafe" /\ ~(OutsideEnvelope(id) /\ r.blocked)
PlanStatus(id, r) ==
    IF Unresolved(id, r) THEN "HOLD-unresolved-unsafe" ELSE "HOLD-extension"

\* ------------------------------------------------------------- behaviour ---

EmptyDisk == [files |-> [k \in AllKinds |-> "none"], report |-> NoReport]

\* An earlier run of the scenario was recorded.
EarlierReport ==
    [run |-> "old", status |-> "pass", blocked |-> FALSE, startHeight |-> 0, endHeight |-> 0,
     canonicalHeight |-> 0, timeline |-> [i \in 1..5 |-> [kind |-> RequiredEvents[i], height |-> 0]],
     nodes |-> [n \in Nodes |-> "block"],
     commits |-> {[node |-> n, height |-> 0, block |-> "block"] : n \in Nodes}, power |-> 100,
     contradictory |-> {}, dirty |-> FALSE, artifacts |-> Range(RequiredKinds),
     assertions |-> [liveness |-> TRUE, safety |-> TRUE, finality |-> TRUE, recovery |-> TRUE]]
EarlierDisk ==
    [files |-> [k \in AllKinds |-> IF k \in Range(RequiredKinds) THEN "old" ELSE "none"],
     report |-> EarlierReport]

DrillInit ==
    /\ session \in Sessions
    /\ drill = NewDrill /\ scratch = EmptyScratch /\ nets = CleanNets
    /\ ledger = AtBaseline(Nodes)
    /\ disk = IF session \in Recorded THEN EarlierDisk ELSE EmptyDisk
    /\ slipped = FALSE

NextScenario ==
    /\ drill.stage = "done" /\ Len(session) > 1
    /\ session' = Tail(session)
    /\ drill' = NewDrill /\ scratch' = EmptyScratch /\ disk' = EmptyDisk
    /\ UNCHANGED <<nets, ledger, slipped>>

RunnerStep ==
    \/ BeginScenario \/ RunCommand \/ CommandFails \/ CloneOutlives
    \/ HeightAdvances \/ MarkHeight \/ NodeRejoins \/ SampleFirst \/ SampleLast
    \/ CheckHalted \/ CheckSilent \/ PollEvidence \/ CheckConvicted \/ AwaitJailed
    \/ GlanceHeight \/ ConfirmCensored \/ ObservationFails \/ BestEffortCleanup
    \/ ChooseTarget \/ AllRecovered \/ RecoveryFails \/ WriteArtifact
    \/ (\E dirty \in BOOLEAN : CollectProvenance(dirty))
    \/ WriteResult \/ WritingStops \/ NextScenario

DrillNext ==
    \/ RunnerStep
    \/ \E slow \in SUBSET nets.delayed :
        \E other \in SUBSET (IF Byzantine THEN nets.up ELSE {}) : CommitBlock(slow, other)
    \/ \E n \in Nodes : CommitEvidence(n) \/ JailValidator(n) \/ NodeCatchesUp(n)

DrillSpec == DrillInit /\ [][DrillNext]_drillVars

\* ------------------------------------------------------------ properties ---

\* Whatever the chain did meanwhile and whichever reads failed, the result that
\* runScenario writes is one that validate-resilience-plan accepts.
ResultsAreAccepted == drill.stage = "done" => ValidateExternalResult(disk)

\* A pass is never given to a run in which two nodes committed different blocks,
\* nor to the experiment outside the trust envelope.
PassMeansOneHistory ==
    drill.stage = "done" /\ disk.report.status = "pass" =>
        /\ ledger.split \cap (Nodes \X (0..drill.target)) = {}
        /\ Scenario # "local-unsafe-byzantine-threshold"

\* A scenario that ends with a result has undone its fault, so that the next one
\* takes its baseline on an untouched localnet, unless an error was dropped.
RecoveredIsClean == drill.stage = "done" /\ ~slipped => nets = CleanNets

\* After a failed injection or observation, bestEffortCleanup, when its commands
\* work, leaves no traffic, no netem qdisc, no censoring binary, no duplicate
\* signer it was told of, and none of the stopped validators down.
CleanupUndoes ==
    drill.stage = "cleaned" /\ ~slipped =>
        /\ nets.traffic = {} /\ nets.delayed = {} /\ nets.censoring = {}
        /\ nets.cloned \cap scratch.clones = {}
        /\ Fault.down \subseteq nets.up

\* Once a later run of the same scenario has touched an artifact, the result of the
\* earlier one no longer validates, wherever the later run stopped.
EvidenceIsOfOneRun ==
    disk.report.run = "old" /\ ValidateExternalResult(disk) =>
        \A kind \in Range(RequiredKinds) : disk.files[kind] = "old"

\* A fork inside the trust envelope is in the readiness that the plan must state.
ForkBlocksRelease ==
    drill.stage = "done" /\ disk.report.contradictory # {} /\ ~Fault.outside =>
        PlanStatus(Scenario, disk.report) = "HOLD-unresolved-unsafe"

\* No fault outlives its scenario, whether that ended well or was cleaned up after.
NothingLeftBehind == RecoveredIsClean /\ CleanupUndoes

\* A written report is accepted together with its own artifacts only, and a fork it
\* reports blocks the release.
ReportsStand == ResultsAreAccepted /\ EvidenceIsOfOneRun /\ ForkBlocksRelease
=============================================================================
