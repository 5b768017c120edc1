---------------------------- MODULE MCOperations ----------------------------
(* Parts that share no state, checked in one run: a behaviour chooses one part at
   the start and only that part steps, so the reachable states are those of the
   instances side by side. *)
EXTENDS FaucetJournal, FaucetBreakers, FaucetRateLimiter, ScenarioRunner,
        SignerGuard, GeneratedArtifacts, RecoveryArchive, LocalFaucet

CONSTANTS p1, p2, s1, s2, c1, c2, denied, allowed, n1, n2, h1, h2, k1, k2, b1, b2

VARIABLE part

MCSubnetOf == c1 :> n1 @@ c2 :> n1 @@ denied :> n2 @@ allowed :> n2

\* All eleven scenarios; the equivocation runs after the set change, when one
\* duplicate key is a third of the power.
MCSessions ==
    {<<"local-one-validator-offline">>, <<"local-two-validators-offline">>,
     <<"local-three-one-partition">>, <<"local-two-two-partition">>,
     <<"local-all-validator-restart">>, <<"local-unsafe-byzantine-threshold">>,
     <<"local-clock-and-network-delay">>, <<"local-rpc-explorer-outage">>,
     <<"local-proposer-censorship">>,
     <<"local-validator-set-change", "local-single-equivocation">>}
MCRecorded == {<<"local-one-validator-offline">>}
MCMaxHeights ==
    [id \in UNION {Range(s) : s \in MCSessions} |->
        CASE id = "local-unsafe-byzantine-threshold" -> 3
          [] id = "local-validator-set-change" -> 5
          [] OTHER -> 4]
MCValidators == <<"validator-0", "validator-1">>
ASession == <<"local-rpc-explorer-outage">>

\* Each tool after the one whose output it checks, and two generators side by side.
MCVenture(tools, width, revisions, commits, names) ==
    [tools |-> tools, pids |-> width, edits |-> revisions, commits |-> commits,
     editable |-> {Src(x) : x \in names}]
MCVentures ==
    {MCVenture(<<"generate", "generate", "validate">>, 2, 1, 0, {"u1"}),
     MCVenture(<<"generate", "validate">>, 1, 2, 0, {"u1", "toolchain", "genesis", "identifiers"}),
     MCVenture(<<"generate", "generateCheck">>, 1, 2, 0, {"u1", "toolchain", "genesis"}),
     MCVenture(<<"generate", "network", "networkCheck">>, 1, 2, 0, {"genesis"}),
     MCVenture(<<"audit", "auditCheck">>, 1, 2, 1, {"u1"})}

\* What a part that does not step starts from.
AHome == [key |-> k1, position |-> Initial, bytes |-> Unsigned, intact |-> TRUE]

MCInit ==
    /\ part \in {"journal", "breakers", "limiter", "drill", "signer", "derived", "recovery", "local"}
    /\ JournalInit /\ BreakersInit /\ LimiterInit
    /\ DrillInit /\ (part # "drill" => session = ASession)
    /\ SignerInit /\ (part # "signer" => homes = [h \in Homes |-> AHome])
    /\ GeneratedInit /\ (part # "derived" => venture.commits = 1)
    /\ RecoveryInit /\ LocalFaucetInit

MCNext ==
    \/ /\ part = "journal" /\ JournalNext
       /\ UNCHANGED <<part, breakersVars, limiterVars, drillVars, guardVars, generatedVars, recoveryVars, localFaucetVars>>
    \/ /\ part = "breakers" /\ BreakersNext
       /\ UNCHANGED <<part, journalVars, limiterVars, drillVars, guardVars, generatedVars, recoveryVars, localFaucetVars>>
    \/ /\ part = "limiter" /\ LimiterNext
       /\ UNCHANGED <<part, journalVars, breakersVars, drillVars, guardVars, generatedVars, recoveryVars, localFaucetVars>>
    \/ /\ part = "drill" /\ DrillNext
       /\ UNCHANGED <<part, journalVars, breakersVars, limiterVars, guardVars, generatedVars, recoveryVars, localFaucetVars>>
    \/ /\ part = "signer" /\ SignerNext
       /\ UNCHANGED <<part, journalVars, breakersVars, limiterVars, drillVars, generatedVars, recoveryVars, localFaucetVars>>
    \/ /\ part = "derived" /\ GeneratedNext
       /\ UNCHANGED <<part, journalVars, breakersVars, limiterVars, drillVars, guardVars, recoveryVars, localFaucetVars>>
    \/ /\ part = "recovery" /\ RecoveryNext
       /\ UNCHANGED <<part, journalVars, breakersVars, limiterVars, drillVars, guardVars, generatedVars, localFaucetVars>>
    \/ /\ part = "local" /\ LocalFaucetNext
       /\ UNCHANGED <<part, journalVars, breakersVars, limiterVars, drillVars, guardVars, generatedVars, recoveryVars>>

MCVars == <<part, journalVars, breakersVars, limiterVars, drillVars, guardVars, generatedVars, recoveryVars, localFaucetVars>>

MCSpec == MCInit /\ [][MCNext]_MCVars
=============================================================================
