---------------------------- MODULE MCContracts ----------------------------
(* The contracts and the programs that build and read their inputs and deploy them,
   checked in one run: a behaviour chooses one part at the start and only that part steps. *)
EXTENDS RewardFixture, RewardDistributor, AttestationRegistry, ContractDeployment

CONSTANTS content1, content2, content3

VARIABLE part

MCRawIndexes == {-1, 0, 1, 2}
MCRawAccounts == {-1, 0, 1, 2, 3}
MCRawAmounts == {0, 1, 9}
MCClaimLists ==
    {[i \in 1..n |-> [index |-> p[i], account |-> p[i] + 1, amount |-> 1 + ((p[i] * k) % 3)]] :
        n \in {3, 4, 5}, k \in {1, 2, 5}, p \in Permutations(1..5)}

MCWindows == {<<1, 1>>, <<1, 2>>, <<2, 3>>}

MCEpochClaims ==
    << <<[index |-> 0, account |-> 1, amount |-> 1], [index |-> 1, account |-> 2, amount |-> 2]>>,
       <<[index |-> 0, account |-> 2, amount |-> 1]>> >>

MCPayload(s, u, c) == [schema |-> s, subject |-> u, content |-> c]
MCPayloads ==
    {MCPayload("s1", "u1", content1), MCPayload("s1", "u1", content2), MCPayload("s1", "u1", content3),
     MCPayload("s2", "u1", content1), MCPayload("s2", "u1", "zero")}
\* Two contents are interchangeable: no definition singles one of them out.
Symmetry == Permutations({content2, content3})
ASSUME SymmetryIsSound == SomePayload.content \notin {content2, content3}

AnInput == CHOOSE i \in Inputs : TRUE
APlan == CHOOSE p \in [Runs -> Plans] : TRUE

\* A part that does not step starts from one state, whichever it is.
MCInit ==
    /\ part \in {"fixture", "rewards", "attestations", "deployment"}
    /\ FixtureInit
    /\ part # "fixture" => input = AnInput
    /\ RewardInit
    /\ AttestationInit
    /\ DeploymentInit /\ (part # "deployment" => plan = APlan)

MCNext ==
    \/ /\ part = "fixture" /\ FixtureNext
       /\ UNCHANGED <<part, rewardVars, attestationVars, deploymentVars>>
    \/ /\ part = "rewards" /\ RewardNext
       /\ UNCHANGED <<part, fixtureVars, attestationVars, deploymentVars>>
    \/ /\ part = "attestations" /\ AttestationNext
       /\ UNCHANGED <<part, fixtureVars, rewardVars, deploymentVars>>
    \/ /\ part = "deployment" /\ DeploymentNext
       /\ UNCHANGED <<part, fixtureVars, rewardVars, attestationVars>>

MCSpec == MCInit /\ [][MCNext]_<<part, fixtureVars, rewardVars, attestationVars, deploymentVars>>
=============================================================================
