------------------------- MODULE GeneratedArtifacts -------------------------
(* The tools that derive committed files from reviewed sources, and the tools that
   check what they derived, all reading and writing one working tree while people
   edit, compile, commit and interrupt:
     generate, generate --check   contracts/scripts/generate-artifacts.mjs
     validate                     validate-registry.mjs && validate-testnet-registry.mjs
     audit, audit --check         generate-audit-bundle.mjs
     network --write, --check     chain/releases/generate-network-artifacts-v0.mjs
   A file is a path with a content; a hash of a content is the content.  A source is
   a revision number, and every second revision changes what its readers interpret
   (bytecode, chain id) while the others change the wording alone. *)
EXTENDS Integers, SequencesExt, TLC

CONSTANTS
    Units,          \* the Solidity contracts
    Ventures,       \* what happens: the tools that are started, in order, how many run
                    \* side by side, how many edits and commits people make, and
                    \* which sources they edit
    Missing,        \* no such file
    Torn            \* a file whose write was interrupted

VARIABLES
    venture,        \* the tools still to be started and the edits still to be made
    files,          \* path -> content
    head,           \* the last commit
    procs           \* pid -> the tool it runs

generatedVars == <<venture, files, head, procs>>

Src(x) == <<"source", x>>
Out(u) == <<"out", u>>
Abi(u) == <<"abi", u>>
Gen(x) == <<"generated", x>>
Audit(x) == <<"audit", x>>
NetworkFile(x) == <<"network", x>>

Shared == {"imports", "toolchain", "identifiers", "genesis"}
Sources == {Src(x) : x \in Units \cup Shared}
Testnet == Src("testnet")           \* the reviewed record of what runs on the testnet
Outs == {Out(u) : u \in Units}
Abis == {Abi(u) : u \in Units}
Listed == Abis \cup {Gen(x) : x \in {"registry", "abis", "deployments", "docs"}}
Sums == Gen("sums")
Generated == Listed \cup {Sums}
AuditFiles == {Audit("manifest"), Audit("sums")}
NetworkFiles == {NetworkFile("artifact"), NetworkFile("sums")}
Tracked == Sources \cup {Testnet} \cup Generated \cup NetworkFiles
Paths == Tracked \cup Outs \cup AuditFiles

UnitSeq == SetToSeq(Units)
Each(op, paths) == [i \in 1..Len(paths) |-> <<op, paths[i]>>]
OverUnits(op, Path(_)) == [i \in 1..Len(UnitSeq) |-> <<op, Path(UnitSeq[i])>>]
GeneratedSeq ==
    [i \in 1..Len(UnitSeq) |-> Abi(UnitSeq[i])]
    \o <<Gen("registry"), Gen("abis"), Gen("deployments"), Gen("docs"), Sums>>

\* What the readers of a revision interpret.
Meaning(revision) == revision \div 2

\* ------------------------------------------------------------ what is derived ---

\* forge build (external): bytecode and metadata of a contract and its imports.
Compiled(u) ==
    [own |-> files[Src(u)], imports |-> files[Src("imports")], solc |-> files[Src("toolchain")]]
RuntimeOf(out) == <<Meaning(out.own), Meaning(out.imports), out.solc>>

\* validateCompilerMetadata: the pinned compiler, and the contract's own source.
MetadataHolds(out, own, toolchain) == out.solc = toolchain /\ out.own = own

\* normalizeArtifact.
Artifact(out, own, toolchain) ==
    [source |-> own, code |-> RuntimeOf(out), compiler |-> toolchain]

\* The identifiers and the genesis manifest name one chain.
IdentityAgrees(read) == Meaning(read[Src("identifiers")]) = Meaning(read[Src("genesis")])

\* renderSdkDeployments: the testnet runs the bytecode that is generated.
TestnetAgrees(read) == \A u \in Units : read[Testnet][u] = RuntimeOf(read[Out(u)])

\* Where the two assigned contracts are: the precompile that the genesis manifest
\* names, and the first contract that the genesis' deployer account creates.
AddressOf(id, read) == <<id, Meaning(read[Src("genesis")])>>

\* An entry of the registry: the reward and the attestation contracts are planned
\* and have no address.
RegistryEntries(read) ==
    [native |-> [status |-> "active", address |-> AddressOf("precompile", read)],
     factory |-> [status |-> "planned", address |-> AddressOf("create", read)],
     contracts |-> [status |-> "planned", address |-> Missing]]

\* The localnet registry: the chain, the toolchain, and the entries, for each
\* contract with the hashes of its artifact.
RegistryOf(read) ==
    LET toolchain == read[Src("toolchain")]
    IN  [entries |-> RegistryEntries(read),
         artifacts |-> [u \in Units |-> Artifact(read[Out(u)], read[Src(u)], toolchain)],
         genesis |-> read[Src("genesis")], toolchain |-> toolchain,
         identifiers |-> Meaning(read[Src("identifiers")])]

\* The SDK's two modules and the manifest of the docs.
SdkAbis(registry) == [u \in Units |-> registry.artifacts[u].code]
SdkDeployments(registry, testnet) == [localnet |-> registry, testnet |-> testnet]
DocsManifest(registry) == registry

\* All that one run writes, from what it has read; the checksums cover the rest.
Render(read) ==
    LET registry == RegistryOf(read)
        nine == [f \in Listed |->
                    CASE f \in Abis -> registry.artifacts[f[2]]
                      [] f = Gen("registry") -> registry
                      [] f = Gen("abis") -> SdkAbis(registry)
                      [] f = Gen("deployments") -> SdkDeployments(registry, read[Testnet])
                      [] f = Gen("docs") -> DocsManifest(registry)]
    IN  [f \in Generated |-> IF f = Sums THEN nine ELSE nine[f]]

\* collectCommitCoverageExceptions and the manifest around it.
ScopeSeq ==
    <<Src("toolchain"), Gen("registry"), Sums, Testnet>>
    \o [i \in 1..Len(UnitSeq) |-> Abi(UnitSeq[i])] \o [i \in 1..Len(UnitSeq) |-> Src(UnitSeq[i])]
AuditScope == ToSet(ScopeSeq)
Bundle(read, commit, changed) ==
    LET manifest == [commit |-> commit, exceptions |-> changed \cap AuditScope,
                     scope |-> [f \in AuditScope |-> read[f]]]
    IN  Audit("manifest") :> manifest
        @@ Audit("sums") :> [manifest |-> manifest, scope |-> manifest.scope]

\* buildArtifact of the network bundle, and its two assertions on the genesis.
NetworkSources == {Src("identifiers"), Src("genesis"), Gen("registry"), Testnet}
NetworkAgrees(read) == read[Gen("registry")].genesis = read[Src("genesis")]
NetworkIdentifiers(environment, read) == <<environment, Meaning(read[Src("identifiers")])>>

\* An environment: its chain, whether its endpoints may be published, its genesis
\* and its contracts.
LocalnetEnvironment(read) ==
    [identifiers |-> NetworkIdentifiers("localnet", read), publishable |-> FALSE,
     genesis |-> read[Src("genesis")], contracts |-> Missing]
LiveTestnetEnvironment(read) ==
    [identifiers |-> NetworkIdentifiers("testnet", read), publishable |-> TRUE,
     genesis |-> "withheld", contracts |-> read[Testnet]]
ReservedEnvironment(environment, read) ==
    [identifiers |-> NetworkIdentifiers(environment, read), publishable |-> FALSE,
     genesis |-> Missing, contracts |-> Missing]

NetworkArtifact(read) ==
    [sources |-> [f \in NetworkSources |-> read[f]],
     environments |->
        [localnet |-> LocalnetEnvironment(read), testnet |-> LiveTestnetEnvironment(read),
         devnet |-> ReservedEnvironment("devnet", read),
         mainnet |-> ReservedEnvironment("mainnet", read)]]

\* assertSemantics: four chains, and nothing of a reserved one or of the localnet
\* is published.
SemanticsHold(artifact) ==
    LET environments == artifact.environments
    IN  /\ \A a, b \in DOMAIN environments :
            environments[a].identifiers = environments[b].identifiers => a = b
        /\ \A a \in {"devnet", "mainnet"} :
            environments[a].genesis = Missing /\ ~environments[a].publishable
        /\ ~environments["localnet"].publishable

\* The two files: the artifact, and the checksums of it and of its sources.
NetworkBundle(read) ==
    LET artifact == NetworkArtifact(read)
    IN  NetworkFile("artifact") :> artifact
        @@ NetworkFile("sums") :> [artifact |-> artifact, sources |-> artifact.sources]

\* ---------------------------------------------------------------- the processes ---

Idle == [tool |-> "none", at |-> "idle", quiet |-> FALSE]

\* The files a tool reads concurrently (Promise.all) before anything else.
Inputs(tool) ==
    CASE tool \in {"generate", "generateCheck"} ->
            Outs \cup {Src("toolchain"), Src("identifiers"), Src("genesis"), Testnet}
      [] tool = "validate" -> {Gen("registry"), Src("toolchain"), Src("identifiers"), Src("genesis")}
      [] tool \in {"audit", "auditCheck"} -> {}
      [] tool \in {"network", "networkCheck"} -> NetworkSources

\* What it then does, one operation after the other.
Agenda(tool) ==
    CASE tool = "generate" -> OverUnits("normalize", Src) \o Each("rename", GeneratedSeq)
      [] tool = "generateCheck" -> OverUnits("normalize", Src) \o Each("compare", GeneratedSeq)
      [] tool = "validate" ->
            OverUnits("artifact", Abi) \o <<<<"sums", Sums>>>>
            \o Each("listed", Front(GeneratedSeq))
            \o <<<<"testnet", Testnet>>, <<"localnet", Gen("registry")>>>> \o OverUnits("creation", Abi)
      [] tool = "audit" ->
            <<<<"head", Sums>>, <<"changed", Sums>>>> \o Each("scope", ScopeSeq)
            \o Each("overwrite", <<Audit("manifest"), Audit("sums")>>)
      [] tool = "auditCheck" ->
            <<<<"head", Sums>>, <<"changed", Sums>>>> \o Each("scope", ScopeSeq)
            \o Each("equal", <<Audit("manifest"), Audit("sums")>>)
      [] tool = "network" -> Each("overwrite", <<NetworkFile("artifact"), NetworkFile("sums")>>)
      [] tool = "networkCheck" -> Each("equal", <<NetworkFile("artifact"), NetworkFile("sums")>>)

Doing(p, op) == procs[p].at = "working" /\ Head(procs[p].agenda)[1] = op
Subject(p) == Head(procs[p].agenda)[2]

\* p takes its next state; the others learn nothing, but what they checked on a
\* quiet tree is no longer quiet.
Becomes(p, state) == procs' = [procs EXCEPT ![p] = state]
Disturbs(p, state) ==
    procs' = [q \in DOMAIN procs |->
                IF q = p THEN state
                ELSE IF procs[q].at = "accepted" THEN Idle
                ELSE [procs[q] EXCEPT !.quiet = FALSE]]

\* The agenda goes on, or the tool exits with status 0.
Onwards(state) ==
    IF Len(state.agenda) > 1 THEN [state EXCEPT !.agenda = Tail(@)]
    ELSE IF state.quiet THEN [tool |-> state.tool, at |-> "accepted", quiet |-> TRUE] ELSE Idle

Held(p, f) == f :> files[f] @@ procs[p].read
ReadMore(p, f) == [procs[p] EXCEPT !.read = Held(p, f)]

\* A failed assertion or a thrown error ends the tool with a nonzero status.
Exits(p) == Becomes(p, Idle) /\ UNCHANGED <<venture, files, head>>
Continues(p, state) == Becomes(p, Onwards(state)) /\ UNCHANGED <<venture, files, head>>
Unless(ok, p, state) == IF ok THEN Continues(p, state) ELSE Exits(p)

\* ------------------------------------------------------------------- behaviour ---

Fresh == [f \in Sources |-> 0] @@ (Testnet :> [u \in Units |-> <<0, 0, 0>>])
         @@ [f \in Outs |-> [own |-> 0, imports |-> 0, solc |-> 0]]

\* A checkout whose derived files are current; nothing is built, no bundle exists.
GeneratedInit ==
    /\ venture \in Ventures
    /\ files = LET derived == Render(Fresh)
               IN  [f \in Paths |->
                       CASE f \in Generated -> derived[f]
                         [] f \in NetworkFiles -> NetworkBundle(Fresh @@ derived)[f]
                         [] f \in Outs \cup AuditFiles -> Missing
                         [] OTHER -> Fresh[f]]
    /\ head = [commit |-> 0, files |-> [f \in Tracked |-> files[f]]]
    /\ procs = [p \in 1..venture.pids |-> Idle]

\* People: edit a source, record what the testnet now runs, compile, commit.
ReviseSource(f) ==
    /\ venture.edits > 0
    /\ venture' = [venture EXCEPT !.edits = @ - 1]
    /\ files' = [files EXCEPT ![f] = @ + 1]
    /\ Disturbs(Missing, Idle)
    /\ UNCHANGED head

RecordTestnet ==
    /\ \A u \in Units : files[Out(u)] # Missing
    /\ LET record == [u \in Units |-> RuntimeOf(files[Out(u)])]
       IN  files[Testnet] # record /\ files' = [files EXCEPT ![Testnet] = record]
    /\ Disturbs(Missing, Idle)
    /\ UNCHANGED <<venture, head>>

Compile ==
    /\ \E u \in Units : files[Out(u)] # Compiled(u)
    /\ files' = [f \in Paths |-> IF f \in Outs THEN Compiled(f[2]) ELSE files[f]]
    /\ Disturbs(Missing, Idle)
    /\ UNCHANGED <<venture, head>>

Commit ==
    /\ head.commit < venture.commits
    /\ \E f \in Tracked : head.files[f] # files[f]
    /\ head' = [commit |-> head.commit + 1, files |-> [f \in Tracked |-> files[f]]]
    /\ Disturbs(Missing, Idle)
    /\ UNCHANGED <<venture, files>>

StartTool(p) ==
    /\ venture.tools # <<>>
    /\ \A q \in 1..p - 1 : procs[q].at \in {"reading", "working"}
    /\ procs[p].at \in {"idle", "accepted"}
    /\ LET tool == Head(venture.tools)
       IN  Becomes(p, [tool |-> tool, at |-> IF Inputs(tool) = {} THEN "working" ELSE "reading",
                       todo |-> Inputs(tool), read |-> <<>>, text |-> <<>>, drift |-> FALSE,
                       agenda |-> Agenda(tool), quiet |-> TRUE])
    /\ venture' = [venture EXCEPT !.tools = Tail(@)]
    /\ UNCHANGED <<files, head>>

\* The registry's entries: the assigned addresses follow from the genesis that was
\* read, and the other contracts remain plans; their remaining fields are constants
\* of the generator and of the validator.
AssignedHold(entries, read) ==
    /\ entries.native = [status |-> "active", address |-> AddressOf("precompile", read)]
    /\ entries.factory = [status |-> "planned", address |-> AddressOf("create", read)]
    /\ entries.native.address # entries.factory.address
PlannedHold(entries) == entries.contracts = [status |-> "planned", address |-> Missing]

\* The two names of the chain; the registry against chain, toolchain and genesis;
\* or the network artifact's own conditions.
InputsHold(tool, read) ==
    CASE tool \in {"generate", "generateCheck"} -> IdentityAgrees(read)
      [] tool = "validate" ->
            LET registry == read[Gen("registry")]
            IN  /\ registry.identifiers = Meaning(read[Src("identifiers")])
                /\ IdentityAgrees(read)
                /\ registry.genesis = read[Src("genesis")]
                /\ registry.toolchain = read[Src("toolchain")]
                /\ AssignedHold(registry.entries, read)
                /\ PlannedHold(registry.entries)
      [] OTHER -> NetworkAgrees(read) /\ SemanticsHold(NetworkArtifact(read))

\* One of the concurrent reads completes.  After the last one the tool checks what
\* it has.
ReadInput(p, f) ==
    /\ procs[p].at = "reading"
    /\ f \in procs[p].todo
    /\ LET tool == procs[p].tool
           todo == procs[p].todo \ {f}
           state == [ReadMore(p, f) EXCEPT !.todo = todo]
       IN  IF files[f] = Missing THEN Exits(p)
           ELSE /\ IF todo # {} THEN Becomes(p, state)
                   ELSE IF ~InputsHold(tool, state.read) THEN Becomes(p, Idle)
                   ELSE IF tool \in {"network", "networkCheck"}
                   THEN Becomes(p, [state EXCEPT !.at = "working", !.read = <<>>,
                                                 !.text = NetworkBundle(state.read)])
                   ELSE Becomes(p, [state EXCEPT !.at = "working"])
                /\ UNCHANGED <<venture, files, head>>

\* normalizeArtifact reads the Solidity source only now.  After the last contract
\* everything is rendered.
Normalize(p) ==
    /\ Doing(p, "normalize")
    /\ LET f == Subject(p)
           read == Held(p, f)
           last == f = Src(UnitSeq[Len(UnitSeq)])
           holds == /\ MetadataHolds(read[Out(f[2])], read[f], read[Src("toolchain")])
                    /\ last => TestnetAgrees(read)
       IN  Unless(holds, p,
                  IF last THEN [procs[p] EXCEPT !.read = <<>>, !.text = Render(read)]
                  ELSE [procs[p] EXCEPT !.read = read])

\* atomicWrite: a temporary file, then a rename.
Rename(p) ==
    /\ Doing(p, "rename")
    /\ files' = [files EXCEPT ![Subject(p)] = procs[p].text[Subject(p)]]
    /\ IF files' # files THEN Disturbs(p, Onwards(procs[p])) ELSE Becomes(p, Onwards(procs[p]))
    /\ UNCHANGED <<venture, head>>

\* --check collects the files that drifted and fails at the end if there are any.
Compare(p) ==
    /\ Doing(p, "compare")
    /\ LET drift == procs[p].drift \/ files[Subject(p)] # procs[p].text[Subject(p)]
       IN  Unless(~(drift /\ Len(procs[p].agenda) = 1), p, [procs[p] EXCEPT !.drift = drift])

\* validateArtifact: the file is the one the registry names, of its compiler, and
\* of the Solidity source as it is now.
ArtifactNamed(registry, u) ==
    /\ files[Abi(u)] = registry.artifacts[u]
    /\ files[Abi(u)].compiler = registry.toolchain
ArtifactHolds(registry, u) ==
    /\ files[Abi(u)] = registry.artifacts[u]
    /\ files[Abi(u)].compiler = registry.toolchain
    /\ files[Abi(u)].source = files[Src(u)]
CheckArtifact(p) ==
    /\ Doing(p, "artifact")
    /\ Unless(ArtifactHolds(procs[p].read[Gen("registry")], Subject(p)[2]), p, procs[p])

\* validateChecksums: the list covers the generated files exactly, and each of them
\* has the hash it states.
ReadSums(p) ==
    /\ Doing(p, "sums")
    /\ Unless(DOMAIN files[Sums] = Listed, p, [procs[p] EXCEPT !.read = Sums :> files[Sums]])

ListedMatches(p, f) == files[f] = procs[p].read[Sums][f]
CheckListed(p) ==
    /\ Doing(p, "listed")
    /\ Unless(ListedMatches(p, Subject(p)), p, procs[p])

\* validate-testnet-registry.mjs: the testnet's code is the localnet registry's and
\* the artifact's.
ReadTestnet(p) ==
    /\ Doing(p, "testnet")
    /\ Continues(p, [procs[p] EXCEPT !.read = Testnet :> files[Testnet]])

CompareCode(p) ==
    /\ Doing(p, "localnet")
    /\ Unless(\A u \in Units :
                files[Subject(p)].artifacts[u].code = procs[p].read[Testnet][u], p, procs[p])

CompareCreation(p) ==
    /\ Doing(p, "creation")
    /\ Unless(files[Subject(p)].code = procs[p].read[Testnet][Subject(p)[2]], p, procs[p])

\* The audit wrapper asks git for the commit and then for the changed paths; the
\* files themselves are read afterwards, one by one.
GitHead(p) ==
    /\ Doing(p, "head")
    /\ Continues(p, [procs[p] EXCEPT !.text = [commit |-> head.commit]])

GitChanged(p) ==
    /\ Doing(p, "changed")
    /\ Continues(p, [procs[p] EXCEPT !.text =
                        [commit |-> @.commit, changed |-> {f \in Tracked : files[f] # head.files[f]}]])

ReadScope(p) ==
    /\ Doing(p, "scope")
    /\ LET read == Held(p, Subject(p))
       IN  Continues(p, IF DOMAIN read = AuditScope
                        THEN [procs[p] EXCEPT !.read = <<>>,
                                 !.text = Bundle(read, procs[p].text.commit, procs[p].text.changed)]
                        ELSE [procs[p] EXCEPT !.read = read])

\* writeFile truncates before it writes: the first half of the write leaves a torn file.
Overwrite(p) ==
    /\ Doing(p, "overwrite")
    /\ IF procs[p].drift
       THEN /\ files' = [files EXCEPT ![Subject(p)] = procs[p].text[Subject(p)]]
            /\ Disturbs(p, Onwards([procs[p] EXCEPT !.drift = FALSE]))
       ELSE /\ files' = [files EXCEPT ![Subject(p)] = Torn]
            /\ Disturbs(p, [procs[p] EXCEPT !.drift = TRUE])
    /\ UNCHANGED <<venture, head>>

\* assertFileEquals, and the two assertions of network --check.
StaleManifest(p, f) == f[2] # "sums" /\ files[f] # procs[p].text[f]
StaleFile(p, f) == files[f] # procs[p].text[f]
Equal(p) ==
    /\ Doing(p, "equal")
    /\ Unless(~StaleFile(p, Subject(p)), p, procs[p])

\* The process is killed.
Killed(p) == procs[p].at \in {"reading", "working"} /\ Exits(p)

GeneratedNext ==
    \/ \E f \in venture.editable : ReviseSource(f)
    \/ RecordTestnet \/ Compile \/ Commit
    \/ \E p \in DOMAIN procs :
        \/ StartTool(p) \/ Normalize(p) \/ Rename(p) \/ Compare(p)
        \/ CheckArtifact(p) \/ ReadSums(p) \/ CheckListed(p)
        \/ ReadTestnet(p) \/ CompareCode(p) \/ CompareCreation(p)
        \/ GitHead(p) \/ GitChanged(p) \/ ReadScope(p) \/ Overwrite(p) \/ Equal(p) \/ Killed(p)
        \/ \E f \in Paths : ReadInput(p, f)

GeneratedSpec == GeneratedInit /\ [][GeneratedNext]_generatedVars

\* ------------------------------------------------------------------ properties ---

\* A check that has passed and has not been overtaken by any change since it began.
Passed(tool) == \E p \in DOMAIN procs : procs[p].at = "accepted" /\ procs[p].tool = tool

OneGeneration ==
    LET registry == files[Gen("registry")]
    IN  /\ \A u \in Units : files[Abi(u)] = registry.artifacts[u]
        /\ files[Gen("abis")] = [u \in Units |-> registry.artifacts[u].code]
        /\ files[Gen("deployments")].localnet = registry
        /\ files[Gen("docs")] = registry
        /\ files[Sums] = [f \in Listed |-> files[f]]

\* validate-registry and validate-testnet-registry pass only on generated files
\* that one run rendered together, whatever runs were killed between two renames or
\* wrote at the same time, and that name the sources, the genesis, the toolchain and
\* the testnet's code as they are.
ValidatedIsOneGeneration ==
    Passed("validate") =>
        /\ OneGeneration
        /\ files[Gen("registry")].genesis = files[Src("genesis")]
        /\ \A u \in Units :
            /\ files[Abi(u)].source = files[Src(u)]
            /\ files[Abi(u)].compiler = files[Src("toolchain")]
            /\ files[Abi(u)].code = files[Testnet][u]

\* generate --check passes only if every generated file is what the sources give
\* now: the bytecode is that of the present contract and compiler even when the
\* build is old, and the SDK carries the present testnet record.
CheckedIsCurrent ==
    Passed("generateCheck") =>
        /\ OneGeneration
        /\ files[Gen("registry")].genesis = files[Src("genesis")]
        /\ files[Gen("deployments")].testnet = files[Testnet]
        /\ \A u \in Units :
            LET artifact == files[Abi(u)]
            IN  /\ artifact.source = files[Src(u)]
                /\ artifact.code[1] = Meaning(files[Src(u)])
                /\ artifact.code[3] = files[Src("toolchain")]
                /\ artifact.code = files[Testnet][u]

\* Both checks of the generated contract files.
GenerationIsChecked == ValidatedIsOneGeneration /\ CheckedIsCurrent

\* The second pass of the audit bundle leaves no bundle standing that was written
\* while files changed, or in part: its commit, its exceptions and its hashes are
\* those of the tree, and so are the two files of the network bundle after --check.
BundlesAreTrue ==
    /\ Passed("auditCheck") =>
        LET manifest == files[Audit("manifest")]
        IN  /\ manifest.commit = head.commit
            /\ manifest.exceptions = {f \in AuditScope : files[f] # head.files[f]}
            /\ manifest.scope = [f \in AuditScope |-> files[f]]
            /\ files[Audit("sums")] = [manifest |-> manifest, scope |-> manifest.scope]
    /\ Passed("networkCheck") =>
        LET artifact == files[NetworkFile("artifact")]
        IN  /\ artifact.sources = [f \in NetworkSources |-> files[f]]
            /\ artifact.environments["localnet"].genesis = files[Gen("registry")].genesis
            /\ artifact.environments["testnet"].contracts = files[Testnet]
            /\ files[NetworkFile("sums")] = [artifact |-> artifact, sources |-> artifact.sources]
=============================================================================
