--------------------------- MODULE BaselineRunner ---------------------------
(* The local capacity baselines: run-local-baselines.mjs, which drives a workload
   against the localnet, summarises it and writes a result with its artifacts,
   summarize-samples.mjs, and validate-performance-v0.mjs, which accepts results.

   Every request may fail.  An error that is not caught ends the process, and with
   it the other transfers, the sampler and the runs that were to follow.  Heights
   count from the start of a run, and every run has a sender of its own.  Rates are
   quotients of numbers kept here; time is the order of the steps. *)
EXTENDS Integers, Sequences, FiniteSets, FiniteSetsExt, SequencesExt

CONSTANTS
    Programmes,     \* sequences of workloads, each a run of the script
    Operations,     \* operationCount of the transfer workloads
    Concurrency,    \* concurrency of the transfer workload
    Methods,        \* number of methods of the read workloads
    BatchSize,      \* exactBatchSize
    MaxBlocks,      \* bound on the height of a run
    MaxSourceEdits  \* bound on the edits made to the sources

VARIABLES
    programme,      \* the workloads still to run; the first one is running
    bench,          \* the process: where it is, and what it has measured
    lanes,          \* the loops of workOne
    blocks,         \* the node
    shelf,          \* the results directory
    tree,           \* the tracked sources, as committed or edited
    sourceEdits

benchVars == <<programme, bench, lanes, blocks, shelf, tree, sourceEdits>>

Workload == Head(programme)
Indexes == 1..Operations
Lanes == 1..Concurrency
Transfers == "transfer"

\* -------------------------------------------------------- summarised samples ---

NoSample == [outcome |-> "none", ack |-> -1, inclusion |-> -1, receipt |-> -1, block |-> 0]
Sample(outcome, ack) == [NoSample EXCEPT !.outcome = outcome, !.ack = ack]

Committed == {"success", "expected-revert", "unexpected-revert"}
Included(sample) == sample.outcome \in Committed
CountOf(samples, outcomes) == Cardinality({i \in DOMAIN samples : samples[i].outcome \in outcomes})

\* The checks of summarizeCaseSamples, assertLatencyOrder among them.
SampleIsSound(sample) ==
    /\ sample.outcome \in Committed \cup {"submission-failed", "dropped"}
    /\ ~Included(sample) => sample.inclusion = -1 /\ sample.receipt = -1
    /\ sample.ack # -1 /\ sample.inclusion # -1 => sample.ack <= sample.inclusion
    /\ sample.inclusion # -1 /\ sample.receipt # -1 => sample.inclusion <= sample.receipt

\* collectLatency: the latencies that were measured.
Latencies(samples, field) ==
    LET measured == SelectSeq(samples, LAMBDA s : s[field] # -1)
    IN  [i \in DOMAIN measured |-> measured[i][field]]

\* nearestRank over the sorted values, for a percentile in hundredths.
NearestRank(sorted, percentile) ==
    LET rank == (percentile * Len(sorted) + 99) \div 100
    IN  sorted[IF rank < 1 THEN 1 ELSE rank]

\* summarizeNumbers and summaryOf; the mean is kept as the total.
SummarizeNumbers(values) ==
    LET sorted == SortSeq(values, <)
    IN  IF values = <<>>
        THEN [sampleCount |-> 0, minimum |-> -1, p50 |-> -1, p95 |-> -1, maximum |-> -1, total |-> -1]
        ELSE [sampleCount |-> Len(sorted), minimum |-> Head(sorted),
              p50 |-> NearestRank(sorted, 50), p95 |-> NearestRank(sorted, 95),
              maximum |-> Last(sorted), total |-> FoldSeq(+, 0, sorted)]

SummarizeCaseSamples(samples) ==
    [sample |-> Len(samples),
     includedCommitted |-> CountOf(samples, Committed),
     committedSuccess |-> CountOf(samples, {"success"}),
     unexpectedRevert |-> CountOf(samples, {"unexpected-revert"}),
     submissionFailed |-> CountOf(samples, {"submission-failed"}),
     dropped |-> CountOf(samples, {"dropped"}),
     acknowledgement |-> SummarizeNumbers(Latencies(samples, "ack")),
     inclusion |-> SummarizeNumbers(Latencies(samples, "inclusion")),
     receipt |-> SummarizeNumbers(Latencies(samples, "receipt"))]

\* ------------------------------------------------------------- results on disk ---

RawKind(workload) == IF workload = Transfers THEN "raw-transaction-samples" ELSE "raw-rpc-samples"
OwnKinds(workload) == <<RawKind(workload), "resource-samples", "dataset", "effective-config">>
FileKinds == {"raw-transaction-samples", "raw-rpc-samples", "resource-samples", "dataset",
              "effective-config", "worktree-patch"}
Nothing == "nothing"
NoFiles == [kind \in FileKinds |-> Nothing]
NoBaselineReport == [written |-> FALSE]
TornBaseline == [written |-> TRUE, torn |-> TRUE]

\* A file's content is the run that wrote it, or for a patch the sources it holds.
HashOn(files, kind) == IF kind = "runner" THEN tree ELSE files[kind]

\* ------------------------------------------------------------------ validation ---

\* assertSummary.
SummaryHolds(summary, maximumSamples) ==
    /\ summary.sampleCount <= maximumSamples
    /\ summary.sampleCount > 0 =>
        /\ summary.minimum <= summary.p50 /\ summary.p50 <= summary.p95
        /\ summary.p95 <= summary.maximum
        /\ summary.total \in (summary.minimum * summary.sampleCount)..(summary.maximum * summary.sampleCount)

\* The cases of assertResultSemantics, by their type.
TransactionCaseHolds(case) ==
    /\ case.committedSuccess + case.unexpectedRevert + case.submissionFailed + case.dropped = case.sample
    /\ case.includedCommitted = case.committedSuccess + case.unexpectedRevert
    /\ SummaryHolds(case.acknowledgement, case.sample)
    /\ SummaryHolds(case.inclusion, case.includedCommitted)
    /\ SummaryHolds(case.receipt, case.includedCommitted)

RpcMetricsHold(rpc) ==
    /\ rpc.httpSuccess = rpc.httpRequests
    /\ rpc.callSuccess + rpc.callError = rpc.calls
    /\ rpc.perMethod = rpc.calls
    /\ rpc.batches <= rpc.httpRequests

\* What a complete-local result of each workload owes beyond that.
TransferIsComplete(report) ==
    /\ report.case.sample = Operations
    /\ report.case.acknowledgement.sampleCount >= report.case.includedCommitted
    /\ report.case.inclusion.sampleCount = report.case.includedCommitted
    /\ report.case.receipt.sampleCount = report.case.includedCommitted
    /\ report.blockSamples >= 2
    /\ report.blockSamples = report.endHeight - report.startHeight + 1
    /\ report.rpc.httpRequests = 0

ReadMixIsComplete(report) ==
    /\ report.rpc.httpRequests = Methods + 1
    /\ report.rpc.calls = Methods + BatchSize
    /\ report.rpc.batches = 1

RunHolds(report) == report.endHeight >= report.startHeight
PatchHolds(report) == report.dirty = (report.patch # Nothing)

ArtifactsAreComplete(report) ==
    /\ {RawKind(report.workload), "resource-samples"} \subseteq DOMAIN report.artifacts
    /\ report.dirty => /\ "worktree-patch" \in DOMAIN report.artifacts
                       /\ report.artifacts["worktree-patch"] = report.patch

\* assertResultSemantics.
BaselineSemantics(report) ==
    /\ RunHolds(report) /\ PatchHolds(report)
    /\ RpcMetricsHold(report.rpc)
    /\ report.workload = Transfers => TransactionCaseHolds(report.case) /\ TransferIsComplete(report)
    /\ report.workload = "rpc" => ReadMixIsComplete(report)
    /\ ArtifactsAreComplete(report)

BaselineFilesPresent(report, files) ==
    \A kind \in DOMAIN report.artifacts : HashOn(files, kind) # Nothing

BaselineFilesMatch(report, files) ==
    \A kind \in DOMAIN report.artifacts : HashOn(files, kind) = report.artifacts[kind]

\* validateExternalResult of the result of a workload.
Accepted(workload) ==
    LET report == shelf[workload].report
    IN  /\ report.written
        /\ ~report.torn
        /\ BaselineSemantics(report)
        /\ BaselineFilesMatch(report, shelf[workload].files)

\* ------------------------------------------------------------------ the process ---

NoCalls == [success |-> 0, error |-> 0, perMethod |-> 0, http |-> 0]
NewBench(number) ==
    [stage |-> "fund", number |-> number, cursor |-> 1,
     samples |-> [i \in Indexes |-> NoSample], calls |-> NoCalls,
     startHeight |-> 0, endHeight |-> 0, runner |-> Nothing,
     dirty |-> FALSE, patch |-> Nothing, pending |-> <<>>]
IdleLane == [at |-> "idle", index |-> 0, block |-> 0]
NewBlocks == [height |-> 1, pool |-> {}, mined |-> [i \in Indexes |-> 0], reverted |-> {}]

BaselineInit ==
    /\ programme \in Programmes
    /\ bench = NewBench(1)
    /\ lanes = [l \in Lanes |-> IdleLane]
    /\ blocks = NewBlocks
    /\ shelf = [w \in {"transfer", "rpc", "archive"} |->
                    [files |-> NoFiles, report |-> NoBaselineReport, touched |-> FALSE]]
    /\ tree = "head"
    /\ sourceEdits = 0

BenchAt(stage) == bench.stage = stage
MoveTo(stage) == bench' = [bench EXCEPT !.stage = stage]
Outside == UNCHANGED <<programme, blocks, shelf, tree, sourceEdits>>

\* An error nobody catches: top-level await ends the process, and what it had
\* measured is gone.
Dies ==
    /\ bench' = [NewBench(bench.number) EXCEPT !.stage = "dead"]
    /\ lanes' = [l \in Lanes |-> IdleLane]
    /\ blocks' = NewBlocks

Aborts ==
    /\ bench.stage \notin {"done", "dead"}
    /\ Dies
    /\ UNCHANGED <<programme, shelf, tree, sourceEdits>>

\* fundSender, and the reads that the workload is planned from.
FundSender ==
    /\ BenchAt("fund") /\ MoveTo("sampler")
    /\ UNCHANGED lanes /\ Outside

\* After the first resource sample and the height the run starts from, a transfer
\* starts its loops at once: each takes the next index before it waits.
StartWorkload ==
    /\ BenchAt("sampler")
    /\ IF Workload = Transfers
       THEN /\ lanes' = [l \in Lanes |-> IF l <= Operations
                                         THEN [IdleLane EXCEPT !.at = "send", !.index = l]
                                         ELSE [IdleLane EXCEPT !.at = "done"]]
            /\ bench' = [bench EXCEPT !.stage = "work", !.startHeight = blocks.height,
                                      !.cursor = Min({Concurrency, Operations}) + 1]
       ELSE /\ bench' = [bench EXCEPT !.stage = "work", !.startHeight = blocks.height]
            /\ UNCHANGED lanes
    /\ Outside

\* ------------------------------------------------------------ transfer workload ---

Sending(l, at) == BenchAt("work") /\ lanes[l].at = at

\* workOne keeps what submitAndTrack returned and takes the next index.
Keep(l, sample) ==
    LET more == bench.cursor <= Operations IN
    /\ bench' = [bench EXCEPT !.samples[lanes[l].index] = sample,
                              !.cursor = IF more THEN @ + 1 ELSE @]
    /\ lanes' = [lanes EXCEPT ![l] =
            IF more THEN [IdleLane EXCEPT !.at = "send", !.index = bench.cursor]
            ELSE [IdleLane EXCEPT !.at = "done"]]

SendAcknowledged(l) ==
    /\ Sending(l, "send")
    /\ blocks' = [blocks EXCEPT !.pool = @ \cup {lanes[l].index}]
    /\ lanes' = [lanes EXCEPT ![l].at = "poll"]
    /\ UNCHANGED <<programme, bench, shelf, tree, sourceEdits>>

\* The submission failed, or only its answer was lost.
SendFails(l) ==
    /\ Sending(l, "send")
    /\ \E reached \in BOOLEAN :
        blocks' = IF reached THEN [blocks EXCEPT !.pool = @ \cup {lanes[l].index}] ELSE blocks
    /\ Keep(l, Sample("submission-failed", -1))
    /\ UNCHANGED <<programme, shelf, tree, sourceEdits>>

PollSeesBlock(l) ==
    /\ Sending(l, "poll")
    /\ blocks.mined[lanes[l].index] # 0
    /\ lanes' = [lanes EXCEPT ![l].at = "receipt", ![l].block = blocks.mined[lanes[l].index]]
    /\ UNCHANGED bench /\ Outside

\* The deadline passes, before the block is seen or between the block and the
\* receipt.
Deadline(l) ==
    /\ Sending(l, "poll") \/ Sending(l, "receipt")
    /\ Keep(l, Sample("dropped", 0))
    /\ Outside

ReadReceipt(l) ==
    /\ Sending(l, "receipt")
    /\ LET index == lanes[l].index IN
       Keep(l, [outcome |-> IF index \in blocks.reverted THEN "unexpected-revert" ELSE "success",
                ack |-> 0, inclusion |-> lanes[l].block, receipt |-> blocks.height,
                block |-> lanes[l].block])
    /\ Outside

\* The node commits a block: the sender's transfers in the order of their nonces.
CommitTransfers ==
    /\ bench.stage \in {"sampler", "work"}
    /\ blocks.height < MaxBlocks
    /\ LET unmined == {i \in Indexes : blocks.mined[i] = 0}
           Executable(n) == \A i \in unmined : i <= n => i \in blocks.pool
       IN  \E n \in {m \in 0..Operations : m > 0 => m \in unmined /\ Executable(m)} :
            LET batch == {i \in unmined : i <= n} IN
            \E failing \in SUBSET batch :
                blocks' = [blocks EXCEPT !.height = @ + 1,
                               !.pool = @ \ batch,
                               !.mined = [i \in Indexes |-> IF i \in batch THEN blocks.height + 1 ELSE @[i]],
                               !.reverted = @ \cup failing]
    /\ UNCHANGED <<programme, bench, lanes, shelf, tree, sourceEdits>>

\* An accepted transfer may be evicted again.
Evict ==
    /\ BenchAt("work")
    /\ \E i \in blocks.pool : blocks' = [blocks EXCEPT !.pool = @ \ {i}]
    /\ UNCHANGED <<programme, bench, lanes, shelf, tree, sourceEdits>>

\* Promise.all and sampler.stop, then the height at the end, which is at least that
\* of every block seen, and the blocks in between.
EndHeightFrom(read) ==
    Max({read} \cup {bench.samples[i].block : i \in Indexes})

EndTransfers ==
    /\ BenchAt("work") /\ Workload = Transfers
    /\ \A l \in Lanes : lanes[l].at = "done"
    /\ \A i \in Indexes : SampleIsSound(bench.samples[i])
    \* the answer may be a block behind
    /\ \E read \in Max({bench.startHeight, blocks.height - 1})..blocks.height :
        bench' = [bench EXCEPT !.stage = "stage", !.endHeight = EndHeightFrom(read)]
    /\ UNCHANGED lanes /\ Outside

\* --------------------------------------------------------------- read workloads ---

\* One request per method, counted by whether its answer holds an error.
CountAnswer(errors) ==
    /\ bench.calls.http < Methods
    /\ bench' = [bench EXCEPT
            !.calls = [success |-> @.success + 1 - errors, error |-> @.error + errors,
                       perMethod |-> @.perMethod + 1, http |-> @.http + 1]]
    /\ UNCHANGED lanes /\ Outside

SingleRequest ==
    /\ BenchAt("work") /\ Workload = "rpc"
    /\ \E errors \in 0..1 : CountAnswer(errors)

\* The archive workload gives up at an error in an answer.
ArchiveRequest ==
    /\ BenchAt("work") /\ Workload = "archive"
    /\ CountAnswer(0)

\* The batch: as many entries as the node answered, some of them errors.
BatchCounted(answered, errors) ==
    [bench.calls EXCEPT !.success = @ + answered - errors, !.error = @ + errors,
                        !.perMethod = @ + BatchSize, !.http = @ + 1]

EndReads(errors) ==
    /\ bench.calls.http = Methods
    /\ \E answered \in (BatchSize - 1)..BatchSize, end \in bench.startHeight..blocks.height :
        bench' = [bench EXCEPT !.calls = BatchCounted(answered, errors),
                               !.stage = "stage", !.endHeight = end]
    /\ UNCHANGED lanes /\ Outside

BatchRequest ==
    /\ BenchAt("work") /\ Workload = "rpc"
    /\ \E errors \in 0..1 : EndReads(errors)

ArchiveBatch ==
    /\ BenchAt("work") /\ Workload = "archive"
    /\ EndReads(0)

\* --------------------------------------------------------------------- assembly ---

\* runWorkload stages the artifacts in memory and reads its own source.
StageArtifacts ==
    /\ BenchAt("stage")
    /\ bench' = [bench EXCEPT !.stage = "status", !.runner = tree,
                              !.pending = OwnKinds(Workload)]
    /\ UNCHANGED lanes /\ Outside

\* collectProvenance: git status without the results of this script, then the diff.
DirtyPaths ==
    (IF tree = "edited" THEN {"source"} ELSE {})
        \cup (IF \E w \in DOMAIN shelf : shelf[w].touched THEN {"results"} ELSE {})

SourceIsDirty == DirtyPaths \ {"results"} # {}

GitStatus ==
    /\ BenchAt("status")
    /\ bench' = [bench EXCEPT !.stage = IF SourceIsDirty THEN "diff" ELSE "write",
                              !.dirty = SourceIsDirty]
    /\ UNCHANGED lanes /\ Outside

GitDiff ==
    /\ BenchAt("diff")
    /\ bench' = [bench EXCEPT !.stage = "write", !.patch = "patch of " \o tree,
                              !.pending = Append(@, "worktree-patch")]
    /\ UNCHANGED lanes /\ Outside

ContentOf(kind) == IF kind = "worktree-patch" THEN bench.patch ELSE ToString(bench.number)

WriteBaselineFile ==
    /\ BenchAt("write") /\ bench.pending # <<>>
    /\ shelf' = [shelf EXCEPT ![Workload].files[Head(bench.pending)] = ContentOf(Head(bench.pending)),
                              ![Workload].touched = TRUE]
    /\ bench' = [bench EXCEPT !.pending = Tail(@)]
    /\ UNCHANGED <<programme, lanes, blocks, tree, sourceEdits>>

EmptyRpcMetrics ==
    [httpRequests |-> 0, httpSuccess |-> 0, calls |-> 0, callSuccess |-> 0, callError |-> 0,
     perMethod |-> 0, batches |-> 0]

\* The plan's numbers of requests, calls and batches beside those counted.
RpcMetrics ==
    [httpRequests |-> Methods + 1, httpSuccess |-> bench.calls.http, calls |-> Methods + BatchSize,
     callSuccess |-> bench.calls.success, callError |-> bench.calls.error,
     perMethod |-> bench.calls.perMethod, batches |-> 1]

BaselineReport ==
    LET transfers == Workload = Transfers
        kinds == Range(OwnKinds(Workload)) \cup {"runner"}
                    \cup (IF bench.patch # Nothing THEN {"worktree-patch"} ELSE {})
    IN  [written |-> TRUE, torn |-> FALSE, workload |-> Workload, number |-> ToString(bench.number),
         case |-> SummarizeCaseSamples(bench.samples),
         startHeight |-> bench.startHeight, endHeight |-> bench.endHeight,
         blockSamples |-> IF transfers THEN bench.endHeight - bench.startHeight + 1 ELSE 0,
         rpc |-> IF transfers THEN EmptyRpcMetrics ELSE RpcMetrics,
         dirty |-> bench.dirty, patch |-> bench.patch,
         artifacts |-> [kind \in kinds |-> IF kind = "runner" THEN bench.runner ELSE ContentOf(kind)]]

WriteBaselineResult ==
    /\ BenchAt("write") /\ bench.pending = <<>>
    /\ shelf' = [shelf EXCEPT ![Workload].report = BaselineReport, ![Workload].touched = TRUE]
    /\ MoveTo("done")
    /\ UNCHANGED <<programme, lanes, blocks, tree, sourceEdits>>

\* A stop in the middle of a write leaves a torn file.
StopsWriting ==
    /\ BenchAt("write")
    /\ shelf' = IF bench.pending = <<>>
                THEN [shelf EXCEPT ![Workload].report = TornBaseline]
                ELSE [shelf EXCEPT ![Workload].files[Head(bench.pending)] = "torn"]
    /\ Dies
    /\ UNCHANGED <<programme, tree, sourceEdits>>

NextWorkload ==
    /\ bench.stage \in {"done", "dead"}
    /\ Len(programme) > 1
    /\ programme' = Tail(programme)
    /\ bench' = NewBench(bench.number + 1)
    /\ lanes' = [l \in Lanes |-> IdleLane]
    /\ blocks' = NewBlocks
    /\ UNCHANGED <<shelf, tree, sourceEdits>>

\* A developer edits a tracked source, or takes the edit back.
EditSource ==
    /\ sourceEdits < MaxSourceEdits
    /\ sourceEdits' = sourceEdits + 1
    /\ tree' = IF tree = "head" THEN "edited" ELSE "head"
    /\ UNCHANGED <<programme, bench, lanes, blocks, shelf>>

BaselineNext ==
    \/ Aborts \/ FundSender \/ StartWorkload
    \/ \E l \in Lanes : \/ SendAcknowledged(l) \/ SendFails(l) \/ PollSeesBlock(l)
                        \/ Deadline(l) \/ ReadReceipt(l)
    \/ CommitTransfers \/ Evict \/ EndTransfers
    \/ SingleRequest \/ BatchRequest \/ ArchiveRequest \/ ArchiveBatch
    \/ StageArtifacts \/ GitStatus \/ GitDiff
    \/ WriteBaselineFile \/ WriteBaselineResult \/ StopsWriting
    \/ NextWorkload \/ EditSource

BaselineSpec == BaselineInit /\ [][BaselineNext]_benchVars

\* ------------------------------------------------------------------ properties ---

\* A result the runner has just written passes validate-performance-v0 as long as
\* the sources are those it was made from, unless no block was committed while the
\* transfers ran or the node left a call of the batch without an answer.  One
\* transfer that was included is enough for the first.
BaselinesAreAccepted ==
    LET report == shelf[Workload].report IN
    BenchAt("done") /\ tree = bench.runner =>
        \/ Accepted(Workload)
        \/ Workload = Transfers /\ report.startHeight = report.endHeight
             /\ report.case.includedCommitted = 0
        \/ Workload # Transfers
             /\ bench.calls.success + bench.calls.error < Methods + BatchSize

\* What an accepted result says was measured in the run it names: all its files are
\* of that run, every transfer it counts as included is in a block of its range with
\* the outcome it gives, and it calls its sources clean only if nothing but earlier
\* results had changed.
AcceptedIsMeasured ==
    \A w \in DOMAIN shelf : Accepted(w) =>
        LET report == shelf[w].report IN
        /\ \A kind \in Range(OwnKinds(w)) : shelf[w].files[kind] = report.number
        /\ report.dirty => shelf[w].files["worktree-patch"] = report.patch
        /\ sourceEdits = 0 => ~report.dirty
        /\ w = Transfers /\ report.number = ToString(bench.number) /\ BenchAt("done") =>
            \A i \in Indexes :
                LET sample == bench.samples[i] IN Included(sample) =>
                    /\ blocks.mined[i] \in (report.startHeight + 1)..report.endHeight
                    /\ (i \in blocks.reverted) <=> (sample.outcome # "success")

\* A result the runner wrote is accepted, and what is accepted was measured.
BaselinesHold == BaselinesAreAccepted /\ AcceptedIsMeasured
=============================================================================
