--------------------------- MODULE RecoveryArchive ---------------------------
(* Snapshots of the localnet: torium-localnet-state create and restore
   (chain/app/localnet/recovery_archive.go, recovery_state.go, recovery_types.go).

   A validator's home is the history of blocks it has committed; the hash of a home
   is the home, and a commit changes every file of it.  Nodes are to be stopped while
   a snapshot is taken, but nothing in the code enforces it, so here they may run;
   they do not run while one is restored.  The topology and the genesis never change.
   Either command may be killed anywhere, and the renames of the swap may fail. *)
EXTENDS Integers, Sequences, FiniteSetsExt, Functions

CONSTANTS
    Validators,     \* sequence of the validators' names, in canonical order
    Archives,       \* paths of archives
    Absent,         \* no such file or directory
    MaxBlocks,      \* bound on the blocks ever committed
    MaxJobs,        \* bound on the commands started
    MaxRenameFaults \* bound on the renames that fail

VARIABLES
    nodeDirs,       \* validator -> its home
    minted,         \* number of blocks ever committed
    vault,          \* path -> the archive and its checksum sidecar
    build,          \* the binary in use
    capture,        \* the create command
    restore,        \* the restore command
    jobs,           \* commands started
    renameFaults    \* renames that failed

recoveryVars == <<nodeDirs, minted, vault, build, capture, restore, jobs, renameFaults>>

Everybody == Range(Validators)
Scopes == {Validators} \cup {<<n>> : n \in Everybody}
NoHomes == [n \in Everybody |-> Absent]

\* The topology names at least one validator, and each of them once.
ASSUME RecoveryAssumption ==
    /\ Validators \in Seq(Range(Validators)) /\ Validators # <<>>
    /\ IsInjective(Validators)

\* ------------------------------------------------------------------ inspection ---

\* inspectRecoveryNodes: all homes are there and hold the same block at the lowest
\* of their heights.
AnchorHeight(homes, names) == Min({Len(homes[n]) : n \in names})
Agree(homes, names) ==
    /\ \A n \in names : homes[n] # Absent /\ homes[n] # <<>>
    /\ LET anchor == AnchorHeight(homes, names)
       IN  \A n, m \in names : homes[n][anchor] = homes[m][anchor]

\* What the manifest records: each node's height and last block, and the anchor.
Inspected(homes, names) ==
    [nodes |-> [n \in names |-> <<Len(homes[n]), homes[n][Len(homes[n])]>>],
     chain |-> LET anchor == AnchorHeight(homes, names)
               IN  <<anchor, homes[CHOOSE n \in names : TRUE][anchor]>>]

\* ------------------------------------------------------------------- the homes ---

NoCapture == [at |-> "none"]
NoRestore == [at |-> "none"]
Ends == {"restored", "failed", "crashed"}
Restoring == restore.at \notin Ends \cup {"none"}
Capturing == capture.at \notin {"none", "captured"}

RecoveryInit ==
    /\ nodeDirs = [n \in Everybody |-> <<1>>]
    /\ minted = 1
    /\ vault = [a \in Archives |-> [file |-> Absent, sidecar |-> Absent]]
    /\ build = 0
    /\ capture = NoCapture
    /\ restore = NoRestore
    /\ jobs = 0
    /\ renameFaults = 0

\* One home is another with more blocks, or the same.
Follows(home, other) == Len(other) <= Len(home) /\ SubSeq(home, 1, Len(other)) = other

\* A node commits a block: the next one that another has, or a new one when all the
\* others are at most where it is.
CommitHome(n) ==
    /\ ~Restoring
    /\ nodeDirs[n] # Absent
    /\ \E block \in 1..minted + 1 :
        /\ LET longer == Append(nodeDirs[n], block)
           IN  /\ IF block <= minted
                  THEN \E m \in Everybody : nodeDirs[m] # Absent /\ Follows(nodeDirs[m], longer)
                  ELSE /\ minted < MaxBlocks
                       /\ \A m \in Everybody : nodeDirs[m] # Absent => Follows(nodeDirs[n], nodeDirs[m])
               /\ nodeDirs' = [nodeDirs EXCEPT ![n] = longer]
        /\ minted' = Max({minted, block})
    /\ capture' = IF Capturing THEN [capture EXCEPT !.quiet = FALSE] ELSE NoCapture
    /\ restore' = NoRestore
    /\ UNCHANGED <<vault, build, jobs, renameFaults>>

\* The binary is replaced between two commands; an archive rots; an operator deletes
\* one.
UpgradeBinary ==
    /\ build = 0 /\ ~Capturing /\ ~Restoring
    /\ build' = 1
    /\ UNCHANGED <<nodeDirs, minted, vault, capture, restore, jobs, renameFaults>>

Rot(a) ==
    /\ vault[a].file # Absent
    /\ vault[a].file.payload = vault[a].file.manifest.files
    /\ vault' = [vault EXCEPT ![a].file.payload = [n \in DOMAIN @ |-> <<0>>]]
    /\ UNCHANGED <<nodeDirs, minted, build, capture, restore, jobs, renameFaults>>

Delete(a) ==
    /\ vault[a].file # Absent
    /\ vault' = [vault EXCEPT ![a] = [file |-> Absent, sidecar |-> Absent]]
    /\ UNCHANGED <<nodeDirs, minted, build, capture, restore, jobs, renameFaults>>

\* --------------------------------------------------------------------- capture ---

captureOnly == UNCHANGED <<nodeDirs, minted, build, restore, jobs, renameFaults>>

\* CreateRecoveryArchive up to the inspection; an existing output is refused.
CreateRecoveryArchive(a, scope) ==
    /\ ~Capturing
    /\ jobs < MaxJobs
    /\ vault[a] = [file |-> Absent, sidecar |-> Absent]
    /\ Agree(nodeDirs, Range(scope))
    /\ capture' = [at |-> "collect", name |-> a, scope |-> scope, todo |-> scope, quiet |-> ~Restoring,
                   seen |-> Inspected(nodeDirs, Range(scope)), files |-> NoHomes, binary |-> build]
    /\ jobs' = jobs + 1
    /\ UNCHANGED <<nodeDirs, minted, vault, build, restore, renameFaults>>

CaptureFails == capture' = NoCapture

\* collectRecoveryPayload: the hash of every file of a node.
CollectRecoveryPayload ==
    /\ capture.at = "collect"
    /\ LET n == Head(capture.todo) IN
       IF nodeDirs[n] = Absent THEN CaptureFails
       ELSE capture' = [capture EXCEPT !.files[n] = nodeDirs[n],
                            !.todo = IF Len(@) = 1 THEN capture.scope ELSE Tail(@),
                            !.at = IF Len(capture.todo) = 1 THEN "write" ELSE "collect"]
    /\ UNCHANGED vault /\ captureOnly

\* writeRecoveryArchive: the files are read again and must still have their hashes.
WriteRecoveryFile ==
    /\ capture.at = "write"
    /\ LET n == Head(capture.todo) IN
       IF nodeDirs[n] # capture.files[n] THEN CaptureFails
       ELSE capture' = [capture EXCEPT !.todo = Tail(@),
                            !.at = IF Len(capture.todo) = 1 THEN "publish" ELSE "write"]
    /\ UNCHANGED vault /\ captureOnly

Manifest ==
    [scope |-> capture.scope, binary |-> capture.binary,
     nodes |-> capture.seen.nodes, chain |-> capture.seen.chain,
     files |-> [n \in Range(capture.scope) |-> capture.files[n]]]

\* The temporary file becomes the archive, and then the sidecar is put beside it.
PublishArchive ==
    /\ capture.at = "publish"
    /\ vault' = [vault EXCEPT ![capture.name].file = [manifest |-> Manifest, payload |-> Manifest.files]]
    /\ capture' = [capture EXCEPT !.at = "sidecar"]
    /\ captureOnly

WriteRecoverySidecar ==
    /\ capture.at = "sidecar"
    /\ vault' = [vault EXCEPT ![capture.name].sidecar = [manifest |-> Manifest, payload |-> Manifest.files]]
    /\ capture' = [capture EXCEPT !.at = "captured"]
    /\ captureOnly

SidecarFails ==
    /\ capture.at = "sidecar"
    /\ renameFaults < MaxRenameFaults
    /\ renameFaults' = renameFaults + 1
    /\ vault' = [vault EXCEPT ![capture.name].file = Absent]
    /\ CaptureFails
    /\ UNCHANGED <<nodeDirs, minted, build, restore, jobs>>

KillCapture ==
    /\ Capturing
    /\ CaptureFails
    /\ UNCHANGED vault /\ captureOnly

\* --------------------------------------------------------------------- restore ---

restoreOnly == UNCHANGED <<nodeDirs, minted, vault, build, capture, jobs, renameFaults>>
RestoreTo(at) == restore' = [restore EXCEPT !.at = at]
RestoreEnds(at, backup) ==
    restore' = [restore EXCEPT !.at = at, !.backup = backup, !.name = Absent, !.manifest = Absent,
                               !.staged = Absent, !.todo = <<>>, !.done = <<>>]
RestoreFails == RestoreEnds("failed", NoHomes)

RestoreRecoveryArchive(a) ==
    /\ ~Restoring
    /\ jobs < MaxJobs
    /\ restore' = [at |-> "verify", name |-> a, manifest |-> Absent, staged |-> Absent,
                   before |-> nodeDirs, backup |-> NoHomes, todo |-> <<>>, done |-> <<>>,
                   undone |-> TRUE]
    /\ capture' = IF Capturing THEN [capture EXCEPT !.quiet = FALSE] ELSE NoCapture
    /\ jobs' = jobs + 1
    /\ UNCHANGED <<nodeDirs, minted, vault, build, renameFaults>>

\* verifyRecoverySidecar, once before the archive is inspected and once before it is
\* extracted.
VerifyRecoverySidecar ==
    /\ restore.at \in {"verify", "verifyAgain"}
    /\ LET entry == vault[restore.name]
       IN  IF entry.sidecar # Absent /\ entry.file # Absent /\ entry.sidecar = entry.file
           THEN RestoreTo(IF restore.at = "verify" THEN "inspect" ELSE "extract")
           ELSE RestoreFails
    /\ restoreOnly

\* readRecoveryArchive: every file has the hash the manifest gives it.
Reads(file) == file # Absent /\ file.payload = file.manifest.files

\* validateRecoveryCompatibility.
InspectRecoveryArchive ==
    /\ restore.at = "inspect"
    /\ LET file == vault[restore.name].file
       IN  IF Reads(file) /\ file.manifest.binary = build
           THEN restore' = [restore EXCEPT !.at = "verifyAgain", !.manifest = file.manifest]
           ELSE RestoreFails
    /\ restoreOnly

\* Extraction into the staging directory, and recoveryManifestsEqual.
Extract ==
    /\ restore.at = "extract"
    /\ LET file == vault[restore.name].file
       IN  IF Reads(file) /\ file.manifest = restore.manifest
           THEN restore' = [restore EXCEPT !.at = "validate", !.staged = file.payload]
           ELSE RestoreFails
    /\ restoreOnly

\* validateStagedRecovery: the staged databases are inspected as those of a runtime.
StagedMatches(staged, manifest) ==
    LET names == Range(manifest.scope)
    IN  /\ Agree(staged, names)
        /\ Inspected(staged, names) = [nodes |-> manifest.nodes, chain |-> manifest.chain]

ValidateStagedRecovery ==
    /\ restore.at = "validate"
    /\ IF StagedMatches(restore.staged, restore.manifest)
       THEN restore' = [restore EXCEPT !.at = "preserve", !.todo = restore.manifest.scope]
       ELSE RestoreFails
    /\ restoreOnly

\* Any other error before the swap: a read, a permission, no space to stage in.
RestoreErrs ==
    /\ restore.at \in {"verify", "inspect", "verifyAgain", "extract", "validate"}
    /\ RestoreFails
    /\ restoreOnly

\* activateRecoveryNodes: a home is moved to the backup and the staged one into its
\* place, one validator after the other.
SwapTarget == Head(restore.todo)
swapOnly == UNCHANGED <<minted, vault, build, capture, jobs>>

Preserve ==
    /\ restore.at = "preserve"
    /\ nodeDirs[SwapTarget] # Absent
    /\ nodeDirs' = [nodeDirs EXCEPT ![SwapTarget] = Absent]
    /\ restore' = [restore EXCEPT !.at = "activate", !.backup[SwapTarget] = nodeDirs[SwapTarget]]
    /\ swapOnly /\ UNCHANGED renameFaults

Activate ==
    /\ restore.at = "activate"
    /\ nodeDirs' = [nodeDirs EXCEPT ![SwapTarget] = restore.staged[SwapTarget]]
    /\ restore' = IF Len(restore.todo) = 1
                  THEN [restore EXCEPT !.at = "restored", !.backup = NoHomes]
                  ELSE [restore EXCEPT !.at = "preserve", !.todo = Tail(@), !.done = Append(@, SwapTarget)]
    /\ swapOnly /\ UNCHANGED renameFaults

Faulty(count) ==
    /\ renameFaults + count <= MaxRenameFaults
    /\ renameFaults' = renameFaults + count

\* The home is not there, or cannot be moved.
PreserveFails ==
    /\ restore.at = "preserve"
    /\ IF nodeDirs[SwapTarget] = Absent THEN UNCHANGED renameFaults ELSE Faulty(1)
    /\ RestoreTo("undo")
    /\ swapOnly /\ UNCHANGED nodeDirs

\* The staged home cannot be moved: the preserved one is put back, which may fail too.
ActivateFailsForgetting ==
    /\ restore.at = "activate"
    /\ Faulty(1)
    /\ RestoreTo("undo")
    /\ swapOnly /\ UNCHANGED nodeDirs

ActivateFails ==
    /\ restore.at = "activate"
    /\ \/ /\ Faulty(1)
          /\ nodeDirs' = [nodeDirs EXCEPT ![SwapTarget] = restore.backup[SwapTarget]]
          /\ RestoreTo("undo")
       \/ /\ Faulty(2)
          /\ restore' = [restore EXCEPT !.at = "undo", !.undone = FALSE]
          /\ UNCHANGED nodeDirs
    /\ swapOnly

\* rollback: the activated homes, the last one first, are removed and the preserved
\* ones moved back.  Then the backup is removed, whatever came of that.
LastActivated == restore.done[Len(restore.done)]

RemoveActivated ==
    /\ restore.at = "undo" /\ restore.done # <<>>
    /\ nodeDirs' = [nodeDirs EXCEPT ![LastActivated] = Absent]
    /\ RestoreTo("moveBack")
    /\ swapOnly /\ UNCHANGED renameFaults

MoveBack ==
    /\ restore.at = "moveBack"
    /\ LET n == LastActivated
           rest == SubSeq(restore.done, 1, Len(restore.done) - 1) IN
       \/ /\ nodeDirs' = [nodeDirs EXCEPT ![n] = restore.backup[n]]
          /\ restore' = [restore EXCEPT !.at = "undo", !.done = rest]
          /\ UNCHANGED renameFaults
       \/ /\ Faulty(1)
          /\ restore' = [restore EXCEPT !.at = "undo", !.done = rest, !.undone = FALSE]
          /\ UNCHANGED nodeDirs
    /\ swapOnly

RolledBack ==
    /\ restore.at = "undo" /\ restore.done = <<>>
    /\ RestoreFails
    /\ restoreOnly

\* Killed: what is staged and preserved stays where it is.
KillRestore ==
    /\ Restoring
    /\ RestoreEnds("crashed", restore.backup)
    /\ restoreOnly

RecoveryNext ==
    \/ \E n \in Everybody : CommitHome(n)
    \/ UpgradeBinary
    \/ \E a \in Archives : \/ Rot(a) \/ Delete(a) \/ RestoreRecoveryArchive(a)
                           \/ \E scope \in Scopes : CreateRecoveryArchive(a, scope)
    \/ CollectRecoveryPayload \/ WriteRecoveryFile \/ PublishArchive
    \/ WriteRecoverySidecar \/ SidecarFails \/ KillCapture
    \/ VerifyRecoverySidecar \/ InspectRecoveryArchive \/ Extract \/ ValidateStagedRecovery
    \/ RestoreErrs \/ Preserve \/ Activate \/ PreserveFails \/ ActivateFails
    \/ RemoveActivated \/ MoveBack \/ RolledBack \/ KillRestore

RecoverySpec == RecoveryInit /\ [][RecoveryNext]_recoveryVars

\* ------------------------------------------------------------------ properties ---

\* A restore that succeeded put the homes of its scope into the state its manifest
\* names, on one history, whatever ran while the snapshot was taken and whatever
\* became of the archive while it was read; the other homes are untouched.
RestoredIsTheSnapshot ==
    restore.at = "restored" =>
        LET names == Range(restore.manifest.scope) IN
        /\ \A n \in names : nodeDirs[n] = restore.manifest.files[n]
        /\ Agree(nodeDirs, names)
        /\ Inspected(nodeDirs, names) = [nodes |-> restore.manifest.nodes, chain |-> restore.manifest.chain]
        /\ \A n \in Everybody \ names : nodeDirs[n] = restore.before[n]

\* A restore that reports an error has left every home as it was, also when it fails
\* between two validators, unless a rename failed while it was undone.
FailedIsUntouched ==
    restore.at = "failed" /\ restore.undone => nodeDirs = restore.before

\* Until a restore has succeeded, every home as it was before is in its place or in
\* the backup, at the moment of a kill included.
NothingIsLost ==
    restore.at \notin {"none", "restored"} /\ (restore.undone \/ restore.at # "failed") =>
        \A n \in Everybody : restore.before[n] \in {nodeDirs[n], restore.backup[n]}

\* A snapshot that was taken while nothing ran can be restored.
QuietCaptureIsRestorable ==
    capture.at = "captured" /\ capture.quiet => StagedMatches(Manifest.files, Manifest)

RecoveryHolds == RestoredIsTheSnapshot /\ FailedIsUntouched /\ NothingIsLost /\ QuietCaptureIsRestorable
=============================================================================
