---------------------------- MODULE SdkDiagnostics ----------------------------
(* What the SDK tells of an error it caught (errors.ts), and of a simulated call
   that failed (simulateToriumContractRequest in contracts.ts).

   A caught error is an object that may have another for its cause, which may
   lead back to it.  What the SDK looks at on one object:
     name      the error's name
     marks     the categories whose name or message patterns it matches
     codes     the numeric "code", statuses the numeric "status": at most one each
     afterMs   retryAfterMs, and afterSec the retry-after header: at most one each
     data      the revert data it carries, "none" without
   A behaviour catches one error. *)
EXTENDS SdkErrors, SequencesExt

CONSTANTS
    ErrorObjects,
    NoCause,
    Links,              \* what an object may look like
    ChainLimit,         \* 8 in errorChain
    CauseLimit,         \* 5 in toToriumErrorCause
    RevertDepth,        \* 10 in extractToriumRevertData
    MaxRetryAfterMs,    \* 30_000
    SafeCauseNames,     \* safeCauseNames
    KnownErrors         \* revert data of the errors of the contract's ABI

VARIABLE caught
diagnosticVars == caught

\* -------------------------------------------------------- the cause chain ---

\* The objects of the walk along "cause" that takes at most limit of them and
\* stops where it has been.
Walk(failure, limit) ==
    LET path[n \in 1..limit] ==
            IF n = 1 THEN <<failure.head>>
            ELSE LET before == path[n - 1]
                     next == failure.cause[Last(before)]
                 IN  IF next = NoCause \/ next \in Range(before)
                     THEN before ELSE Append(before, next)
    IN  path[limit]

ErrorChain(failure) ==
    LET path == Walk(failure, ChainLimit) IN [i \in DOMAIN path |-> failure.link[path[i]]]

\* The first link that has something, found[i] being the set of what link i has.
FirstOf(found) ==
    LET hits == {i \in DOMAIN found : found[i] # {}}
    IN  IF hits = {} THEN {} ELSE found[CHOOSE i \in hits : \A j \in hits : i <= j]

FirstCode(chain) == FirstOf([i \in DOMAIN chain |-> chain[i].codes])
FirstStatus(chain) == FirstOf([i \in DOMAIN chain |-> chain[i].statuses])

Capped(ms) == IF ms < MaxRetryAfterMs THEN ms ELSE MaxRetryAfterMs

GetRetryAfterMs(chain) ==
    LET after(link) ==
            IF \E ms \in link.afterMs : ms >= 0 THEN {Capped(ms) : ms \in link.afterMs}
            ELSE {Capped(1000 * s) : s \in {t \in link.afterSec : t >= 0}}
    IN  FirstOf([i \in DOMAIN chain |-> after(chain[i])])

FirstRevertData(chain) == FirstOf([i \in DOMAIN chain |-> {chain[i].data} \ {"none"}])

\* What classify() can tell of the chain.
RawOf(chain) ==
    [marks |-> UNION {chain[i].marks : i \in DOMAIN chain},
     codes |-> UNION {chain[i].codes : i \in DOMAIN chain},
     statuses |-> UNION {chain[i].statuses : i \in DOMAIN chain},
     argument |-> chain[1].name \in {"TypeError", "RangeError"}]

\* ------------------------------------------------------------ what is told ---

SafeCauseNameAsGiven(name) == name

SafeCauseName(name) == IF name \in SafeCauseNames THEN name ELSE "Error"

\* The cause an SdkError carries: a name from the list and a numeric code of each
\* object, never its message.
ToToriumErrorCause(failure) ==
    LET path == Walk(failure, CauseLimit)
    IN  [i \in DOMAIN path |-> [name |-> SafeCauseName(failure.link[path[i]].name),
                                codes |-> failure.link[path[i]].codes]]

\* normalizeToriumError of a caught error: IsTransient gets the first code and the
\* first status, the category looks at all of them.
Normalized(failure, kind, fallback) ==
    LET chain == ErrorChain(failure)
        category == Classify(RawOf(chain), fallback)
        retryable == IsTransient(category, FirstCode(chain), FirstStatus(chain))
    IN  [category |-> category, retryable |-> retryable,
         safeToRetry |-> kind = "read" /\ retryable,
         retryAfterMs |-> GetRetryAfterMs(chain), revertData |-> FirstRevertData(chain),
         errorName |-> {},
         cause |-> ToToriumErrorCause(failure)]

\* ----------------------------------------------------- a simulated request ---

\* contractErrorCategories: none of these errors is ever worth a retry.
ContractErrorCategory(code) ==
    CASE code = "CONFIG_INVALID" -> "configuration"
      [] code = "VERSION_MISMATCH" -> "compatibility"
      [] code = "RESPONSE_INVALID" -> "rpc"
      [] code = "REVERTED" -> "revert"
      [] OTHER -> "contract"

DecodeToriumContractRevert(data) == {data} \cap KnownErrors

ContractError(failure, code, data) ==
    [category |-> ContractErrorCategory(code), retryable |-> FALSE, safeToRetry |-> FALSE,
     retryAfterMs |-> {}, revertData |-> {data},
     errorName |-> DecodeToriumContractRevert(data), cause |-> ToToriumErrorCause(failure)]

\* Data shorter than a selector is not the revert of a contract.
ExtractToriumRevertData(failure) ==
    LET path == Walk(failure, RevertDepth)
        hits == {i \in DOMAIN path : failure.link[path[i]].data \notin {"none", "0x"}}
    IN  IF hits = {} THEN "none"
        ELSE failure.link[path[CHOOSE i \in hits : \A j \in hits : i <= j]].data

SimulateToriumContractRequest(failure) ==
    LET data == ExtractToriumRevertData(failure)
    IN  IF data # "none" THEN ContractError(failure, "REVERTED", data)
        ELSE Normalized(failure, "read", "simulation")

\* ------------------------------------------------------------- behaviours ---

DiagnosticsInit == caught = <<>>

\* The objects are interchangeable: one of them is the caught error.
Outermost == CHOOSE o \in ErrorObjects : TRUE

Catch ==
    /\ caught = <<>>
    /\ \E link \in [ErrorObjects -> Links], cause \in [ErrorObjects -> ErrorObjects \cup {NoCause}] :
        caught' = <<[head |-> Outermost, link |-> link, cause |-> cause]>>

DiagnosticsNext == Catch

\* -------------------------------------------------------------- properties ---

\* Whatever a caught error carries and however its causes are linked, an SdkError
\* shows only names from the list of safeCauseNames, of at most CauseLimit objects,
\* and asks for a wait of at most MaxRetryAfterMs.
ToldIsRedacted ==
    caught # <<>> =>
        \A error \in {Normalized(caught[1], "write", "unknown"),
                      SimulateToriumContractRequest(caught[1])} :
            /\ Len(error.cause) <= CauseLimit
            /\ \A i \in DOMAIN error.cause : error.cause[i].name \in SafeCauseNames \cup {"Error"}
            /\ \A ms \in error.retryAfterMs : ms \in 0..MaxRetryAfterMs

\* A simulated call that reverted with data is reported as a revert and not tried
\* again, also when the same error carries the status or the code of a failure that
\* would be; an error is named only after data the contract's ABI knows, and then it
\* is the data the report carries; and what is tried again carries no revert of a
\* contract.
RevertsAreFinal ==
    caught # <<>> =>
        LET error == SimulateToriumContractRequest(caught[1])
        IN  /\ ExtractToriumRevertData(caught[1]) # "none" =>
                error.category = "revert" /\ ~error.safeToRetry
            /\ error.errorName \subseteq error.revertData \cap KnownErrors
            /\ error.safeToRetry => error.revertData \subseteq {"0x"}

\* A rejection by the user anywhere on the chain is final, for a read as well.
RejectionIsFinal ==
    \A i \in DOMAIN caught :
        UserRejected \in RawOf(ErrorChain(caught[i])).codes =>
            ~Normalized(caught[i], "read", "unknown").retryable

\* What the SDK tells of an error is bounded and redacted, and what it says may be
\* tried again was neither reverted by a contract nor rejected by the user.
DiagnosticsAreSafe == ToldIsRedacted /\ RevertsAreFinal /\ RejectionIsFinal
=============================================================================
