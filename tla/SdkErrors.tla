------------------------------ MODULE SdkErrors ------------------------------
(* Errors of the SDK (packages/torium-sdk/src/errors.ts): how a raw error, the
   head of a chain of causes, becomes a categorised error that says whether the
   failed operation may be tried again.

   A raw error is what classify() can tell about its chain of causes:
     marks     the categories whose name or message patterns some link matches
     codes     the numeric "code" values on the chain
     statuses  the numeric "status" values on the chain
     argument  the first link is a TypeError or a RangeError
   A chain carries at most one code and one status in the instances checked, so
   firstNumber() is the only member of the set. *)
EXTENDS Naturals, Sequences, FiniteSets

UserRejected == 4001
LimitExceeded == 32005
InternalError == 32603
ResourceUnavailable == 32002
TooManyRequests == 429

\* The order in which classify() tries the categories: the first match wins.
Precedence ==
    <<"cancellation", "timeout", "rate-limit", "wrong-chain", "configuration",
      "replacement", "nonce", "fee", "funds", "revert", "transport", "rpc",
      "simulation", "contract">>

Matches(raw) ==
    raw.marks
        \cup {c \in {"cancellation"} : UserRejected \in raw.codes}
        \cup {c \in {"rate-limit"} : LimitExceeded \in raw.codes
                                        \/ TooManyRequests \in raw.statuses}
        \cup {c \in {"configuration"} : raw.argument}
        \cup {c \in {"transport"} : raw.statuses # {}}
        \cup {c \in {"rpc"} : raw.codes # {}}

Classify(raw, fallback) ==
    IF Matches(raw) = {}
    THEN fallback
    ELSE Precedence[CHOOSE i \in DOMAIN Precedence :
                        /\ Precedence[i] \in Matches(raw)
                        /\ \A j \in 1..(i - 1) : Precedence[j] \notin Matches(raw)]

IsTransient(category, codes, statuses) ==
    \/ category \in {"rate-limit", "timeout"}
    \/ category = "transport"
          /\ statuses \subseteq {408, TooManyRequests, 500, 502, 503, 504}
    \/ category = "rpc"
          /\ codes \cap {InternalError, ResourceUnavailable, LimitExceeded} # {}

\* A ToriumSdkError. "rpcAborted" is the code TORIUM_RPC_ABORTED, which
\* normalize() of a signal-only operation passes through.
SdkError(category, retryable, safeToRetry) ==
    [category |-> category, retryable |-> retryable,
     safeToRetry |-> safeToRetry, rpcAborted |-> FALSE]

NormalizeToriumError(raw, kind, fallback) ==
    LET category == Classify(raw, fallback)
        retryable == IsTransient(category, raw.codes, raw.statuses)
    IN  SdkError(category, retryable, kind = "read" /\ retryable)

\* ToriumEndpointValidationError: safe to retry whenever it is retryable, which
\* requestRpc() takes from the normalised cause.
EndpointCategory(code) ==
    CASE code = "CONFIG_INVALID" -> "configuration"
      [] code \in {"CHAIN_ID_MISMATCH", "NETWORK_ID_MISMATCH"} -> "wrong-chain"
      [] code = "RPC_ABORTED" -> "cancellation"
      [] code = "RPC_REQUEST_FAILED" -> "transport"
      [] code = "RPC_RESPONSE_INVALID" -> "rpc"
      [] OTHER -> "compatibility"

EndpointError(code) ==
    [SdkError(EndpointCategory(code), code = "RPC_REQUEST_FAILED",
              code = "RPC_REQUEST_FAILED")
        EXCEPT !.rpcAborted = (code = "RPC_ABORTED")]

RequestFailed(raw) ==
    LET cause == NormalizeToriumError(raw, "read", "transport")
    IN  SdkError(cause.category, cause.retryable, cause.retryable)

\* controlError(): a timeout is retryable but never safe to retry.
ControlError(category) == SdkError(category, category = "timeout", FALSE)

EnforceNothing(error, kind) == error

\* enforceOperationSafety(): only a read may be safe to retry.
EnforceOperationSafety(error, kind) ==
    IF kind = "read" THEN error ELSE [error EXCEPT !.safeToRetry = FALSE]
=============================================================================
