---------------------------- MODULE FaucetStore ----------------------------
(***************************************************************************)
(* The persistent-state core of the public faucet, publicfaucet/store.go,  *)
(* as pure functions on a store value: the decision Accept takes, and the  *)
(* effect applyEntry gives to each kind of journal entry.  The same        *)
(* ApplyEntry is used by live operations and by replay, as in the code.    *)
(*                                                                         *)
(* Amounts are base units.  A submission stands for the triple (hash,      *)
(* nonce, signer) that a tx-submitted entry carries.  Request identifiers  *)
(* are 128-bit random values: the model never hands one out twice.         *)
(***************************************************************************)
EXTENDS Integers, Sequences, FiniteSets

CONSTANTS Ids,          \* request identifiers
          NoId,         \* no request
          Addresses,    \* recipient addresses
          ClientKeys,   \* client-chosen idempotency keys
          Signers,      \* hot-signer addresses
          Submissions,  \* (hash, nonce, signer) triples
          NoSubmission, \* the request has not been signed
          MaxTime,      \* bound: the clock runs over 0..MaxTime
          DayLength,    \* clock units per UTC day
          Cooldown,     \* profile.CooldownPerAddress
          DailyCap,     \* profile.PerAddressDailyCap
          Amount,       \* profile.AmountPerRequest
          Budget        \* profile.GlobalDailyBudget

\* What Profile.Validate (policy.go) guarantees of the numbers.
ASSUME ProfileAssumption ==
    /\ MaxTime \in Nat
    /\ DayLength \in Nat \ {0}
    /\ Cooldown \in Nat \ {0}
    /\ DailyCap \in Nat \ {0}
    /\ Amount \in Nat \ {0}
    /\ Budget \in Nat
    /\ Amount <= Budget

ASSUME IdAssumption ==
    /\ IsFiniteSet(Ids)
    /\ NoId \notin Ids
    /\ NoSubmission \notin Submissions
-----------------------------------------------------------------------------
Times == 0..MaxTime

Never == -1

\* The UTC day an instant belongs to.
BudgetDay(at) == at \div DayLength

Days == {BudgetDay(t) : t \in Times}

Status == {"absent", "queued", "submitted", "confirmed", "failed"}

Pending == {"queued", "submitted"}

Terminal == {"confirmed", "failed"}

Request == [status : Status, at : Times, sub : Submissions \cup {NoSubmission}]

NoRequest == [status |-> "absent", at |-> 0, sub |-> NoSubmission]

\* A client key is scoped to its address and UTC day.
ScopedKey == Addresses \X Days \X ClientKeys

IdempotencyKeyFor(key, address, at) == <<address, BudgetDay(at), key>>

Store == [requests     : [Ids -> Request],
          order        : Seq(Ids),
          idempotency  : [ScopedKey -> Ids \cup {NoId}],
          lastAccepted : [Addresses -> Times \cup {Never}],
          dailyCount   : [Addresses -> [Days -> Nat]],
          spent        : [Days -> Nat],
          paused       : BOOLEAN,
          fenced       : SUBSET Signers]

EmptyStore == [requests     |-> [id \in Ids |-> NoRequest],
               order        |-> <<>>,
               idempotency  |-> [k \in ScopedKey |-> NoId],
               lastAccepted |-> [a \in Addresses |-> Never],
               dailyCount   |-> [a \in Addresses |-> [d \in Days |-> 0]],
               spent        |-> [d \in Days |-> 0],
               paused       |-> FALSE,
               fenced       |-> {}]
-----------------------------------------------------------------------------
(* Journal entries. *)

AcceptedEntry(id, key, address, at) ==
    [type |-> "accepted", id |-> id, address |-> address, at |-> at,
     key |-> IdempotencyKeyFor(key, address, at)]

SubmittedEntry(id, sub) == [type |-> "submitted", id |-> id, sub |-> sub]

ConfirmedEntry(id) == [type |-> "confirmed", id |-> id]

FailedEntry(id) == [type |-> "failed", id |-> id]

PausedEntry == [type |-> "paused"]

ResumedEntry == [type |-> "resumed"]

RefillEntry == [type |-> "refill"]

Entry ==
    [type : {"accepted"}, id : Ids, address : Addresses, at : Times, key : ScopedKey]
        \cup [type : {"submitted"}, id : Ids, sub : Submissions]
        \cup [type : {"confirmed", "failed"}, id : Ids]
        \cup [type : {"paused", "resumed", "refill"}]
        \cup [type : {"rotated"}, old : Signers, new : Signers]

\* addSpent never leaves a negative total.
AddSpent(current, amount) ==
    IF current + amount < 0 THEN 0 ELSE current + amount

ApplyAccepted(s, e) ==
    [s EXCEPT !.requests[e.id] = [status |-> "queued", at |-> e.at,
                                  sub |-> NoSubmission],
              !.order = Append(@, e.id),
              !.idempotency[e.key] = e.id,
              !.lastAccepted[e.address] = e.at,
              !.dailyCount[e.address][BudgetDay(e.at)] = @ + 1,
              !.spent[BudgetDay(e.at)] = AddSpent(@, Amount)]

\* Mutant: a failed request keeps its reservation.
ApplyFailedKeeps(s, e) == [s EXCEPT !.requests[e.id].status = "failed"]

\* A failed request releases its reservation on the day it was accepted.
ApplyFailed(s, e) ==
    [s EXCEPT !.requests[e.id].status = "failed",
              !.spent[BudgetDay(s.requests[e.id].at)] = AddSpent(@, -Amount)]

ApplyEntry(s, e) ==
    CASE e.type = "accepted"  -> ApplyAccepted(s, e)
      [] e.type = "submitted" -> [s EXCEPT !.requests[e.id] =
                                   [@ EXCEPT !.status = "submitted", !.sub = e.sub]]
      [] e.type = "confirmed" -> [s EXCEPT !.requests[e.id].status = "confirmed"]
      [] e.type = "failed"    -> ApplyFailed(s, e)
      [] e.type = "paused"    -> [s EXCEPT !.paused = TRUE]
      [] e.type = "resumed"   -> [s EXCEPT !.paused = FALSE]
      [] e.type = "rotated"   -> [s EXCEPT !.fenced = @ \cup {e.old}]
      [] e.type = "refill"    -> s

\* The entries applyEntry refuses: they name a request the journal never
\* accepted.  Replay then fails instead of guessing.
Explains(s, e) ==
    e.type \in {"submitted", "confirmed", "failed"} =>
        s.requests[e.id].status # "absent"
-----------------------------------------------------------------------------
(* What Accept decides, in the order the code asks. *)

Replayed(s, key, address, at) ==
    s.idempotency[IdempotencyKeyFor(key, address, at)] # NoId

InCooldown(s, address, at) ==
    /\ s.lastAccepted[address] # Never
    /\ at < s.lastAccepted[address] + Cooldown

CapReached(s, address, at) ==
    s.dailyCount[address][BudgetDay(at)] >= DailyCap

BudgetSpent(s, at) == s.spent[BudgetDay(at)] + Amount > Budget

Denied(s, address, at) ==
    \/ s.paused
    \/ InCooldown(s, address, at)
    \/ CapReached(s, address, at)
    \/ BudgetSpent(s, at)

\* Mutant: a restart forgets the submitted requests.
PendingIdsQueued(s) == {id \in Ids : s.requests[id].status = "queued"}

PendingIds(s) == {id \in Ids : s.requests[id].status \in Pending}

\* The order in which PendingRequests lists requests: by acceptance time, and
\* among equals by position in the journal.
Before(s, x, y) ==
    LET position(id) == CHOOSE i \in DOMAIN s.order : s.order[i] = id
    IN \/ s.requests[x].at < s.requests[y].at
       \/ /\ s.requests[x].at = s.requests[y].at
          /\ position(x) < position(y)
-----------------------------------------------------------------------------
(* Bookkeeping predicates the properties are stated with. *)

\* The requests accepted on day d that have not failed.
Held(s, d) ==
    {id \in Ids : /\ s.requests[id].status \in {"queued", "submitted", "confirmed"}
                  /\ BudgetDay(s.requests[id].at) = d}

Conserved(s) == \A d \in Days : s.spent[d] = Amount * Cardinality(Held(s, d))

\* The entries the service appends: a request is accepted once, and only a
\* pending one is submitted, confirmed or failed.
Legal(s, e) ==
    /\ e.type = "accepted" => s.requests[e.id].status = "absent"
    /\ e.type \in {"submitted", "confirmed", "failed"} =>
          s.requests[e.id].status \in Pending
=============================================================================
