-------------------------- MODULE RequestLifecycle --------------------------
(***************************************************************************)
(* What the public faucet promises about a funding request, without        *)
(* queues, handlers, journal or restarts: a request is accepted against    *)
(* the budget of one day, may be submitted, and ends confirmed or failed;  *)
(* what it reserved counts against that day until it fails, and the        *)
(* reservations of a day never exceed the budget.                          *)
(***************************************************************************)
EXTENDS Integers, FiniteSets

CONSTANTS Ids, Days, Amount, Budget

VARIABLES status,  \* where each request stands
          day      \* the day whose budget it draws on

vars == <<status, day>>

\* The requests that hold a part of the budget of day d.
Holding(d) ==
    {id \in Ids : /\ status[id] \in {"queued", "submitted", "confirmed"}
                  /\ day[id] = d}

Init ==
    /\ status = [id \in Ids |-> "absent"]
    /\ day \in [Ids -> Days]

Accept(id, d) ==
    /\ status[id] = "absent"
    /\ Amount * Cardinality(Holding(d)) + Amount <= Budget
    /\ status' = [status EXCEPT ![id] = "queued"]
    /\ day' = [day EXCEPT ![id] = d]

Submit(id) ==
    /\ status[id] = "queued"
    /\ status' = [status EXCEPT ![id] = "submitted"]
    /\ UNCHANGED day

Confirm(id) ==
    /\ status[id] = "submitted"
    /\ status' = [status EXCEPT ![id] = "confirmed"]
    /\ UNCHANGED day

Fail(id) ==
    /\ status[id] \in {"queued", "submitted"}
    /\ status' = [status EXCEPT ![id] = "failed"]
    /\ UNCHANGED day

Next ==
    \E id \in Ids :
        \/ \E d \in Days : Accept(id, d)
        \/ Submit(id)
        \/ Confirm(id)
        \/ Fail(id)

Spec == Init /\ [][Next]_vars
=============================================================================
