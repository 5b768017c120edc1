------------------------- MODULE FaucetStoreProofs -------------------------
(***************************************************************************)
(* What one journal entry does to a store, for every value of the          *)
(* constants: it keeps the type, and a legal one keeps the books.          *)
(***************************************************************************)
EXTENDS FaucetStore, FiniteSetTheorems, TLAPS

USE DEF Never

\* addSpent returns a natural number.
LEMMA AddSpentType ==
    ASSUME NEW c \in Int, NEW a \in Int
    PROVE  AddSpent(c, a) \in Nat
BY DEF AddSpent

\* The day of an instant is one of the days.
LEMMA BudgetDayType ==
    ASSUME NEW t \in Times
    PROVE  BudgetDay(t) \in Days
BY DEF Days

\* applyEntry of an accepted entry keeps the type of the store.
LEMMA ApplyAcceptedType ==
    ASSUME NEW s \in Store, NEW e \in Entry, e.type = "accepted"
    PROVE  ApplyAccepted(s, e) \in Store
<1> DEFINE day == BudgetDay(e.at)
<1>1. e.id \in Ids /\ e.address \in Addresses /\ e.at \in Times /\ e.key \in ScopedKey
  BY DEF Entry
<1>2. day \in Days
  BY <1>1, BudgetDayType
<1>3. s.spent[day] \in Nat
  BY <1>2 DEF Store
<1>4. AddSpent(s.spent[day], Amount) \in Nat
  BY <1>3, ProfileAssumption DEF AddSpent
<1>5. [status |-> "queued", at |-> e.at, sub |-> NoSubmission] \in Request
  BY <1>1 DEF Request, Status
<1>6. [s.requests EXCEPT ![e.id] = [status |-> "queued", at |-> e.at, sub |-> NoSubmission]]
        \in [Ids -> Request]
  BY <1>1, <1>5 DEF Store
<1>7. Append(s.order, e.id) \in Seq(Ids)
  BY <1>1 DEF Store
<1>8. [s.idempotency EXCEPT ![e.key] = e.id] \in [ScopedKey -> Ids \cup {NoId}]
  BY <1>1 DEF Store
<1>9. [s.lastAccepted EXCEPT ![e.address] = e.at] \in [Addresses -> Times \cup {Never}]
  BY <1>1 DEF Store
<1>10. [s.dailyCount EXCEPT ![e.address][day] = @ + 1] \in [Addresses -> [Days -> Nat]]
  BY <1>1, <1>2 DEF Store
<1>11. [s.spent EXCEPT ![day] = AddSpent(@, Amount)] \in [Days -> Nat]
  BY <1>2, <1>4 DEF Store
<1> QED
  BY <1>6, <1>7, <1>8, <1>9, <1>10, <1>11, Zenon DEF ApplyAccepted, Store

\* applyEntry of a failed entry keeps the type of the store.
LEMMA ApplyFailedType ==
    ASSUME NEW s \in Store, NEW e \in Entry, e.type = "failed"
    PROVE  ApplyFailed(s, e) \in Store
<1> DEFINE day == BudgetDay(s.requests[e.id].at)
<1>1. e.id \in Ids /\ s.requests[e.id] \in Request
  BY DEF Entry, Store
<1>2. day \in Days
  BY <1>1, BudgetDayType DEF Request
<1>3. s.spent[day] \in Nat
  BY <1>2 DEF Store
<1>4. AddSpent(s.spent[day], -Amount) \in Nat
  BY <1>3, ProfileAssumption DEF AddSpent
<1>5. [s.spent EXCEPT ![day] = AddSpent(@, -Amount)] \in [Days -> Nat]
  BY <1>2, <1>4 DEF Store
<1>6. [s.requests EXCEPT ![e.id].status = "failed"] \in [Ids -> Request]
  BY <1>1, Zenon DEF Store, Request, Status
<1> QED
  BY <1>5, <1>6, Zenon DEF ApplyFailed, Store

\* applyEntry keeps the type of the store, whatever the entry.
LEMMA ApplyEntryType ==
    ASSUME NEW s \in Store, NEW e \in Entry
    PROVE  ApplyEntry(s, e) \in Store
<1>1. CASE e.type = "accepted"
  BY <1>1, ApplyAcceptedType DEF ApplyEntry
<1>2. CASE e.type = "failed"
  BY <1>2, ApplyFailedType DEF ApplyEntry
<1>3. CASE e.type = "submitted"
  <2> DEFINE r == [s.requests[e.id] EXCEPT !.status = "submitted", !.sub = e.sub]
  <2>1. e.id \in Ids /\ e.sub \in Submissions /\ s.requests[e.id] \in Request
    BY <1>3 DEF Entry, Store
  <2>2. r \in Request
    BY <2>1, Zenon DEF Request, Status
  <2>3. [s.requests EXCEPT ![e.id] = r] \in [Ids -> Request]
    BY <2>1, <2>2 DEF Store
  <2> QED
    BY <1>3, <2>3, Zenon DEF ApplyEntry, Store
<1>4. CASE e.type = "confirmed"
  <2>1. e.id \in Ids /\ s.requests[e.id] \in Request
    BY <1>4 DEF Entry, Store
  <2>2. [s.requests EXCEPT ![e.id].status = "confirmed"] \in [Ids -> Request]
    BY <2>1, Zenon DEF Store, Request, Status
  <2> QED
    BY <1>4, <2>2, Zenon DEF ApplyEntry, Store
<1>5. CASE e.type \in {"paused", "resumed", "refill"}
  BY <1>5, Zenon DEF ApplyEntry, Store
<1>6. CASE e.type = "rotated"
  <2>1. e.old \in Signers
    BY <1>6 DEF Entry
  <2> QED
    BY <1>6, <2>1, Zenon DEF ApplyEntry, Store
<1> QED
  BY <1>1, <1>2, <1>3, <1>4, <1>5, <1>6 DEF Entry
-----------------------------------------------------------------------------
\* The requests that hold a day's budget are finitely many.
LEMMA HeldFinite ==
    ASSUME NEW s, NEW d
    PROVE  /\ IsFiniteSet(Held(s, d))
           /\ Cardinality(Held(s, d)) \in Nat
<1>1. Held(s, d) \subseteq Ids
  BY DEF Held
<1>2. IsFiniteSet(Held(s, d))
  BY <1>1, IdAssumption, FS_Subset
<1> QED
  BY <1>2, FS_CardinalityType

\* One more or one fewer unit of the amount.
LEMMA AmountSteps ==
    ASSUME NEW n \in Nat
    PROVE  /\ Amount * (n + 1) = Amount * n + Amount
           /\ Amount * n \in Nat
           /\ n > 0 => Amount * n - Amount = Amount * (n - 1) /\ Amount * n >= Amount
BY ProfileAssumption

\* An accepted request adds itself, and its amount, to its day.
LEMMA AcceptConserves ==
    ASSUME NEW s \in Store, NEW e \in Entry, e.type = "accepted",
           s.requests[e.id].status = "absent", Conserved(s)
    PROVE  Conserved(ApplyAccepted(s, e))
<1> DEFINE t == ApplyAccepted(s, e)
           day == BudgetDay(e.at)
<1>1. e.id \in Ids /\ e.at \in Times
  BY DEF Entry
<1>2. day \in Days
  BY <1>1, BudgetDayType
<1>3. /\ t.requests = [s.requests EXCEPT
              ![e.id] = [status |-> "queued", at |-> e.at, sub |-> NoSubmission]]
      /\ t.spent = [s.spent EXCEPT ![day] = AddSpent(@, Amount)]
  BY DEF ApplyAccepted, Store
<1>4. /\ Held(t, day) = Held(s, day) \cup {e.id}
      /\ e.id \notin Held(s, day)
  BY <1>1, <1>3 DEF Held, Store
<1>5. Cardinality(Held(t, day)) = Cardinality(Held(s, day)) + 1
  BY <1>4, HeldFinite, FS_AddElement, Zenon
<1>6. t.spent[day] = s.spent[day] + Amount
  BY <1>2, <1>3, ProfileAssumption DEF AddSpent, Store
<1>7. t.spent[day] = Amount * Cardinality(Held(t, day))
  BY <1>2, <1>5, <1>6, HeldFinite, AmountSteps DEF Conserved
<1>8. ASSUME NEW d \in Days, d # day
      PROVE  t.spent[d] = Amount * Cardinality(Held(t, d))
  <2>1. Held(t, d) = Held(s, d)
    BY <1>1, <1>3, <1>8 DEF Held, Store
  <2>2. t.spent[d] = s.spent[d]
    BY <1>2, <1>3, <1>8 DEF Store
  <2> QED
    BY <2>1, <2>2 DEF Conserved
<1> QED
  BY <1>7, <1>8 DEF Conserved

\* A pending request that fails gives its amount back to the day it was
\* accepted on.
LEMMA FailConserves ==
    ASSUME NEW s \in Store, NEW e \in Entry, e.type = "failed",
           s.requests[e.id].status \in Pending, Conserved(s)
    PROVE  Conserved(ApplyFailed(s, e))
<1> DEFINE t == ApplyFailed(s, e)
           day == BudgetDay(s.requests[e.id].at)
<1>1. e.id \in Ids /\ s.requests[e.id] \in Request
  BY DEF Entry, Store
<1>2. day \in Days
  BY <1>1, BudgetDayType DEF Request
<1>3. /\ t.requests = [s.requests EXCEPT ![e.id].status = "failed"]
      /\ t.spent = [s.spent EXCEPT ![day] = AddSpent(@, -Amount)]
  BY DEF ApplyFailed, Store
<1>4. /\ Held(t, day) = Held(s, day) \ {e.id}
      /\ e.id \in Held(s, day)
  BY <1>1, <1>3 DEF Held, Store, Pending, Request
<1>5. Cardinality(Held(t, day)) = Cardinality(Held(s, day)) - 1
  <2>1. IsFiniteSet(Held(s, day))
    BY HeldFinite
  <2>2. Cardinality(Held(s, day) \ {e.id}) = Cardinality(Held(s, day)) - 1
    BY <1>4, <2>1, FS_RemoveElement, Zenon
  <2> QED
    BY <1>4, <2>2
<1>6. Cardinality(Held(s, day)) > 0
  BY <1>4, HeldFinite, FS_EmptySet
<1>7. s.spent[day] = Amount * Cardinality(Held(s, day)) /\ s.spent[day] >= Amount
  BY <1>2, <1>6, HeldFinite, AmountSteps DEF Conserved
<1>8. t.spent[day] = s.spent[day] - Amount
  BY <1>2, <1>3, <1>7, ProfileAssumption DEF AddSpent, Store
<1>9. t.spent[day] = Amount * Cardinality(Held(t, day))
  BY <1>5, <1>6, <1>7, <1>8, HeldFinite, AmountSteps
<1>10. ASSUME NEW d \in Days, d # day
       PROVE  t.spent[d] = Amount * Cardinality(Held(t, d))
  <2>1. Held(t, d) = Held(s, d)
    BY <1>1, <1>3, <1>10 DEF Held, Store, Request
  <2>2. t.spent[d] = s.spent[d]
    BY <1>2, <1>3, <1>10 DEF Store
  <2> QED
    BY <2>1, <2>2 DEF Conserved
<1> QED
  BY <1>9, <1>10 DEF Conserved

\* A legal entry keeps spentByDay equal to what the unfailed requests hold.
LEMMA ApplyConserves ==
    ASSUME NEW s \in Store, NEW e \in Entry, Legal(s, e), Conserved(s)
    PROVE  Conserved(ApplyEntry(s, e))
<1>1. CASE e.type = "accepted"
  BY <1>1, AcceptConserves DEF ApplyEntry, Legal
<1>2. CASE e.type = "failed"
  BY <1>2, FailConserves DEF ApplyEntry, Legal
<1>3. CASE e.type \in {"submitted", "confirmed"}
  <2> DEFINE t == ApplyEntry(s, e)
  <2>1. e.id \in Ids /\ s.requests[e.id] \in Request
    BY <1>3 DEF Entry, Store
  <2>2. /\ t.spent = s.spent
        /\ \A id \in Ids : id # e.id => t.requests[id] = s.requests[id]
        /\ t.requests[e.id].status = e.type
        /\ t.requests[e.id].at = s.requests[e.id].at
    BY <1>3, <2>1 DEF ApplyEntry, Store, Request
  <2>3. s.requests[e.id].status \in Pending
    BY <1>3 DEF Legal
  <2>4. \A d \in Days : Held(t, d) = Held(s, d)
    BY <1>3, <2>1, <2>2, <2>3 DEF Held, Pending
  <2> QED
    BY <2>2, <2>4 DEF Conserved
<1>4. CASE e.type \in {"paused", "resumed", "refill", "rotated"}
  <2>1. /\ ApplyEntry(s, e).spent = s.spent
        /\ ApplyEntry(s, e).requests = s.requests
    BY <1>4 DEF ApplyEntry, Store
  <2> QED
    BY <2>1 DEF Conserved, Held
<1> QED
  BY <1>1, <1>2, <1>3, <1>4 DEF Entry

\* The store NewStore starts from is well-formed and owes nothing.
LEMMA EmptyStoreConserved ==
    EmptyStore \in Store /\ Conserved(EmptyStore)
<1>1. NoRequest \in Request
  BY ProfileAssumption DEF NoRequest, Request, Status, Times
<1>2. EmptyStore \in Store
  BY <1>1 DEF EmptyStore, Store
<1>3. \A d \in Days : Held(EmptyStore, d) = {}
  BY DEF Held, EmptyStore, NoRequest
<1>4. Conserved(EmptyStore)
  <2>1. \A d \in Days : Cardinality(Held(EmptyStore, d)) = 0
    BY <1>3, FS_EmptySet
  <2>2. \A d \in Days : EmptyStore.spent[d] = 0
    BY DEF EmptyStore
  <2> QED
    BY <2>1, <2>2, ProfileAssumption DEF Conserved
<1> QED
  BY <1>2, <1>4

\* An entry changes the status of the request it names and of no other.
LEMMA ApplyStatus ==
    ASSUME NEW s \in Store, NEW e \in Entry
    PROVE  /\ e.type \in {"paused", "resumed", "refill", "rotated"} =>
                ApplyEntry(s, e).requests = s.requests
           /\ e.type \in {"accepted", "submitted", "confirmed", "failed"} =>
                /\ e.id \in Ids
                /\ \A id \in Ids : id # e.id =>
                      ApplyEntry(s, e).requests[id] = s.requests[id]
                /\ ApplyEntry(s, e).requests[e.id].status =
                      IF e.type = "accepted" THEN "queued" ELSE e.type
<1>1. CASE e.type \in {"paused", "resumed", "refill", "rotated"}
  BY <1>1 DEF ApplyEntry, Store
<1>2. CASE e.type = "accepted"
  BY <1>2, Zenon DEF ApplyEntry, ApplyAccepted, Store, Entry
<1>3. CASE e.type \in {"submitted", "confirmed", "failed"}
  <2>1. e.id \in Ids /\ s.requests[e.id] \in Request
    BY <1>3 DEF Entry, Store
  <2> QED
    BY <1>3, <2>1 DEF ApplyEntry, ApplyFailed, Store, Request
<1> QED
  BY <1>1, <1>2, <1>3 DEF Entry

\* No day is charged more than the budget.
InBudget(s) == \A d \in Days : s.spent[d] <= Budget

\* What Accept asks before it charges a request.
Affordable(s, e) == e.type = "accepted" => ~BudgetSpent(s, e.at)

\* An affordable entry keeps every day within the budget.
LEMMA ApplyInBudget ==
    ASSUME NEW s \in Store, NEW e \in Entry, Affordable(s, e), InBudget(s)
    PROVE  InBudget(ApplyEntry(s, e))
<1>1. CASE e.type = "accepted"
  <2> DEFINE day == BudgetDay(e.at)
  <2>1. day \in Days
    BY <1>1, BudgetDayType DEF Entry
  <2>2. s.spent \in [Days -> Nat] /\ s.spent[day] + Amount <= Budget
    BY <1>1, <2>1, ProfileAssumption DEF Affordable, BudgetSpent, Store
  <2>3. ApplyEntry(s, e).spent = [s.spent EXCEPT ![day] = AddSpent(@, Amount)]
    BY <1>1, Zenon DEF ApplyEntry, ApplyAccepted, Store
  <2> QED
    BY <2>1, <2>2, <2>3, ProfileAssumption DEF InBudget, AddSpent
<1>2. CASE e.type = "failed"
  <2> DEFINE day == BudgetDay(s.requests[e.id].at)
  <2>1. s.spent \in [Days -> Nat]
    BY DEF Store
  <2>2. ApplyEntry(s, e).spent = [s.spent EXCEPT ![day] = AddSpent(@, -Amount)]
    BY <1>2, Zenon DEF ApplyEntry, ApplyFailed, Store
  <2> QED
    BY <2>1, <2>2, ProfileAssumption DEF InBudget, AddSpent
<1>3. CASE e.type \notin {"accepted", "failed"}
  <2>1. ApplyEntry(s, e).spent = s.spent
    BY <1>3 DEF ApplyEntry, Store, Entry
  <2> QED
    BY <2>1 DEF InBudget
<1> QED
  BY <1>1, <1>2, <1>3
=============================================================================
