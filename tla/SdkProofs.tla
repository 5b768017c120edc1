------------------------------ MODULE SdkProofs ------------------------------
(* Proofs about the SDK.

   SdkActions, for any calls that run side by side, any accounts, values and errors:
   what the SDK hands to the wallet was authorised, is never sent after its failure
   was told, and never by an operation that is said to be safe to retry.  The events
   a call tells are counted from their shape (Story): a start, one retry for each
   further attempt, and an end.

   SdkEndpoint, for any networks, errors and options: the verdict on an endpoint is
   true of it.  The invariant says what each answer has established (Established) of
   a node that goes on or is replaced between any two of them. *)
EXTENDS SdkActions, SdkEndpoint, FiniteSetTheorems, TLAPS

\* ------------------------------------------------------ inductive invariant ---

Phases == {"idle", "attempt", "backoff", "succeeded", "failed"}
Places == {"unstarted", "settled", "answer", "chainId", "receipt", "call", "reads",
           "authorize", "send"}
Reports == [from : Accounts \cup {"nobody"}, value : Nat, cost : Nat, nonce : Int]

SdkTypes ==
    /\ phase \in [Calls -> Phases]
    /\ plan \in [Calls -> Plans]
    /\ attempt \in [Calls -> Attempts]
    /\ aborted \in [Calls -> BOOLEAN]
    /\ failure = [c \in Calls |-> failure[c]]
    /\ task \in [Calls -> [Attempts -> Places]]
    /\ request \in [Calls -> Requests] /\ snapshot \in [Calls -> Requests]
    /\ reads \in [Calls -> [nonce : Int, balance : Int]]
    /\ approved \in [Calls -> Reports]
    /\ account \in [nonce : Int, balance : Int]

\* Where the attempts of a call can be: only the awaited one runs while the call is
\* open, and one that outlives its call was aborted.
Attempted(c) ==
    /\ phase[c] = "idle" => attempt[c] = 1 /\ \A k \in Attempts : task[c][k] = "unstarted"
    /\ Open(c) => \A k \in Attempts :
        /\ k > attempt[c] => task[c][k] = "unstarted"
        /\ k = attempt[c] /\ phase[c] = "backoff" => task[c][k] = "unstarted"
        /\ Running(c, k) => phase[c] = "attempt" /\ k = attempt[c]
    /\ Ended(c) => \A k \in Attempts : Running(c, k) => aborted[c]

\* A submission has one attempt, and only a submission gets as far as authorize().
Single(c) ==
    /\ phase[c] # "idle" /\ plan[c].task = "send" =>
        /\ attempt[c] = 1 /\ phase[c] # "backoff"
        /\ \A k \in Attempts : k # 1 => task[c][k] = "unstarted"
    /\ \A k \in Attempts : task[c][k] \in {"authorize", "send"} =>
        plan[c].task = "send" /\ approved[c].cost <= reads[c].balance

\* What is thrown is safe to retry only if it is thrown by a read.
Told(c) ==
    /\ phase[c] = "idle" => ~failure[c].safeToRetry
    /\ failure[c].safeToRetry => plan[c].task # "send"

SentBy(c) ==
    \A tx \in sent : tx.call = c =>
        /\ phase[c] # "idle" /\ plan[c].task = "send"
        /\ task[c][1] \in {"send", "settled"}
        /\ tx = [call |-> c, from |-> approved[c].from, value |-> approved[c].value,
                 cost |-> approved[c].cost, nonce |-> approved[c].nonce]
        /\ tx.cost <= reads[c].balance

CallInv(c) == Attempted(c) /\ Single(c) /\ Told(c) /\ SentBy(c)

SdkInv ==
    /\ SdkTypes
    /\ \A c \in Calls : CallInv(c)
    /\ \A tx \in sent : tx = EarlierTransaction \/ tx.call \in Calls

\* A step that leaves a call alone.
Same(d) ==
    /\ phase'[d] = phase[d] /\ plan'[d] = plan[d] /\ attempt'[d] = attempt[d]
    /\ aborted'[d] = aborted[d] /\ failure'[d] = failure[d] /\ task'[d] = task[d]
    /\ reads'[d] = reads[d] /\ approved'[d] = approved[d]
    /\ \A tx \in sent' : tx.call = d => tx \in sent

LEMMA SameKeeps ==
    ASSUME NEW d \in Calls, CallInv(d), Same(d)
    PROVE  CallInv(d)'
<1> USE DEF Same
<1>1. Attempted(d)'
  BY DEF CallInv, Attempted, Open, Ended, Running
<1>2. Single(d)'
  BY DEF CallInv, Single
<1>3. Told(d)'
  BY DEF CallInv, Told
<1>4. SentBy(d)'
  BY DEF CallInv, SentBy
<1> QED
  BY <1>1, <1>2, <1>3, <1>4 DEF CallInv

\* ------------------------------------------------------------------ errors ---

ErrorForm(e) ==
    e = [category |-> e.category, retryable |-> e.retryable,
         safeToRetry |-> e.safeToRetry, rpcAborted |-> e.rpcAborted]

LEMMA SdkErrorForm ==
    ASSUME NEW category, NEW retryable, NEW safe
    PROVE  /\ ErrorForm(SdkError(category, retryable, safe))
           /\ SdkError(category, retryable, safe).safeToRetry = safe
BY DEF ErrorForm, SdkError

LEMMA ControlErrorForm ==
    ASSUME NEW category
    PROVE  ErrorForm(ControlError(category))
BY Zenon, SdkErrorForm DEF ControlError

\* enforceOperationSafety: nothing a submission throws is safe to retry.
LEMMA ThrownSafe ==
    ASSUME NEW c, NEW error, ErrorForm(error), NEW ab, NEW late, plan[c].task = "send"
    PROVE  ~Thrown(c, error, ab, late).safeToRetry
<1> DEFINE e == Normalize(c, error, ab, late)
<1>1. ErrorForm(e)
  BY ControlErrorForm DEF Normalize
<1> HIDE DEF e
<1>2. [e EXCEPT !.safeToRetry = FALSE].safeToRetry = FALSE
  BY <1>1 DEF ErrorForm
<1> QED
  BY <1>2 DEF Thrown, EnforceOperationSafety, KindOf, e

\* ------------------------------------------------------------ a task is over ---

LEMMA RejectKeeps ==
    ASSUME SdkInv, NEW c \in Calls, NEW k \in Attempts, Running(c, k),
           NEW error, ErrorForm(error), Reject(c, k, error),
           UNCHANGED <<plan, worldVars, dataVars>>
    PROVE  SdkInv'
<1> USE DEF SdkInv, worldVars, dataVars
<1>1. /\ task' \in [Calls -> [Attempts -> Places]] /\ task'[c][k] = "settled"
      /\ \A j \in Attempts \ {k} : task'[c][j] = task[c][j]
      /\ \A d \in Calls \ {c} : task'[d] = task[d]
  BY DEF SdkTypes, Reject, Settle, Places
<1>2. CallInv(c)
  OBVIOUS
<1>3. CASE ~Awaited(c, k)
  <2>1. UNCHANGED opVars
    BY <1>3 DEF Reject
  <2>2. SdkTypes'
    BY <1>1, <2>1 DEF SdkTypes, opVars
  <2>3. Attempted(c)'
    <3>1. phase[c] # "idle" /\ (Open(c) => k < attempt[c] \/ ~Running(c, k))
      BY <1>2, <1>3 DEF CallInv, Attempted, Awaited, Running
    <3> QED
      BY <1>1, <1>2, <2>1, <3>1 DEF CallInv, Attempted, Open, Ended, Running, opVars, SdkTypes
  <2>4. Single(c)' /\ Told(c)' /\ SentBy(c)'
    <3>1. k # 1 => ~(phase[c] # "idle" /\ plan[c].task = "send")
      BY <1>2 DEF CallInv, Single, Running
    <3>2. Single(c)'
      BY <1>1, <1>2, <2>1, <3>1 DEF CallInv, Single, opVars, SdkTypes
    <3>3. Told(c)'
      BY <1>2, <2>1 DEF CallInv, Told, opVars
    <3>4. SentBy(c)'
      <4>1. task[c][1] \in {"send", "settled"} => task'[c][1] \in {"send", "settled"}
        BY <1>1 DEF Attempts, MaximumReadAttempts
      <4> QED
        BY <1>2, <2>1, <4>1 DEF CallInv, SentBy, opVars
    <3> QED
      BY <3>2, <3>3, <3>4
  <2>5. ASSUME NEW d \in Calls PROVE CallInv(d)'
    <3>1. CASE d = c
      BY <3>1, <2>3, <2>4 DEF CallInv
    <3>2. CASE d # c
      BY <3>2, <1>1, <2>1, SameKeeps DEF Same, opVars
    <3> QED
      BY <3>1, <3>2
  <2> QED
    BY <2>2, <2>5
<1>4. CASE Awaited(c, k)
  <2>1. phase[c] = "attempt" /\ attempt[c] = k /\ HandleError(c, error)
    BY SMTT(30), <1>4 DEF Reject, Awaited
  <2>2. \A j \in Attempts : ~(task'[c][j] \notin {"unstarted", "settled"})
    BY <1>1, <1>2, <2>1 DEF CallInv, Attempted, Open, Running
  <2>3. \A j \in Attempts : j > k => task'[c][j] = "unstarted"
    BY <1>1, <1>2, <2>1 DEF CallInv, Attempted, Open, Attempts, MaximumReadAttempts
  <2>4. plan[c].task = "send" => k = 1 /\ \A j \in Attempts : j # 1 => task'[c][j] = "unstarted"
    BY <1>1, <1>2, <2>1 DEF CallInv, Single
  <2>5. SentBy(c)'
    <3>1. phase'[c] # "idle"
      BY Zenon, <2>1 DEF HandleError, Fail, SdkTypes
    <3>2. task[c][1] \in {"send", "settled"} => task'[c][1] \in {"send", "settled"}
      BY <1>1 DEF Attempts, MaximumReadAttempts
    <3> QED
      BY <1>2, <3>1, <3>2 DEF CallInv, SentBy
  <2>6. \A d \in Calls \ {c} :
          /\ phase'[d] = phase[d] /\ attempt'[d] = attempt[d]
          /\ aborted'[d] = aborted[d] /\ failure'[d] = failure[d]
    BY Zenon, <2>1 DEF HandleError, Fail, SdkTypes
  <2>7. ASSUME NEW d \in Calls, d # c PROVE CallInv(d)'
    BY <2>7, <1>1, <2>6, SameKeeps DEF Same
  <2>8. ASSUME NEW thrown, NEW emitted, Fail(c, emitted, thrown),
               plan[c].task = "send" => ~thrown.safeToRetry,
               attempt' \in [Calls -> Attempts], aborted' \in [Calls -> BOOLEAN],
               plan[c].task = "send" => attempt'[c] = attempt[c]
        PROVE  SdkInv'
    <3>1. /\ phase' \in [Calls -> Phases] /\ phase'[c] = "failed"
          /\ failure' = [d \in Calls |-> failure'[d]] /\ failure'[c] = thrown
      BY Zenon, <2>8 DEF Fail, SdkTypes, Phases
    <3>2. SdkTypes'
      BY <1>1, <2>8, <3>1 DEF SdkTypes
    <3>3. Attempted(c)'
      BY <2>2, <3>1 DEF Attempted, Open, Ended, Running
    <3>4. Single(c)'
      BY <2>1, <2>2, <2>4, <2>8, <3>1 DEF Single
    <3>5. Told(c)'
      BY <2>8, <3>1 DEF Told
    <3>6. CallInv(c)'
      BY <2>5, <3>3, <3>4, <3>5 DEF CallInv
    <3> QED
      BY <2>7, <3>2, <3>6
  <2>9. CASE /\ ~MayRetry(c, Thrown(c, error, aborted[c], timedOut[c]))
             /\ Fail(c, events[c], Thrown(c, error, aborted[c], timedOut[c]))
             /\ UNCHANGED <<attempt, aborted>>
    <3>1. plan[c].task = "send" => ~Thrown(c, error, aborted[c], timedOut[c]).safeToRetry
      BY ThrownSafe
    <3> QED
      BY SMTT(30), <2>8, <2>9, <3>1 DEF SdkTypes
  <2>10. CASE /\ MayRetry(c, Thrown(c, error, aborted[c], timedOut[c]))
              /\ attempt' = [attempt EXCEPT ![c] = @ + 1]
    <3>1. plan[c].task # "send" /\ k + 1 \in Attempts
      <4>1. KindOf(plan[c].task) = "read" /\ attempt[c] < MaxAttempts(c)
        BY <2>10 DEF MayRetry
      <4>2. plan[c].attempts \in Attempts
        BY DEF SdkTypes, Plans
      <4> QED
        BY <2>1, <4>1, <4>2 DEF KindOf, MaxAttempts, Attempts, MaximumReadAttempts
    <3>2. attempt' \in [Calls -> Attempts] /\ attempt'[c] = k + 1
      BY <2>1, <2>10, <3>1 DEF SdkTypes
    <3>3. CASE /\ phase' = [phase EXCEPT ![c] = "backoff"]
               /\ UNCHANGED <<result, failure, aborted>>
      <4>1. phase' \in [Calls -> Phases] /\ phase'[c] = "backoff"
        BY <3>3 DEF SdkTypes, Phases
      <4>2. SdkTypes'
        BY <1>1, <3>2, <3>3, <4>1 DEF SdkTypes
      <4>3. Attempted(c)'
        BY <2>2, <2>3, <3>2, <4>1 DEF Attempted, Open, Ended, Running, Attempts, MaximumReadAttempts
      <4>4. Single(c)'
        BY <2>2, <3>1 DEF Single
      <4>5. Told(c)'
        BY <3>1, <4>1 DEF Told
      <4>6. CallInv(c)'
        BY <2>5, <4>3, <4>4, <4>5 DEF CallInv
      <4> QED
        BY <2>7, <4>2, <4>6
    <3>4. CASE /\ plan[c].signal /\ aborted' = [aborted EXCEPT ![c] = TRUE]
               /\ Fail(c, events[c] \o <<"retry">>,
                       Thrown(c, ControlError("cancellation"), TRUE, FALSE))
      <4>1. aborted' \in [Calls -> BOOLEAN]
        BY <3>4 DEF SdkTypes
      <4> QED
        BY Zenon, <2>8, <3>1, <3>2, <3>4, <4>1
    <3> QED
      BY ZenonT(30), <2>1, <2>10, <3>3, <3>4 DEF HandleError
  <2> QED
    BY Zenon, <2>1, <2>9, <2>10 DEF HandleError
<1> QED
  BY <1>3, <1>4

LEMMA ResolveKeeps ==
    ASSUME SdkInv, NEW c \in Calls, NEW k \in Attempts, Running(c, k),
           NEW status, Resolve(c, k, status), UNCHANGED <<plan, worldVars, dataVars>>
    PROVE  SdkInv'
<1> USE DEF SdkInv, worldVars, dataVars
<1>1. /\ task' \in [Calls -> [Attempts -> Places]] /\ task'[c][k] = "settled"
      /\ \A j \in Attempts \ {k} : task'[c][j] = task[c][j]
      /\ \A d \in Calls \ {c} : task'[d] = task[d]
  BY DEF SdkTypes, Resolve, Settle, Places
<1>2. /\ phase' \in [Calls -> Phases] /\ UNCHANGED <<attempt, aborted, failure>>
      /\ \A d \in Calls \ {c} : phase'[d] = phase[d]
      /\ IF Awaited(c, k) THEN phase'[c] = "succeeded" ELSE phase'[c] = phase[c]
  BY Zenon DEF SdkTypes, Resolve, Phases
<1>3. CallInv(c)
  BY SMTT(30)
<1>4. phase[c] # "idle"
  BY <1>3 DEF CallInv, Attempted, Running
<1>5. SdkTypes'
  BY <1>1, <1>2 DEF SdkTypes
<1>6. Attempted(c)'
  <2>1. CASE Awaited(c, k)
    BY SMTT(30), <1>1, <1>2, <1>3, <2>1 DEF CallInv, Attempted, Open, Ended, Running, Awaited
  <2>2. CASE ~Awaited(c, k)
    <3>1. ~Open(c)
      BY SMTT(30), <1>3, <2>2 DEF CallInv, Attempted, Open, Awaited
    <3> QED
      BY SMTT(30), <1>1, <1>2, <1>3, <1>4, <2>2, <3>1 DEF CallInv, Attempted, Open, Ended, Running
  <2> QED
    BY SMTT(30), <2>1, <2>2
<1>7. Single(c)'
  <2>1. k # 1 => plan[c].task # "send"
    BY SMTT(30), <1>3, <1>4 DEF CallInv, Single, Running
  <2> QED
    BY SMTT(30), <1>1, <1>2, <1>3, <1>4, <2>1 DEF CallInv, Single
<1>8. Told(c)'
  BY SMTT(30), <1>2, <1>3, <1>4 DEF CallInv, Told
<1>9. SentBy(c)'
  <2>1. task[c][1] \in {"send", "settled"} => task'[c][1] \in {"send", "settled"}
    BY <1>1 DEF Attempts, MaximumReadAttempts
  <2> QED
    BY <1>2, <1>3, <2>1 DEF CallInv, SentBy
<1>10. ASSUME NEW d \in Calls PROVE CallInv(d)'
  <2>1. CASE d = c
    BY SMTT(30), <2>1, <1>6, <1>7, <1>8, <1>9 DEF CallInv
  <2>2. CASE d # c
    BY <2>2, <1>1, <1>2, SameKeeps DEF Same
  <2> QED
    BY <2>1, <2>2
<1> QED
  BY <1>5, <1>10

\* A task goes from one of its awaits to the next, other than to the wallet.
LEMMA AdvanceKeeps ==
    ASSUME SdkInv, NEW c \in Calls, NEW k \in Attempts, Running(c, k),
           NEW place \in Places \ {"unstarted", "send"},
           task[c][k] # "send",
           task' = [task EXCEPT ![c][k] = place],
           UNCHANGED <<opVars, plan, worldVars, snapshot, reads, sent>>,
           approved' \in [Calls -> Reports],
           \A d \in Calls \ {c} : approved'[d] = approved[d],
           approved'[c] = approved[c] \/ task[c][k] = "reads",
           place = "authorize" => plan[c].task = "send" /\ approved'[c].cost <= reads[c].balance
    PROVE  SdkInv'
<1> USE DEF SdkInv, opVars, worldVars
<1>1. /\ task' \in [Calls -> [Attempts -> Places]] /\ task'[c][k] = place
      /\ \A j \in Attempts \ {k} : task'[c][j] = task[c][j]
      /\ \A d \in Calls \ {c} : task'[d] = task[d]
  BY DEF SdkTypes
<1>2. CallInv(c)
  OBVIOUS
<1>3. phase[c] # "idle"
  BY <1>2 DEF CallInv, Attempted, Running
<1>4. SdkTypes'
  BY <1>1 DEF SdkTypes
<1>5. Attempted(c)'
  <2>1. Attempted(c) /\ UNCHANGED <<phase, attempt, aborted>>
    BY <1>2 DEF CallInv
  <2>2. \A j \in Attempts : Running(c, j)' => Running(c, j)
    BY <1>1 DEF Running
  <2>3. \A j \in Attempts : task[c][j] = "unstarted" => task'[c][j] = "unstarted"
    BY SMTT(30), <1>1 DEF Running
  <2> HIDE DEF SdkInv
  <2> QED
    BY ONLY <1>3, <2>1, <2>2, <2>3, Zenon DEF Attempted, Open, Ended
<1>6. Single(c)'
  <2>1. plan[c].task = "send" => k = 1 /\ \A j \in Attempts : j # 1 => task[c][j] = "unstarted"
    BY <1>2, <1>3 DEF CallInv, Single, Running
  <2>2. plan[c].task # "send" => \A j \in Attempts : task[c][j] \notin {"authorize", "send"}
    BY <1>2 DEF CallInv, Single
  <2> QED
    BY <1>1, <1>2, <1>3, <2>1, <2>2 DEF CallInv, Single
<1>7. Told(c)'
  BY <1>2 DEF CallInv, Told
<1>8. SentBy(c)'
  <2>1. \A tx \in sent : tx.call # c
    <3>1. plan[c].task = "send" => k = 1
      BY <1>2, <1>3 DEF CallInv, Single, Running
    <3> QED
      BY <1>2, <3>1 DEF CallInv, SentBy, Running
  <2> QED
    BY <2>1 DEF SentBy
<1>9. ASSUME NEW d \in Calls PROVE CallInv(d)'
  <2>1. CASE d = c
    BY SMTT(30), <2>1, <1>5, <1>6, <1>7, <1>8 DEF CallInv
  <2>2. CASE d # c
    BY SMTT(30), <2>2, <1>1, SameKeeps DEF Same
  <2> QED
    BY <2>1, <2>2
<1> QED
  BY <1>4, <1>9

\* An answered read of the preflight: only the call's own reads change.
LEMMA ReadKeeps ==
    ASSUME SdkInv, NEW c \in Calls, NEW k \in Attempts, task[c][k] = "reads",
           reads' \in [Calls -> [nonce : Int, balance : Int]],
           \A d \in Calls \ {c} : reads'[d] = reads[d],
           UNCHANGED <<opVars, plan, task, worldVars, snapshot, approved, sent>>
    PROVE  SdkInv'
<1> USE DEF SdkInv, opVars, worldVars
<1>1. CallInv(c)
  BY SMTT(30)
<1>2. phase[c] # "idle"
  BY <1>1 DEF CallInv, Attempted
<1>3. plan[c].task = "send" => k = 1 /\ \A j \in Attempts : j # 1 => task[c][j] = "unstarted"
  BY <1>1, <1>2 DEF CallInv, Single
<1>4. SdkTypes'
  BY SMTT(30) DEF SdkTypes
<1>s. /\ phase' = phase /\ plan' = plan /\ task' = task /\ attempt' = attempt /\ failure' = failure
      /\ aborted' = aborted /\ approved' = approved /\ sent' = sent /\ result' = result
      /\ events' = events /\ snapshot' = snapshot
  BY Zenon
<1>5. Attempted(c)' /\ Told(c)'
  <2> HIDE DEF SdkInv
  <2>1. Attempted(c) /\ Told(c)
    BY ZenonT(30), <1>1 DEF CallInv
  <2>2. Attempted(c)'
    BY <2>1, <1>s DEF Attempted, Open, Ended, Running
  <2>3. Told(c)'
    BY ZenonT(30), <2>1, <1>s DEF Told
  <2> QED
    BY Zenon, <2>2, <2>3
<1>t. \A j \in Attempts : task[c][j] \notin {"authorize", "send"}
  BY <1>1, <1>3 DEF CallInv, Single
<1>u. \A tx \in sent : tx.call # c
  <2>1. task[c][k] \notin {"send", "settled"}
    OBVIOUS
  <2> QED
    BY ZenonT(30), <2>1, <1>1, <1>3 DEF CallInv, SentBy
<1>6. Single(c)'
  BY Zenon, <1>1, <1>s, <1>t DEF CallInv, Single
<1>7. SentBy(c)'
  BY Zenon, <1>s, <1>u DEF SentBy
<1>8. ASSUME NEW d \in Calls PROVE CallInv(d)'
  <2>1. CASE d = c
    BY ZenonT(30), <2>1, <1>5, <1>6, <1>7 DEF CallInv
  <2>2. CASE d # c
    BY SMTT(30), <2>2, SameKeeps DEF Same
  <2> QED
    BY Zenon, <2>1, <2>2
<1> QED
  BY SMTT(30), <1>4, <1>8

\* The timer or the caller ends an open call, whose task is left to itself.
LEMMA CutKeeps ==
    ASSUME SdkInv, NEW c \in Calls, Open(c), NEW thrown, Fail(c, events[c], thrown),
           plan[c].task = "send" => ~thrown.safeToRetry,
           aborted' = [aborted EXCEPT ![c] = TRUE],
           UNCHANGED <<plan, attempt, task, worldVars, dataVars>>
    PROVE  SdkInv'
<1> USE DEF SdkInv, worldVars, dataVars
<1>1. /\ phase' \in [Calls -> Phases] /\ phase'[c] = "failed"
      /\ failure' = [d \in Calls |-> failure'[d]] /\ failure'[c] = thrown
      /\ aborted' \in [Calls -> BOOLEAN] /\ aborted'[c]
      /\ \A d \in Calls \ {c} :
            phase'[d] = phase[d] /\ failure'[d] = failure[d] /\ aborted'[d] = aborted[d]
  BY Zenon DEF SdkTypes, Fail, Phases
<1>2. CallInv(c) /\ phase[c] # "idle"
  BY DEF Open
<1>3. SdkTypes'
  BY SMTT(30), <1>1 DEF SdkTypes
<1>4. Attempted(c)' /\ Single(c)' /\ Told(c)' /\ SentBy(c)'
  <2>1. Attempted(c)'
    BY <1>1 DEF Attempted, Open, Ended
  <2>2. Single(c)'
    BY <1>1, <1>2 DEF CallInv, Single
  <2>3. Told(c)'
    BY <1>1 DEF Told
  <2>4. SentBy(c)'
    BY SMTT(30), <1>1, <1>2 DEF CallInv, SentBy
  <2> QED
    BY <2>1, <2>2, <2>3, <2>4
<1>5. ASSUME NEW d \in Calls PROVE CallInv(d)'
  <2>1. CASE d = c
    BY <2>1, <1>4 DEF CallInv
  <2>2. CASE d # c
    BY Zenon, <2>2, <1>1, SameKeeps DEF Same
  <2> QED
    BY SMTT(30), <2>1, <2>2
<1> QED
  BY <1>3, <1>5

\* The task of the attempt that is due starts, in a call of which nothing was sent.
LEMMA StartKeeps ==
    ASSUME SdkInv, NEW c \in Calls, NEW k \in Attempts, attempt[c] = k,
           \A j \in Attempts : ~Running(c, j), \A j \in Attempts : j >= k => task[c][j] = "unstarted",
           \A tx \in sent : tx.call # c,
           plan' \in [Calls -> Plans], \A d \in Calls \ {c} : plan'[d] = plan[d],
           plan'[c].task = "send" => k = 1,
           aborted' \in [Calls -> BOOLEAN], \A d \in Calls \ {c} : aborted'[d] = aborted[d],
           failure[c].safeToRetry => plan'[c].task # "send",
           phase' = [phase EXCEPT ![c] = "attempt"], StartTask(c, k, plan'[c].task),
           UNCHANGED <<worldVars, attempt, failure, approved, sent>>
    PROVE  SdkInv'
<1> USE DEF SdkInv, worldVars
<1>1. /\ phase' \in [Calls -> Phases] /\ phase'[c] = "attempt"
      /\ \A d \in Calls \ {c} : phase'[d] = phase[d]
  BY DEF SdkTypes, Phases
<1>2. FirstAwait(plan'[c].task) \in {"answer", "chainId", "receipt"}
  <2>1. plan'[c].task \in Tasks
    BY DEF Plans
  <2> QED
    BY <2>1 DEF FirstAwait, Tasks
<1>3. /\ task' \in [Calls -> [Attempts -> Places]]
      /\ task'[c][k] \in {"answer", "chainId", "receipt"}
      /\ \A j \in Attempts \ {k} : task'[c][j] = task[c][j]
      /\ \A d \in Calls \ {c} : task'[d] = task[d] /\ reads'[d] = reads[d]
      /\ snapshot' \in [Calls -> Requests] /\ reads' \in [Calls -> [nonce : Int, balance : Int]]
  <2>1. NoReads \in [nonce : Int, balance : Int]
    BY DEF NoReads, Unread
  <2> QED
    BY <1>2, <2>1 DEF SdkTypes, StartTask, Places
<1>4. SdkTypes'
  BY SMTT(30), <1>1, <1>3 DEF SdkTypes
<1>5. Attempted(c)'
  BY SMTT(30), <1>1, <1>3 DEF Attempted, Open, Ended, Running, Attempts, MaximumReadAttempts
<1>6. Single(c)'
  BY SMTT(30), <1>1, <1>3 DEF Single, Running, Attempts, MaximumReadAttempts
<1>7. Told(c)' /\ SentBy(c)'
  BY <1>1 DEF Told, SentBy
<1>8. ASSUME NEW d \in Calls PROVE CallInv(d)'
  <2>1. CASE d = c
    BY ZenonT(30), <2>1, <1>5, <1>6, <1>7 DEF CallInv
  <2>2. CASE d # c
    BY <2>2, <1>1, <1>3, SameKeeps DEF Same
  <2> QED
    BY Zenon, <2>1, <2>2
<1> QED
  BY <1>4, <1>8

LEMMA InvokeKeeps ==
    ASSUME SdkInv, NEW c \in Calls, Invoke(c)
    PROVE  SdkInv'
<1> USE DEF SdkInv, worldVars
<1>1. PICK p \in Plans, valid \in BOOLEAN, ab \in BOOLEAN :
        /\ ab => p.signal /\ valid
        /\ plan' = [plan EXCEPT ![c] = p]
        /\ aborted' = [aborted EXCEPT ![c] = ab]
        /\ \/ /\ ~valid
              /\ phase' = [phase EXCEPT ![c] = "failed"]
              /\ failure' = [failure EXCEPT ![c] = SdkError("configuration", FALSE, FALSE)]
              /\ UNCHANGED <<result, events, task, snapshot, reads>>
           \/ /\ valid /\ ab
              /\ Fail(c, <<"start">>, ControlError("cancellation"))
              /\ UNCHANGED <<task, snapshot, reads>>
           \/ /\ valid /\ ~ab
              /\ phase' = [phase EXCEPT ![c] = "attempt"]
              /\ events' = [events EXCEPT ![c] = <<"start">>]
              /\ StartTask(c, 1, p.task)
              /\ UNCHANGED <<result, failure>>
  BY Zenon DEF Invoke
<1>2. /\ phase[c] = "idle" /\ UNCHANGED <<request, account, landed, edits, attempt, approved, sent>>
  BY DEF Invoke
<1>3. CallInv(c)
  BY SMTT(30)
<1>4. /\ \A j \in Attempts : task[c][j] = "unstarted"
      /\ ~failure[c].safeToRetry
      /\ \A tx \in sent : tx.call # c
  BY <1>2, <1>3 DEF CallInv, Attempted, Told, SentBy
<1>5. /\ plan' \in [Calls -> Plans] /\ plan'[c] = p
      /\ aborted' \in [Calls -> BOOLEAN] /\ aborted'[c] = ab
      /\ \A d \in Calls \ {c} : plan'[d] = plan[d] /\ aborted'[d] = aborted[d]
  BY <1>1 DEF SdkTypes
<1>6. attempt[c] = 1
  BY ZenonT(30), <1>2, <1>3 DEF CallInv, Attempted
<1>7. ASSUME NEW thrown, phase' = [phase EXCEPT ![c] = "failed"],
             failure' = [failure EXCEPT ![c] = thrown], ~thrown.safeToRetry,
             UNCHANGED <<task, snapshot, reads>>
      PROVE  SdkInv'
  <2>1. /\ phase' \in [Calls -> Phases] /\ phase'[c] = "failed"
        /\ failure' = [d \in Calls |-> failure'[d]] /\ failure'[c] = thrown
        /\ \A d \in Calls \ {c} : phase'[d] = phase[d] /\ failure'[d] = failure[d]
    BY Zenon, <1>7 DEF SdkTypes, Phases
  <2>2. SdkTypes'
    BY SMTT(30), <1>2, <1>5, <1>7, <2>1 DEF SdkTypes
  <2>3. Attempted(c)'
    BY <1>4, <1>7, <2>1 DEF Attempted, Open, Ended, Running
  <2>4. Single(c)'
    BY SMTT(30), <1>2, <1>4, <1>6, <1>7, <2>1 DEF Single
  <2>5. Told(c)' /\ SentBy(c)'
    BY <1>2, <1>4, <1>7, <2>1 DEF Told, SentBy
  <2>6. ASSUME NEW d \in Calls PROVE CallInv(d)'
    <3>1. CASE d = c
      BY SMTT(30), <3>1, <2>3, <2>4, <2>5 DEF CallInv
    <3>2. CASE d # c
      BY <3>2, <1>2, <1>5, <1>7, <2>1, SameKeeps DEF Same
    <3> QED
      BY <3>1, <3>2
  <2> QED
    BY <1>2, <2>2, <2>6
<1>8. CASE ~valid
  <2>1. ~SdkError("configuration", FALSE, FALSE).safeToRetry
    BY Zenon, SdkErrorForm
  <2> QED
    BY Zenon, <1>1, <1>7, <1>8, <2>1
<1>9. CASE valid /\ ab
  <2>1. ~ControlError("cancellation").safeToRetry
    BY Zenon, SdkErrorForm DEF ControlError
  <2> QED
    BY <1>1, <1>7, <1>9, <2>1 DEF Fail
<1>10. CASE valid /\ ~ab
  <2>1. 1 \in Attempts
    BY SMTT(30) DEF Attempts, MaximumReadAttempts
  <2>2. \A j \in Attempts : ~Running(c, j)
    BY <1>4 DEF Running
  <2>3. /\ phase' = [phase EXCEPT ![c] = "attempt"] /\ StartTask(c, 1, plan'[c].task)
        /\ UNCHANGED <<worldVars, attempt, failure, approved, sent>>
    BY SMTT(30), <1>1, <1>2, <1>5, <1>10
  <2>4. \A j \in Attempts : j >= 1 => task[c][j] = "unstarted"
    BY <1>4
  <2> HIDE DEF SdkInv, worldVars
  <2> QED
    BY Zenon, <1>4, <1>5, <1>6, <2>1, <2>2, <2>3, <2>4, StartKeeps
<1> QED
  BY <1>8, <1>9, <1>10

LEMMA RetryKeeps ==
    ASSUME SdkInv, NEW c \in Calls, Retry(c)
    PROVE  SdkInv'
<1> USE DEF SdkInv
<1>1. CallInv(c) /\ phase[c] = "backoff" /\ attempt[c] \in Attempts
  BY SMTT(30) DEF Retry, SdkTypes
<1>2. plan[c].task # "send" /\ \A tx \in sent : tx.call # c
  BY SMTT(30), <1>1 DEF CallInv, Single, SentBy
<1>3. \A j \in Attempts : ~Running(c, j)
  BY SMTT(30), <1>1 DEF CallInv, Attempted, Open
<1>4. \A j \in Attempts : j >= attempt[c] => task[c][j] = "unstarted"
  BY <1>1 DEF CallInv, Attempted, Open, Attempts, MaximumReadAttempts
<1> DEFINE k == attempt[c]
<1>5. k \in Attempts /\ attempt[c] = k
  BY <1>1
<1>6. /\ phase' = [phase EXCEPT ![c] = "attempt"] /\ StartTask(c, k, plan'[c].task)
      /\ plan' \in [Calls -> Plans] /\ aborted' \in [Calls -> BOOLEAN]
      /\ UNCHANGED <<worldVars, plan, attempt, aborted, failure, approved, sent>>
  BY DEF Retry, SdkTypes
<1> HIDE DEF k
<1> QED
  BY Zenon, <1>2, <1>3, <1>4, <1>5, <1>6, StartKeeps

LEMMA AbortKeeps ==
    ASSUME SdkInv, NEW c \in Calls, Abort(c) \/ Timeout(c)
    PROVE  SdkInv'
<1>1. ErrorForm(ControlError("cancellation"))
  BY SMTT(30), ControlErrorForm
<1>2. CASE Abort(c)
  BY Zenon, <1>1, <1>2, ThrownSafe, CutKeeps DEF Abort
<1>3. CASE Timeout(c)
  BY Zenon, <1>1, <1>3, ThrownSafe, CutKeeps DEF Timeout
<1> QED
  BY <1>2, <1>3

\* Everything a task's failed wait can answer is an error of the SDK's form.
LEMMA AnswerForm ==
    ASSUME NEW c, NEW raw
    PROVE  ErrorForm(RawError(c, raw)) /\ ErrorForm(NestedError)
BY Zenon, SdkErrorForm DEF RawError, NestedError, NormalizeToriumError

LEMMA FailedWaitKeeps ==
    ASSUME SdkInv, NEW c \in Calls, NEW k \in Attempts,
           \/ AnswerFails(c, k) \/ ThrowIfAborted(c, k) \/ RefuseLocally(c, k)
           \/ AnswersOutOfRange(c, k)
    PROVE  SdkInv'
<1>1. CASE AnswerFails(c, k)
  <2>1. PICK error \in {RawError(c, raw) : raw \in RawErrors} \cup {NestedError} :
          Reject(c, k, error)
    BY <1>1 DEF AnswerFails
  <2>2. ErrorForm(error)
    BY AnswerForm
  <2> QED
    BY <1>1, <2>1, <2>2, RejectKeeps DEF AnswerFails, taskOnly
<1>2. CASE ThrowIfAborted(c, k)
  BY Zenon, <1>2, SdkErrorForm, RejectKeeps DEF ThrowIfAborted, AbortError, Running, taskOnly
<1>3. CASE RefuseLocally(c, k)
  BY Zenon, <1>3, SdkErrorForm, RejectKeeps DEF RefuseLocally, Running, taskOnly
<1>4. CASE AnswersOutOfRange(c, k)
  BY Zenon, <1>4, SdkErrorForm, RejectKeeps DEF AnswersOutOfRange, Running, taskOnly
<1> QED
  BY <1>1, <1>2, <1>3, <1>4

LEMMA AnswerKeeps ==
    ASSUME SdkInv, NEW c \in Calls, NEW k \in Attempts,
           Answer(c, k) \/ Receipt(c, k) \/ Acknowledge(c, k)
    PROVE  SdkInv'
<1>1. Running(c, k) /\ UNCHANGED <<plan, worldVars, dataVars>>
  BY DEF Answer, Receipt, Acknowledge, Running, taskOnly
<1>2. \E status : Resolve(c, k, status)
  BY DEF Answer, Receipt, Acknowledge
<1> QED
  BY SMTT(30), <1>1, <1>2, ResolveKeeps

LEMMA CheckKeeps ==
    ASSUME SdkInv, NEW c \in Calls, NEW k \in Attempts,
           ChainId(c, k) \/ Call(c, k) \/ ReadNonce(c, k) \/ ReadBalance(c, k)
    PROVE  SdkInv'
<1>1. CASE ChainId(c, k)
  <2>1. CASE task' = [task EXCEPT ![c][k] = "call"] /\ UNCHANGED opVars
    <3>1. "call" \in Places \ {"unstarted", "send"} /\ "call" # "authorize"
      BY DEF Places
    <3> QED
      BY Zenon, <1>1, <2>1, <3>1, AdvanceKeeps DEF ChainId, Running, taskOnly, dataVars, SdkInv, SdkTypes
  <2>2. CASE Reject(c, k, SdkError("wrong-chain", FALSE, FALSE))
    BY Zenon, <1>1, <2>2, SdkErrorForm, RejectKeeps DEF ChainId, Running, taskOnly
  <2> QED
    BY Zenon, <1>1, <2>1, <2>2 DEF ChainId
<1>2. CASE Call(c, k)
  <2>1. "reads" \in Places \ {"unstarted", "send"} /\ "reads" # "authorize"
    BY DEF Places
  <2> QED
    BY Zenon, <1>2, <2>1, AdvanceKeeps DEF Call, Running, taskOnly, dataVars, SdkInv, SdkTypes
<1>3. CASE ReadNonce(c, k) \/ ReadBalance(c, k)
  <2>1. /\ reads' \in [Calls -> [nonce : Int, balance : Int]]
        /\ \A d \in Calls \ {c} : reads'[d] = reads[d]
    <3>1. /\ reads \in [Calls -> [nonce : Int, balance : Int]]
          /\ account.nonce \in Int /\ account.balance \in Int
      BY DEF SdkInv, SdkTypes
    <3>2. /\ [reads[c] EXCEPT !.nonce = account.nonce] \in [nonce : Int, balance : Int]
          /\ [reads[c] EXCEPT !.balance = account.balance] \in [nonce : Int, balance : Int]
      BY <3>1
    <3>3. CASE ReadNonce(c, k)
      <4>1. reads' = [reads EXCEPT ![c] = [reads[c] EXCEPT !.nonce = account.nonce]]
        BY <3>3 DEF ReadNonce
      <4> QED
        BY <3>1, <3>2, <4>1
    <3>4. CASE ReadBalance(c, k)
      <4>1. reads' = [reads EXCEPT ![c] = [reads[c] EXCEPT !.balance = account.balance]]
        BY <3>4 DEF ReadBalance
      <4> QED
        BY <3>1, <3>2, <4>1
    <3> QED
      BY SMTT(30), <1>3, <3>3, <3>4
  <2> QED
    BY SMTT(30), <1>3, <2>1, ReadKeeps DEF ReadNonce, ReadBalance, taskOnly
<1> QED
  BY <1>1, <1>2, <1>3

LEMMA ReportForm ==
    ASSUME NEW f \in Accounts, NEW v \in Nat, NEW w \in Nat, NEW n \in Int
    PROVE  [from |-> f, value |-> v, cost |-> w, nonce |-> n] \in Reports
BY DEF Reports

LEMMA PreflightedKeeps ==
    ASSUME SdkInv, NEW c \in Calls, NEW k \in Attempts, Preflighted(c, k)
    PROVE  SdkInv'
<1> DEFINE pre == Preflight(c, 1)
<1>1. PICK gasTooLow \in BOOLEAN :
        LET blockers == Blockers(c, pre, gasTooLow)
        IN  \/ /\ plan[c].task = "preflight"
               /\ Resolve(c, k, IF blockers = {} THEN "submittable" ELSE "blocked")
               /\ UNCHANGED approved
            \/ /\ plan[c].task = "send" /\ blockers # {}
               /\ Reject(c, k, SdkError(BlockerCategory(blockers), FALSE, FALSE))
               /\ UNCHANGED approved
            \/ /\ plan[c].task = "send" /\ blockers = {}
               /\ task' = [task EXCEPT ![c][k] = "authorize"]
               /\ approved' = [approved EXCEPT ![c] = pre]
               /\ UNCHANGED opVars
  BY Zenon DEF Preflighted
<1>2. /\ task[c][k] = "reads" /\ UNCHANGED <<snapshot, reads, sent, plan, worldVars>>
  BY SMTT(30) DEF Preflighted, taskOnly
<1> DEFINE blockers == Blockers(c, pre, gasTooLow)
<1>3. CASE /\ Resolve(c, k, IF blockers = {} THEN "submittable" ELSE "blocked")
           /\ UNCHANGED approved
  BY <1>2, <1>3, ResolveKeeps DEF Running, dataVars
<1>4. CASE /\ Reject(c, k, SdkError(BlockerCategory(blockers), FALSE, FALSE))
           /\ UNCHANGED approved
  <2> DEFINE error == SdkError(BlockerCategory(blockers), FALSE, FALSE)
  <2>1. ErrorForm(error)
    BY Zenon, SdkErrorForm
  <2> HIDE DEF error
  <2>2. Reject(c, k, error) /\ Running(c, k) /\ UNCHANGED <<plan, worldVars, dataVars>>
    BY Zenon, <1>2, <1>4 DEF error, Running, dataVars
  <2> QED
    BY <2>1, <2>2, RejectKeeps
<1>5. CASE /\ plan[c].task = "send" /\ blockers = {}
           /\ task' = [task EXCEPT ![c][k] = "authorize"]
           /\ approved' = [approved EXCEPT ![c] = pre]
           /\ UNCHANGED opVars
  <2>1. /\ snapshot[c] \in Requests /\ reads[c].nonce \in Int /\ reads[c].balance \in Int
        /\ approved \in [Calls -> Reports]
    BY DEF SdkInv, SdkTypes
  <2>2. pre \in Reports /\ pre.cost \in Int
    <3>1. /\ snapshot[c].from \in Accounts /\ snapshot[c].value \in Nat
          /\ 1 + snapshot[c].value \in Nat /\ snapshot[c].nonce \in Int
      <4>1. snapshot[c].value \in Values /\ snapshot[c].from \in Accounts
        BY <2>1 DEF Requests
      <4>2. snapshot[c].nonce \in {AnyNonce} \cup 0..MaxNonce
        BY <2>1 DEF Requests
      <4>3. snapshot[c].nonce \in Int
        BY <4>2, SdkAssumption DEF AnyNonce
      <4>4. snapshot[c].value \in Nat
        BY Zenon, <4>1, SdkAssumption
      <4> QED
        BY ONLY SMTT(30), <4>1, <4>3, <4>4
    <3> DEFINE n == IF snapshot[c].nonce = AnyNonce THEN reads[c].nonce ELSE snapshot[c].nonce
    <3>2. n \in Int
      BY ONLY SMTT(30), <2>1, <3>1
    <3>3. pre = [from |-> snapshot[c].from, value |-> snapshot[c].value,
                 cost |-> 1 + snapshot[c].value, nonce |-> n]
      BY DEF Preflight
    <3> HIDE DEF n, pre
    <3>4. pre \in Reports
      BY Zenon, ReportForm, <3>1, <3>2, <3>3
    <3> QED
      BY ONLY <3>4 DEF Reports
  <2>3. pre.cost <= reads[c].balance
    <3>1. "insufficient-funds" \notin blockers
      BY <1>5
    <3>2. ~(reads[c].balance < pre.cost)
      BY <3>1 DEF Blockers
    <3> QED
      BY <2>1, <2>2, <3>2
  <2> HIDE DEF pre
  <2>4. /\ approved' \in [Calls -> Reports] /\ approved'[c] = pre
        /\ \A d \in Calls \ {c} : approved'[d] = approved[d]
    BY <1>5, <2>1, <2>2
  <2>5. "authorize" \in Places \ {"unstarted", "send"} /\ Running(c, k) /\ task[c][k] # "send"
    BY SMTT(30), <1>2 DEF Places, Running
  <2> QED
    BY Zenon, <1>2, <1>5, <2>3, <2>4, <2>5, AdvanceKeeps
<1> QED
  BY Zenon, <1>1, <1>3, <1>4, <1>5

\* What runs and is not aborted belongs to an open attempt.
LEMMA UnabortedIsOpen ==
    ASSUME SdkInv, NEW c \in Calls, NEW k \in Attempts, Running(c, k), ~aborted[c]
    PROVE  phase[c] = "attempt" /\ k = attempt[c]
<1>1. Attempted(c) /\ phase[c] \in Phases
  BY DEF SdkInv, CallInv, SdkTypes
<1> QED
  BY <1>1 DEF Attempted, Open, Ended, Running, Phases

LEMMA AuthorizeKeeps ==
    ASSUME SdkInv, NEW c \in Calls, NEW k \in Attempts, Authorize(c, k)
    PROVE  SdkInv'
<1>1. /\ task[c][k] = "authorize" /\ ~aborted[c]
      /\ UNCHANGED <<snapshot, reads, approved, plan, worldVars>>
  BY SMTT(30) DEF Authorize, taskOnly
<1>2. ASSUME NEW category, NEW retryable,
             Reject(c, k, SdkError(category, retryable, FALSE)), UNCHANGED sent
      PROVE  SdkInv'
  BY Zenon, <1>1, <1>2, SdkErrorForm, RejectKeeps DEF Running, dataVars
<1>3. CASE /\ ~SignerChanged(c) /\ sent' = sent \cup {Transaction(c)}
           /\ task' = [task EXCEPT ![c][k] = "send"] /\ UNCHANGED opVars
  <2> USE DEF SdkInv, opVars, worldVars
  <2>1. CallInv(c) /\ Running(c, k) /\ phase[c] = "attempt" /\ k = attempt[c]
    BY SMTT(30), <1>1, UnabortedIsOpen DEF Running
  <2>2. /\ plan[c].task = "send" /\ k = 1 /\ approved[c].cost <= reads[c].balance
        /\ \A j \in Attempts : j # 1 => task[c][j] = "unstarted"
    BY SMTT(30), <1>1, <2>1 DEF CallInv, Single
  <2>3. /\ task' \in [Calls -> [Attempts -> Places]] /\ task'[c][1] = "send"
        /\ \A j \in Attempts \ {1} : task'[c][j] = task[c][j]
        /\ \A d \in Calls \ {c} : task'[d] = task[d]
    BY SMTT(30), <1>3, <2>2 DEF SdkTypes, Places
  <2>4. /\ \A tx \in sent : tx.call # c
        /\ \A tx \in sent' : tx \in sent \/ tx = Transaction(c)
        /\ Transaction(c) = [call |-> c, from |-> approved[c].from, value |-> approved[c].value,
                             cost |-> approved[c].cost, nonce |-> approved[c].nonce]
    BY <1>1, <1>3, <2>1, <2>2 DEF CallInv, SentBy, Transaction, SignerChanged
  <2>5. Transaction(c).call = c /\ Transaction(c).cost = approved[c].cost
    <3> DEFINE t == Transaction(c)
    <3>1. t = [call |-> c, from |-> approved[c].from, value |-> approved[c].value,
               cost |-> approved[c].cost, nonce |-> approved[c].nonce]
      BY <2>4
    <3> HIDE DEF t, SdkInv
    <3>2. t.call = c /\ t.cost = approved[c].cost
      BY ONLY SMTT(30), <3>1
    <3> QED
      BY SMTT(30), <3>2 DEF t
  <2>6. SdkTypes'
    BY <1>1, <1>3, <2>3 DEF SdkTypes
  <2>7. Attempted(c)'
    <3>1. attempt[c] = 1 /\ phase'[c] = "attempt" /\ attempt' = attempt /\ aborted' = aborted
      BY SMTT(30), <1>3, <2>1, <2>2
    <3>2. \A j \in Attempts : j # 1 => task'[c][j] = "unstarted"
      BY <2>2, <2>3
    <3> HIDE DEF SdkInv
    <3>3. \A j \in Attempts : (j > 1 => j # 1) /\ (Running(c, j)' => j = 1)
      BY <3>2 DEF Running, Attempts, MaximumReadAttempts
    <3> QED
      BY Zenon, <3>1, <3>2, <3>3 DEF Attempted, Open, Ended
  <2>8. Single(c)' /\ Told(c)'
    <3>1. Single(c)'
      BY ZenonT(30), <1>1, <1>3, <2>1, <2>2, <2>3 DEF CallInv, Single
    <3>2. Told(c)'
      BY <1>1, <1>3, <2>1 DEF CallInv, Told
    <3> QED
      BY SMTT(30), <3>1, <3>2
  <2>9. SentBy(c)'
    BY SMTT(30), <1>1, <1>3, <2>1, <2>2, <2>3, <2>4, <2>5 DEF SentBy
  <2>10. ASSUME NEW d \in Calls PROVE CallInv(d)'
    <3>1. CASE d = c
      BY <3>1, <2>7, <2>8, <2>9 DEF CallInv
    <3>2. CASE d # c
      BY ZenonT(30), <3>2, <1>1, <1>3, <2>3, <2>4, <2>5, SameKeeps DEF Same
    <3> QED
      BY <3>1, <3>2
  <2>11. \A tx \in sent' : tx = EarlierTransaction \/ tx.call \in Calls
    BY <2>4, <2>5
  <2> QED
    BY SMTT(30), <2>6, <2>10, <2>11
<1>4. CASE Reject(c, k, SdkError("transport", TRUE, FALSE)) /\ UNCHANGED sent
  BY Zenon, <1>2, <1>4
<1>5. CASE Reject(c, k, SdkError("cancellation", FALSE, FALSE)) /\ UNCHANGED sent
  BY Zenon, <1>2, <1>5
<1> QED
  BY Zenon, <1>3, <1>4, <1>5 DEF Authorize

LEMMA WorldKeeps ==
    ASSUME SdkInv,
           \/ \E tx \in sent, success \in BOOLEAN : Commit(tx, success)
           \/ SpendElsewhere
           \/ \E c \in Calls : EditRequest(c)
    PROVE  SdkInv'
<1>1. UNCHANGED <<opVars, dataVars, plan, task>>
  BY SMTT(30) DEF Commit, SpendElsewhere, EditRequest
<1>2. ASSUME NEW d \in Calls PROVE CallInv(d)'
  BY <1>1, SameKeeps DEF SdkInv, Same, opVars, dataVars
<1>3. account' \in [nonce : Int, balance : Int] /\ request' \in [Calls -> Requests]
  <2>1. /\ account.nonce \in Int /\ account.balance \in Int
        /\ account \in [nonce : Int, balance : Int] /\ request \in [Calls -> Requests]
    BY SMTT(30) DEF SdkInv, SdkTypes
  <2>2. CASE \E tx \in sent, success \in BOOLEAN : Commit(tx, success)
    <3>1. PICK tx \in sent, success \in BOOLEAN : Commit(tx, success)
      BY <2>2
    <3>2. tx.cost \in Int
      <4>1. CASE tx = EarlierTransaction
        BY SMTT(30), <4>1 DEF EarlierTransaction
      <4>2. CASE tx.call \in Calls
        <5>1. approved[tx.call].cost \in Int
          BY <4>2 DEF SdkInv, SdkTypes, Reports
        <5>2. SentBy(tx.call)
          BY SMTT(30), <4>2 DEF SdkInv, CallInv
        <5> QED
          BY SMTT(30), <5>1, <5>2 DEF SentBy
      <4> QED
        BY SMTT(30), <4>1, <4>2 DEF SdkInv
    <3> QED
      BY <2>1, <3>1, <3>2 DEF Commit
  <2>3. CASE SpendElsewhere
    BY <2>1, <2>3 DEF SpendElsewhere
  <2>4. CASE \E c \in Calls : EditRequest(c)
    <3>1. PICK c \in Calls, v \in Values, a \in Accounts :
            request' = [request EXCEPT ![c].value = v, ![c].from = a]
      BY Zenon, <2>4 DEF EditRequest
    <3>2. [request[c] EXCEPT !.value = v, !.from = a] \in Requests
      <4>1. request[c] \in Requests
        BY <2>1
      <4> QED
        BY Zenon, <4>1 DEF Requests
    <3>3. request' = [request EXCEPT ![c] = [request[c] EXCEPT !.value = v, !.from = a]]
      BY Zenon, <2>1, <3>1
    <3> QED
      BY <2>1, <2>4, <3>2, <3>3 DEF EditRequest
  <2> QED
    BY <2>2, <2>3, <2>4
<1>4. SdkTypes'
  BY <1>1, <1>3 DEF SdkInv, SdkTypes, opVars, dataVars
<1> QED
  BY <1>1, <1>2, <1>4 DEF SdkInv, dataVars

\* ---------------------------------------------------------------- theorems ---

LEMMA SdkInitInv == SdkInit => SdkInv
<1> SUFFICES ASSUME SdkInit PROVE SdkInv
  OBVIOUS
<1>1. NoPlan \in Plans
  BY DEF NoPlan, Plans, Tasks, Attempts, MaximumReadAttempts
<1>2. NoReads \in [nonce : Int, balance : Int]
  BY DEF NoReads, Unread
<1>3. NoPreflight \in Reports
  BY DEF NoPreflight, Reports
<1>4. 1 \in Attempts /\ "idle" \in Phases /\ "unstarted" \in Places
  BY DEF Attempts, MaximumReadAttempts, Phases, Places
<1>5. SdkTypes
  BY <1>1, <1>2, <1>3, <1>4, SdkAssumption DEF SdkInit, SdkTypes
<1>6. ~NoError.safeToRetry
  BY Zenon, SdkErrorForm DEF NoError
<1>7. EarlierTransaction.call = "earlier"
  BY DEF EarlierTransaction
<1>8. ASSUME NEW c \in Calls PROVE CallInv(c)
  <2>1. Attempted(c) /\ Single(c)
    BY DEF SdkInit, Attempted, Open, Ended, Single
  <2>2. Told(c)
    BY SMTT(30), <1>6 DEF SdkInit, Told
  <2>3. SentBy(c)
    BY <1>7, SdkAssumption DEF SdkInit, SentBy
  <2> QED
    BY SMTT(30), <2>1, <2>2, <2>3 DEF CallInv
<1> QED
  BY <1>5, <1>8 DEF SdkInv, SdkInit

LEMMA SdkStepInv == SdkInv /\ [SdkNext]_sdkVars => SdkInv'
<1> SUFFICES ASSUME SdkInv, [SdkNext]_sdkVars PROVE SdkInv'
  OBVIOUS
<1>1. ASSUME NEW c \in Calls, NEW k \in Attempts, TaskStep(c, k) PROVE SdkInv'
  BY <1>1, FailedWaitKeeps, AnswerKeeps, CheckKeeps, PreflightedKeeps, AuthorizeKeeps
     DEF TaskStep
<1>2. ASSUME NEW c \in Calls, Invoke(c) \/ Retry(c) \/ Abort(c) \/ Timeout(c)
      PROVE  SdkInv'
  BY <1>2, InvokeKeeps, RetryKeeps, AbortKeeps
<1>3. CASE \/ \E tx \in sent, success \in BOOLEAN : Commit(tx, success)
           \/ SpendElsewhere
           \/ \E c \in Calls : EditRequest(c)
  BY <1>3, WorldKeeps
<1>4. CASE UNCHANGED sdkVars
  <2>1. UNCHANGED <<phase, plan, attempt, aborted, failure, task, request, snapshot,
                    reads, approved, sent, account>>
    BY SMTT(30), <1>4 DEF sdkVars, opVars, dataVars, worldVars
  <2>2. ASSUME NEW d \in Calls PROVE CallInv(d)'
    BY SMTT(30), <2>1, SameKeeps DEF SdkInv, Same
  <2>3. SdkTypes'
    BY <2>1 DEF SdkInv, SdkTypes
  <2> QED
    BY <2>1, <2>2, <2>3 DEF SdkInv
<1> QED
  BY <1>1, <1>2, <1>3, <1>4 DEF SdkNext

LEMMA SdkInvariant == SdkSpec => []SdkInv
BY SdkInitInv, SdkStepInv, PTL DEF SdkSpec

\* An error that says "safe to retry" never comes from a call that handed the wallet a
\* transaction (enforceOperationSafety in internal/execution.ts), for any number of
\* calls side by side, any errors, aborts and timers.
THEOREM RetryNeverResubmits == SdkSpec => []SafeToRetryMeansUnsent
<1>1. SdkInv => SafeToRetryMeansUnsent
  BY SMTT(30) DEF SdkInv, CallInv, Told, SentBy, SafeToRetryMeansUnsent
<1> QED
  BY <1>1, SdkInvariant, PTL

\* What the wallet is asked to sign is what authorize() was shown, and the balance that
\* the preflight read covers it, whatever the caller does to its objects meanwhile
\* (sendToriumTransactionOnceImpl in wallet.ts).
THEOREM OnlyTheAuthorizedIsSent == SdkSpec => []SentAsAuthorized
<1>1. SdkInv => SentAsAuthorized
  BY DEF SdkInv, CallInv, SentBy, SentAsAuthorized
<1> QED
  BY <1>1, SdkInvariant, PTL

\* A submission that the caller was already told had failed is never begun: a
\* transaction reaches the wallet only while its call is open and its signal is not
\* aborted (the last throwIfAborted of sendToriumTransactionOnceImpl).
THEOREM NothingIsSentLate == SdkSpec => NoLateSubmission
<1> DEFINE Late == \A tx \in sent' \ sent : phase[tx.call] = "attempt" /\ ~aborted[tx.call]
<1>1. SdkInv /\ [SdkNext]_sdkVars => [Late]_sdkVars
  <2> SUFFICES ASSUME SdkInv, SdkNext PROVE Late
    OBVIOUS
  <2>1. ASSUME NEW c \in Calls, NEW k \in Attempts, Authorize(c, k) PROVE Late
    <3>1. Running(c, k) /\ ~aborted[c] /\ \A tx \in sent' \ sent : tx = Transaction(c)
      BY Zenon, <2>1 DEF Authorize, Running
    <3>2. phase[c] = "attempt"
      BY SMTT(30), <3>1, UnabortedIsOpen
    <3>3. Transaction(c).call = c
      BY SMTT(30) DEF Transaction
    <3> QED
      BY <3>1, <3>2, <3>3
  <2>2. CASE sent' = sent
    BY <2>2
  <2>3. ASSUME NEW c \in Calls, NEW k \in Attempts, TaskStep(c, k), ~Authorize(c, k)
        PROVE  sent' = sent
    BY Zenon, <2>3 DEF TaskStep, AnswerFails, ThrowIfAborted, RefuseLocally, Answer, Receipt, ChainId,
       Call, ReadNonce, ReadBalance, Preflighted, AnswersOutOfRange, Acknowledge, dataVars
  <2>4. ASSUME NEW c \in Calls,
               Invoke(c) \/ Retry(c) \/ Abort(c) \/ Timeout(c) \/ EditRequest(c)
        PROVE  sent' = sent
    BY Zenon, <2>4 DEF Invoke, Retry, Abort, Timeout, EditRequest, dataVars
  <2>5. ASSUME NEW tx \in sent, NEW success \in BOOLEAN, Commit(tx, success) PROVE sent' = sent
    BY <2>5 DEF Commit, dataVars
  <2>6. SpendElsewhere => sent' = sent
    BY SMTT(30) DEF SpendElsewhere, dataVars
  <2> HIDE DEF Late
  <2> QED
    BY SMTT(30), <2>1, <2>2, <2>3, <2>4, <2>5, <2>6 DEF SdkNext
<1> QED
  BY <1>1, SdkInvariant, PTL DEF SdkSpec, NoLateSubmission

\* A retry never overlaps the attempt it replaces, although a task that lost its race
\* is never stopped (runAction in internal/execution.ts).
THEOREM AttemptsNeverOverlap == SdkSpec => []OneAttemptInFlight
<1>1. SdkInv => OneAttemptInFlight
  BY DEF SdkInv, CallInv, Attempted, OneAttemptInFlight
<1> QED
  BY <1>1, SdkInvariant, PTL

\* -------------------------------------------------------- the events' story ---

EventNames == {"start", "retry", "success", "failure"}

\* A call that told anything told its start, one retry for each further attempt, and
\* its end if it has ended.
Story(c) ==
    /\ phase[c] = "idle" => events[c] = <<>>
    /\ events[c] = <<>> => attempt[c] = 1 /\ phase[c] \in {"idle", "failed"}
    /\ events[c] # <<>> =>
        /\ Len(events[c]) = attempt[c] + (IF Ended(c) THEN 1 ELSE 0)
        /\ events[c][1] = "start"
        /\ \A i \in 2..attempt[c] : events[c][i] = "retry"
        /\ phase[c] = "succeeded" => events[c][attempt[c] + 1] = "success"
        /\ phase[c] = "failed" => events[c][attempt[c] + 1] = "failure"

StoryInv ==
    /\ events \in [Calls -> Seq(EventNames)]
    /\ \A c \in Calls : Story(c)

\* What one step may do to the story of a call.
Ends(c) ==
    /\ Open(c) /\ attempt'[c] = attempt[c]
    /\ \/ phase'[c] = "succeeded" /\ events'[c] = events[c] \o <<"success">>
       \/ phase'[c] = "failed" /\ events'[c] = events[c] \o <<"failure">>

Again(c) ==
    /\ Open(c) /\ attempt'[c] = attempt[c] + 1
    /\ \/ phase'[c] = "backoff" /\ events'[c] = events[c] \o <<"retry">>
       \/ phase'[c] = "failed" /\ events'[c] = (events[c] \o <<"retry">>) \o <<"failure">>

Begins(c) ==
    /\ phase[c] = "idle" /\ attempt'[c] = attempt[c]
    /\ \/ phase'[c] = "failed" /\ events'[c] = events[c]
       \/ phase'[c] = "failed" /\ events'[c] = <<"start">> \o <<"failure">>
       \/ phase'[c] = "attempt" /\ events'[c] = <<"start">>

Waits(c) ==
    /\ attempt'[c] = attempt[c] /\ events'[c] = events[c]
    /\ phase'[c] = phase[c] \/ (Open(c) /\ phase'[c] = "attempt")

\* What emit does to the events.
LEMMA Emitted ==
    ASSUME NEW s \in Seq(EventNames), NEW x \in EventNames
    PROVE  LET t == s \o <<x>>
           IN  /\ t \in Seq(EventNames) /\ t # <<>>
               /\ Len(s) \in Nat /\ Len(t) = Len(s) + 1
               /\ \A i \in 1..Len(s) : t[i] = s[i]
               /\ t[Len(s) + 1] = x
<1>1. PICK t : t = s \o <<x>>
  BY Zenon
<1>2. /\ t \in Seq(EventNames) /\ Len(s) \in Nat /\ Len(t) = Len(s) + 1
      /\ \A i \in 1..Len(s) : t[i] = s[i]
      /\ t[Len(s) + 1] = x
  BY <1>1
<1>3. t # <<>>
  BY SMTT(30), <1>2
<1> QED
  BY <1>1, <1>2, <1>3

LEMMA StoryEnds ==
    ASSUME NEW c \in Calls, Story(c), events[c] \in Seq(EventNames), attempt[c] \in 1..3,
           Ends(c)
    PROVE  Story(c)' /\ events'[c] \in Seq(EventNames)
<1>1. Len(events[c]) = attempt[c] /\ events[c] # <<>>
  BY SMTT(30) DEF Story, Open, Ended, Ends
<1>2. PICK x \in EventNames :
        /\ events'[c] = events[c] \o <<x>>
        /\ \/ phase'[c] = "succeeded" /\ x = "success"
           \/ phase'[c] = "failed" /\ x = "failure"
  BY SMTT(30) DEF Ends, EventNames
<1>3. /\ events'[c] \in Seq(EventNames) /\ events'[c] # <<>>
      /\ Len(events'[c]) = attempt[c] + 1
      /\ \A i \in 1..attempt[c] : events'[c][i] = events[c][i]
      /\ events'[c][attempt[c] + 1] = x
  <2>s. PICK s \in Seq(EventNames) : s = events[c]
    BY Zenon
  <2>t. PICK t : t = events'[c]
    BY Zenon
  <2>1. s = events[c] /\ t = events'[c]
    BY Zenon, <2>s, <2>t
  <2>2. t = s \o <<x>>
    BY <1>2, <2>1
  <2>3. /\ t \in Seq(EventNames) /\ t # <<>> /\ Len(t) = Len(s) + 1
        /\ \A i \in 1..Len(s) : t[i] = s[i]
        /\ t[Len(s) + 1] = x
    BY Zenon, <2>2, Emitted
  <2> QED
    BY <1>1, <2>1, <2>3
<1>4. events'[c][1] = "start" /\ \A i \in 2..attempt[c] : events'[c][i] = "retry"
  BY SMTT(30), <1>1, <1>3 DEF Story
<1>5. attempt'[c] = attempt[c] /\ phase'[c] \in {"succeeded", "failed"} /\ phase'[c] # "idle"
  BY <1>2 DEF Ends
<1>6. Ended(c)'
  BY Zenon, <1>5 DEF Ended
<1>7. phase'[c] = "succeeded" => x = "success"
  BY ONLY <1>2
<1>8. phase'[c] = "failed" => x = "failure"
  BY ONLY SMTT(30), <1>2
<1> QED
  BY ZenonT(30), <1>3, <1>4, <1>5, <1>6, <1>7, <1>8 DEF Story

LEMMA StoryAgain ==
    ASSUME NEW c \in Calls, Story(c), events[c] \in Seq(EventNames), attempt[c] \in 1..3,
           Again(c)
    PROVE  Story(c)' /\ events'[c] \in Seq(EventNames)
<1> DEFINE n == attempt[c]
<1>1. Len(events[c]) = n /\ events[c] # <<>>
  BY DEF Story, Open, Ended, Again
<1>s. PICK s \in Seq(EventNames) : s = events[c]
  BY Zenon
<1>t. PICK t : t = s \o <<"retry">>
  BY Zenon
<1>2. s = events[c] /\ t = s \o <<"retry">>
  BY Zenon, <1>s, <1>t
<1>3. /\ t \in Seq(EventNames) /\ t # <<>> /\ Len(t) = n + 1
      /\ \A i \in 1..n : t[i] = events[c][i]
      /\ t[n + 1] = "retry"
  <2>1. PICK x \in EventNames : x = "retry"
    BY DEF EventNames
  <2>2. t = s \o <<x>>
    BY <1>2, <2>1
  <2>3. /\ t \in Seq(EventNames) /\ t # <<>> /\ Len(t) = Len(s) + 1
        /\ \A i \in 1..Len(s) : t[i] = s[i]
        /\ t[Len(s) + 1] = x
    BY ZenonT(30), <2>2, Emitted
  <2> QED
    BY Zenon, <1>1, <1>2, <2>1, <2>3
<1>4. t[1] = "start" /\ \A i \in 2..(n + 1) : t[i] = "retry"
  BY SMTT(30), <1>1, <1>3 DEF Story
<1>5. CASE phase'[c] = "backoff" /\ events'[c] = t
  <2>1. attempt'[c] = n + 1 /\ ~Ended(c)'
    BY SMTT(30), <1>5 DEF Again, Ended
  <2>2. Len(events'[c]) = attempt'[c] + (IF Ended(c)' THEN 1 ELSE 0)
    BY SMTT(30), <1>3, <1>5, <2>1
  <2> QED
    BY Zenon, <1>3, <1>4, <1>5, <2>1, <2>2 DEF Story, Ended
<1>6. CASE phase'[c] = "failed" /\ events'[c] = t \o <<"failure">>
  <2>1. PICK x \in EventNames : x = "failure"
    BY SMTT(30) DEF EventNames
  <2>2. /\ events'[c] \in Seq(EventNames) /\ events'[c] # <<>>
        /\ Len(events'[c]) = n + 1 + 1
        /\ \A i \in 1..(n + 1) : events'[c][i] = t[i]
        /\ events'[c][n + 1 + 1] = "failure"
    <3>1. PICK u : u = t \o <<x>>
      BY Zenon
    <3>2. /\ u \in Seq(EventNames) /\ u # <<>> /\ Len(u) = Len(t) + 1
          /\ \A i \in 1..Len(t) : u[i] = t[i]
          /\ u[Len(t) + 1] = x
      BY Zenon, <1>3, <3>1, Emitted
    <3>3. events'[c] = u
      BY Zenon, <1>6, <2>1, <3>1
    <3> QED
      BY <1>3, <2>1, <3>2, <3>3
  <2>3. events'[c][1] = "start" /\ \A i \in 2..(n + 1) : events'[c][i] = "retry"
    BY SMTT(30), <1>4, <2>2
  <2> QED
    BY SMTT(30), <1>6, <2>2, <2>3 DEF Again, Story, Ended
<1> QED
  BY SMTT(30), <1>2, <1>5, <1>6 DEF Again

LEMMA StoryBegins ==
    ASSUME NEW c \in Calls, Story(c), events[c] \in Seq(EventNames), attempt[c] \in 1..3,
           Begins(c)
    PROVE  Story(c)' /\ events'[c] \in Seq(EventNames)
<1>1. attempt[c] = 1 /\ events[c] = <<>>
  BY DEF Begins, Story
<1>2. PICK t : t = <<"start">>
  BY Zenon
<1>3. t \in Seq(EventNames) /\ Len(t) = 1 /\ t[1] = "start" /\ t # <<>>
  <2>1. t \in Seq(EventNames)
    <3>1. PICK x \in EventNames : x = "start"
      BY DEF EventNames
    <3>2. <<x>> \in Seq(EventNames)
      OBVIOUS
    <3> QED
      BY <1>2, <3>1, <3>2
  <2>2. Len(t) = 1 /\ t[1] = "start"
    <3>1. PICK x : x = "start" /\ t = <<x>>
      BY Zenon, <1>2
    <3>2. Len(<<x>>) = 1 /\ <<x>>[1] = x
      OBVIOUS
    <3> QED
      BY Zenon, <3>1, <3>2
  <2>3. t # <<>>
    <3>1. Len(<<>>) = 0
      OBVIOUS
    <3>2. Len(t) = 1
      BY Zenon, <2>2
    <3>3. Len(t) # Len(<<>>)
      BY ONLY SMTT(30), <3>1, <3>2
    <3> QED
      BY Zenon, <3>3
  <2> QED
    BY <2>1, <2>2, <2>3
<1>4. CASE phase'[c] = "failed" /\ events'[c] = events[c]
  BY <1>1, <1>4 DEF Begins, Story
<1>5. CASE phase'[c] = "attempt" /\ events'[c] = t
  <2>1. events'[c] # <<>> /\ Len(events'[c]) = 1 /\ events'[c][1] = "start"
    BY Zenon, <1>3, <1>5
  <2>2. attempt'[c] = 1
    BY ZenonT(30), <1>1 DEF Begins
  <2>3. Story(c)'
    BY SMTT(30), <1>5, <2>1, <2>2 DEF Story, Ended
  <2> QED
    BY Zenon, <1>3, <1>5, <2>3
<1>6. CASE phase'[c] = "failed" /\ events'[c] = t \o <<"failure">>
  <2>x. PICK x \in EventNames : x = "failure"
    BY Zenon DEF EventNames
  <2>u. PICK u : u = t \o <<x>>
    BY Zenon
  <2>1. x = "failure" /\ u = t \o <<x>>
    BY Zenon, <2>x, <2>u
  <2>2. /\ u \in Seq(EventNames) /\ u # <<>> /\ Len(u) = Len(t) + 1
        /\ \A i \in 1..Len(t) : u[i] = t[i]
        /\ u[Len(t) + 1] = x
    BY Zenon, <1>3, <2>1, Emitted
  <2>3. /\ events'[c] \in Seq(EventNames) /\ events'[c] # <<>>
        /\ Len(events'[c]) = 2
        /\ events'[c][1] = "start" /\ events'[c][2] = "failure"
    <3>1. events'[c] = u
      BY SMTT(30), <1>6, <2>1
    <3> QED
      BY SMTT(30), <1>3, <2>1, <2>2, <3>1
  <2> QED
    BY <1>1, <1>6, <2>3 DEF Begins, Story, Ended
<1> QED
  BY SMTT(30), <1>2, <1>4, <1>5, <1>6 DEF Begins

LEMMA StoryGoesOn ==
    ASSUME SdkInv, StoryInv, NEW c \in Calls,
           Ends(c) \/ Again(c) \/ Begins(c) \/ Waits(c)
    PROVE  Story(c)' /\ events'[c] \in Seq(EventNames)
<1>1. events[c] \in Seq(EventNames) /\ attempt[c] \in 1..3 /\ Story(c)
  BY SMTT(30) DEF SdkInv, SdkTypes, StoryInv, Attempts, MaximumReadAttempts
<1>2. CASE Waits(c)
  BY Zenon, <1>1, <1>2 DEF Waits, Story, Open, Ended
<1> QED
  BY SMTT(30), <1>1, <1>2, StoryEnds, StoryAgain, StoryBegins

LEMMA StoryStep == SdkInv /\ StoryInv /\ [SdkNext]_sdkVars => StoryInv'
<1> SUFFICES ASSUME SdkInv, StoryInv, [SdkNext]_sdkVars PROVE StoryInv'
  OBVIOUS
<1>1. /\ phase = [d \in Calls |-> phase[d]] /\ attempt = [d \in Calls |-> attempt[d]]
      /\ events = [d \in Calls |-> events[d]]
      /\ \A d \in Calls : attempt[d] \in Int
  BY DEF SdkInv, SdkTypes, StoryInv, Attempts, MaximumReadAttempts
<1> DEFINE Tells(c) == Ends(c) \/ Again(c) \/ Begins(c) \/ Waits(c)
           Others(c) == /\ events' = [d \in Calls |-> events'[d]]
                        /\ \A d \in Calls \ {c} : Waits(d)
<1>2. ASSUME NEW c \in Calls, Tells(c), Others(c) PROVE StoryInv'
  <2>1. \A d \in Calls : Tells(d)
    BY <1>2
  <2>2. \A d \in Calls : Story(d)' /\ events'[d] \in Seq(EventNames)
    BY SMTT(30), <2>1, StoryGoesOn
  <2> QED
    BY <1>2, <2>2 DEF StoryInv
<1>3. ASSUME UNCHANGED <<phase, attempt, events>> PROVE StoryInv'
  BY SMTT(30), <1>3 DEF StoryInv, Story, Ended
<1>4. ASSUME NEW c \in Calls, NEW error, Open(c), HandleError(c, error) PROVE Tells(c) /\ Others(c)
  BY Zenon, <1>1, <1>4 DEF HandleError, Fail, Ends, Again, Waits
<1>5. ASSUME NEW c \in Calls, NEW k \in Attempts, NEW error, Reject(c, k, error) PROVE StoryInv'
  <2>1. CASE Awaited(c, k)
    BY <1>2, <1>4, <1>5, <2>1 DEF Reject, Awaited, Open
  <2>2. CASE ~Awaited(c, k)
    BY SMTT(30), <1>3, <1>5, <2>2 DEF Reject, opVars
  <2> QED
    BY <2>1, <2>2
<1>6. ASSUME NEW c \in Calls, NEW k \in Attempts, NEW status, Resolve(c, k, status) PROVE StoryInv'
  <2>1. CASE Awaited(c, k)
    <3>1. Ends(c) /\ Others(c)
      BY <1>1, <1>6, <2>1 DEF Resolve, Awaited, Ends, Waits, Open
    <3> QED
      BY SMTT(30), <1>2, <3>1
  <2>2. CASE ~Awaited(c, k)
    BY <1>3, <1>6, <2>2 DEF Resolve
  <2> QED
    BY <2>1, <2>2
<1>7. ASSUME NEW c \in Calls, Invoke(c) PROVE StoryInv'
  <2>1. Begins(c)
    BY Zenon, <1>1, <1>7 DEF Invoke, Fail, Begins
  <2>2. Others(c)
    BY Zenon, <1>1, <1>7 DEF Invoke, Fail, Waits
  <2> QED
    BY <1>2, <2>1, <2>2
<1>8. ASSUME NEW c \in Calls, Retry(c) PROVE StoryInv'
  <2>1. Waits(c) /\ Others(c)
    BY <1>1, <1>8 DEF Retry, Waits, Open
  <2> QED
    BY SMTT(30), <1>2, <2>1
<1>9. ASSUME NEW c \in Calls, Abort(c) \/ Timeout(c) PROVE StoryInv'
  <2>1. Ends(c) /\ Others(c)
    BY Zenon, <1>1, <1>9 DEF Abort, Timeout, Fail, Ends, Waits
  <2> QED
    BY <1>2, <2>1
<1>10. ASSUME NEW c \in Calls, NEW k \in Attempts, TaskStep(c, k) PROVE StoryInv'
  <2>1. \/ \E error : Reject(c, k, error)
        \/ \E status : Resolve(c, k, status)
        \/ UNCHANGED opVars
    BY Zenon, <1>10 DEF TaskStep, AnswerFails, ThrowIfAborted, RefuseLocally, Answer, Receipt, ChainId,
       Call, ReadNonce, ReadBalance, Preflighted, AnswersOutOfRange, Authorize, Acknowledge
  <2> QED
    BY <1>3, <1>5, <1>6, <2>1 DEF opVars
<1>11. ASSUME \/ \E c \in Calls : EditRequest(c)
              \/ \E tx \in sent, success \in BOOLEAN : Commit(tx, success)
              \/ SpendElsewhere
              \/ UNCHANGED sdkVars
       PROVE  StoryInv'
  <2>1. UNCHANGED opVars
    BY SMTT(30), <1>11 DEF EditRequest, Commit, SpendElsewhere, sdkVars
  <2> QED
    BY <1>3, <2>1 DEF opVars
<1> QED
  BY <1>7, <1>8, <1>9, <1>10, <1>11 DEF SdkNext

LEMMA StoryInit == SdkInit => StoryInv
BY DEF SdkInit, StoryInv, Story, Open, Ended

\* The events whose story is told are as many as the story says.
LEMMA StoryCounts ==
    ASSUME SdkInv, StoryInv
    PROVE  EventsTellTheStory
<1> SUFFICES ASSUME NEW c \in Calls
             PROVE  LET told(p) == Cardinality({i \in DOMAIN events[c] : events[c][i] = p})
                    IN  /\ told("retry") = attempt[c] - 1
                        /\ told("start") = IF events[c] = <<>> THEN 0 ELSE 1
                        /\ told("success") = (IF phase[c] = "succeeded" THEN 1 ELSE 0)
                        /\ told("failure") =
                             IF phase[c] = "failed" /\ events[c] # <<>> THEN 1 ELSE 0
                        /\ Open(c) => events[c] # <<>>
  BY Zenon DEF EventsTellTheStory
<1> DEFINE At(p) == {i \in DOMAIN events[c] : events[c][i] = p}
           n == attempt[c]
<1>1. /\ events[c] \in Seq(EventNames) /\ n \in 1..3 /\ Story(c) /\ phase[c] \in Phases
      /\ DOMAIN events[c] = 1..Len(events[c])
  BY SMTT(30) DEF SdkInv, SdkTypes, StoryInv, Attempts, MaximumReadAttempts
<1>2. Open(c) => events[c] # <<>>
  <2>1. events[c] = <<>> => phase[c] \in {"idle", "failed"}
    BY Zenon, <1>1 DEF Story
  <2>2. Open(c) => phase[c] \notin {"idle", "failed"}
    BY SMTT(30) DEF Open
  <2> QED
    BY Zenon, <2>1, <2>2
<1>3. CASE events[c] = <<>>
  <2>1. n = 1 /\ phase[c] # "succeeded"
    BY <1>1, <1>3 DEF Story
  <2>2. \A p : At(p) = {}
    <3>1. DOMAIN events[c] = {}
      BY <1>1, <1>3, SMT
    <3> QED
      BY <3>1, Zenon
  <2> HIDE DEF At
  <2>3. \A p : Cardinality(At(p)) = 0
    BY SMTT(30), <2>2, FS_EmptySet
  <2> QED
    BY SMTT(30), <1>2, <1>3, <2>1, <2>3 DEF At
<1>4. CASE events[c] # <<>>
  <2>1. /\ Len(events[c]) = n + (IF Ended(c) THEN 1 ELSE 0)
        /\ events[c][1] = "start"
        /\ \A i \in 2..n : events[c][i] = "retry"
        /\ phase[c] = "succeeded" => events[c][n + 1] = "success"
        /\ phase[c] = "failed" => events[c][n + 1] = "failure"
    BY SMTT(30), <1>1, <1>4 DEF Story
  <2>2. DOMAIN events[c] = 1..(n + (IF Ended(c) THEN 1 ELSE 0))
    BY SMTT(30), <1>1, <2>1
  <2>3. At("start") = {1}
    BY SMTT(30), <1>1, <2>1, <2>2 DEF Ended
  <2>4. At("retry") = 2..n
    BY SMTT(30), <1>1, <2>1, <2>2 DEF Ended
  <2>5. At("success") = IF phase[c] = "succeeded" THEN {n + 1} ELSE {}
    BY SMTT(30), <1>1, <2>1, <2>2 DEF Ended
  <2>6. At("failure") = IF phase[c] = "failed" THEN {n + 1} ELSE {}
    BY SMTT(30), <1>1, <2>1, <2>2 DEF Ended
  <2> HIDE DEF At
  <2>7. Cardinality(At("retry")) = n - 1
    <3>1. 2 \in Int /\ n \in Int /\ (2 > n => n - 1 = 0) /\ (2 <= n => n - 2 + 1 = n - 1)
      BY <1>1, SMT
    <3> HIDE DEF n
    <3>2. Cardinality(2..n) = IF 2 > n THEN 0 ELSE n - 2 + 1
      BY <3>1, FS_Interval
    <3> QED
      BY <1>1, <2>4, <3>2, SMTT(30)
  <2>8. /\ Cardinality(At("start")) = 1
        /\ Cardinality(At("success")) = IF phase[c] = "succeeded" THEN 1 ELSE 0
        /\ Cardinality(At("failure")) = IF phase[c] = "failed" THEN 1 ELSE 0
    BY Zenon, <2>3, <2>5, <2>6, FS_EmptySet, FS_Singleton
  <2> QED
    BY SMTT(30), <1>2, <1>4, <2>7, <2>8 DEF At
<1> QED
  BY Zenon, <1>3, <1>4

\* A submission's transactions are one.
LEMMA SentIsOne ==
    ASSUME SdkInv
    PROVE  WritesRunOnce
<1> SUFFICES ASSUME NEW c \in Calls, phase[c] # "idle", KindOf(plan[c].task) # "read"
             PROVE  /\ \A k \in Attempts \ {1} : task[c][k] = "unstarted"
                    /\ Cardinality({tx \in sent : tx.call = c}) <= 1
  BY DEF WritesRunOnce
<1>1. CallInv(c) /\ plan[c].task = "send"
  BY DEF SdkInv, KindOf
<1>2. \A k \in Attempts \ {1} : task[c][k] = "unstarted"
  BY SMTT(30), <1>1 DEF CallInv, Single
<1> DEFINE S == {tx \in sent : tx.call = c}
<1>3. \A x, y \in S : x = y
  BY <1>1 DEF CallInv, SentBy
<1>4. S = {} \/ \E x : S = {x}
  BY Zenon, <1>3
<1> HIDE DEF S
<1>5. Cardinality(S) <= 1
  BY <1>4, FS_EmptySet, FS_Singleton
<1> QED
  BY SMTT(30), <1>2, <1>5 DEF S

\* runAction makes one attempt at a time and a submission one in all, which hands the
\* wallet at most one transaction; and the diagnostics hook is told of one start, of
\* each retry and of one end, whatever fails, times out or is aborted, by the hook
\* itself too.
THEOREM AttemptsAreSingleAndTold == SdkSpec => []AttemptsAreSingle
<1>1. SdkInit => StoryInv
  BY StoryInit
<1>2. SdkInv /\ StoryInv /\ [SdkNext]_sdkVars => StoryInv'
  BY StoryStep
<1>3. SdkInv /\ StoryInv => AttemptsAreSingle
  <2>1. SdkInv => OneAttemptInFlight
    BY DEF SdkInv, CallInv, Attempted, OneAttemptInFlight
  <2> QED
    BY <2>1, StoryCounts, SentIsOne DEF AttemptsAreSingle
<1> QED
  BY <1>1, <1>2, <1>3, SdkInvariant, PTL DEF SdkSpec
\* ============================================================== the endpoint ===

\* The requests that follow an answer.
AfterCheck == {"check", "web3_clientVersion", "net_listening", "net_peerCount"}
AfterBlock == {"eth_getBlockByNumber"} \cup AfterCheck
AfterNetworkId == {"eth_syncing", "eth_blockNumber"} \cup AfterBlock
AfterChainId == {"net_version"} \cup AfterNetworkId

Accepted == verdict = "ok"

EndpointTypes ==
    /\ node \in [network : Networks, syncing : BOOLEAN, height : Nat]
    /\ options \in Options
    /\ observed \in [syncing : BOOLEAN, blockNumber : Nat,
                     fingerprint : {"unread", "unavailable-local", "verified"}]
    /\ replaced \in BOOLEAN

\* Only failed requests were told before the end, and the end is told as it is.
ToldSoFar ==
    /\ step # "done" => verdict = "none" /\ verdicts \subseteq {"RPC_REQUEST_FAILED"}
    /\ step = "done" => verdicts \subseteq {"RPC_REQUEST_FAILED", verdict}

\* What an attempt has established of a node that was not replaced.
Established ==
    ~replaced =>
        /\ step \in AfterChainId \/ Accepted => node.network.chain = Expected.chain
        /\ step \in AfterNetworkId \/ Accepted => node.network.net = Expected.net
        /\ step \in AfterCheck \/ Accepted =>
                (options.fingerprint => node.network.genesis = Expected.genesis)
        /\ step \in AfterBlock \/ Accepted => node.height >= observed.blockNumber

\* What an attempt has established of its own answers.
Observed ==
    step \in AfterBlock \/ Accepted =>
        /\ observed.blockNumber >= options.minimum
        /\ options.ready => observed.blockNumber > 0 /\ ~observed.syncing
        /\ options.local \/ options.fingerprint

EndpointInv == EndpointTypes /\ ToldSoFar /\ Established /\ Observed

\* An attempt that throws: nothing is accepted.
LEMMA ThrowKeeps ==
    ASSUME EndpointInv, NEW cause, NEW error, step # "done", cause # "ok",
           cause = "RPC_REQUEST_FAILED" \/ ~error.safeToRetry,
           Throw(cause, error)
    PROVE  EndpointInv'
<1>1. /\ verdicts' = verdicts \cup {cause} /\ node' = node /\ options' = options
      /\ observed' = observed /\ replaced' = replaced
      /\ \/ step' = "backoff" /\ verdict' = verdict /\ error.safeToRetry
         \/ step' = "done" /\ verdict' = cause
  BY Zenon DEF Throw, MayTryAgain
<1>2. EndpointTypes'
  BY Zenon, <1>1 DEF EndpointInv, EndpointTypes
<1>3. verdict = "none" /\ verdicts \subseteq {"RPC_REQUEST_FAILED"}
  BY Zenon DEF EndpointInv, ToldSoFar
<1>4. ToldSoFar'
  BY Zenon, <1>1, <1>3 DEF ToldSoFar
<1>5. verdict' # "ok" /\ step' \notin AfterChainId
  BY <1>1, <1>3 DEF AfterChainId, AfterNetworkId, AfterBlock, AfterCheck
<1>6. AfterCheck \subseteq AfterBlock /\ AfterBlock \subseteq AfterNetworkId
      /\ AfterNetworkId \subseteq AfterChainId
  BY Zenon DEF AfterChainId, AfterNetworkId, AfterBlock
<1>7. Established' /\ Observed'
  BY Zenon, <1>5, <1>6 DEF Established, Observed, Accepted
<1> QED
  BY Zenon, <1>2, <1>4, <1>7 DEF EndpointInv

\* A verdict on the endpoint ends the call.
LEMMA RefuseKeeps ==
    ASSUME EndpointInv, NEW cause, step # "done", cause \notin {"ok", "RPC_REQUEST_FAILED"},
           RefuseEndpoint(cause)
    PROVE  EndpointInv'
<1>1. ~EndpointError(cause).safeToRetry
  BY Zenon DEF EndpointError, SdkError
<1> QED
  BY <1>1, ThrowKeeps DEF RefuseEndpoint

\* The next request, or the end, after an answer that was accepted.
LEMMA AnswerKept ==
    ASSUME EndpointInv, step # "done", NEW seen, NEW to,
           node' = node, options' = options, replaced' = replaced, verdicts' = verdicts,
           observed' = seen, step' = to,
           \/ to # "done" /\ verdict' = verdict
           \/ to = "done" /\ verdict' = "ok",
           seen \in [syncing : BOOLEAN, blockNumber : Nat,
                     fingerprint : {"unread", "unavailable-local", "verified"}],
           Established', Observed'
    PROVE  EndpointInv'
<1>1. EndpointTypes'
  BY Zenon DEF EndpointInv, EndpointTypes
<1>2. ToldSoFar'
  BY DEF EndpointInv, ToldSoFar
<1> QED
  BY Zenon, <1>1, <1>2 DEF EndpointInv

LEMMA IdentityKeeps ==
    ASSUME EndpointInv, ReadChainId \/ ReadNetworkId \/ ReadSyncing
    PROVE  EndpointInv'
<1>1. step \in {"eth_chainId", "net_version", "eth_syncing"} /\ step # "done"
  BY DEF ReadChainId, ReadNetworkId, ReadSyncing
<1>2. CASE RefuseEndpoint("CHAIN_ID_MISMATCH") \/ RefuseEndpoint("NETWORK_ID_MISMATCH")
  BY <1>1, <1>2, RefuseKeeps
<1>3. ASSUME NEW to \in {"net_version", "eth_syncing", "eth_blockNumber"}, NEW seen,
             Await(to, seen), seen \in [syncing : BOOLEAN, blockNumber : Nat,
                                fingerprint : {"unread", "unavailable-local", "verified"}],
             node.network.chain = Expected.chain \/ (step # "eth_chainId"),
             to # "net_version" =>
                node.network.net = Expected.net \/ step = "eth_syncing",
             to = "net_version" <=> step = "eth_chainId"
      PROVE  EndpointInv'
  <2>1. /\ node' = node /\ options' = options /\ replaced' = replaced /\ verdicts' = verdicts
        /\ observed' = seen /\ step' = to /\ verdict' = verdict
    BY Zenon, <1>3 DEF Await
  <2>2. verdict = "none"
    BY Zenon, <1>1 DEF EndpointInv, ToldSoFar
  <2>3. to \notin AfterBlock /\ to \notin AfterCheck /\ ~Accepted'
    BY <2>1, <2>2 DEF AfterBlock, AfterCheck, Accepted
  <2>4. Observed'
    BY Zenon, <2>1, <2>3 DEF Observed
  <2>5. ~replaced => node.network.chain = Expected.chain
    BY SMTT(30), <1>1, <1>3 DEF EndpointInv, Established, AfterChainId, AfterNetworkId
  <2>6. ~replaced /\ to # "net_version" => node.network.net = Expected.net
    BY <1>1, <1>3 DEF EndpointInv, Established, AfterNetworkId
  <2>7. to \in AfterNetworkId => to # "net_version"
    BY DEF AfterNetworkId, AfterBlock, AfterCheck
  <2>8. Established'
    BY Zenon, <2>1, <2>3, <2>5, <2>6, <2>7 DEF Established
  <2>9. to # "done"
    BY <1>3
  <2> QED
    BY Zenon, <1>1, <1>3, <2>1, <2>4, <2>8, <2>9, AnswerKept
<1>4. observed \in [syncing : BOOLEAN, blockNumber : Nat,
                    fingerprint : {"unread", "unavailable-local", "verified"}]
      /\ node.syncing \in BOOLEAN
  BY DEF EndpointInv, EndpointTypes
<1>5. [observed EXCEPT !.syncing = node.syncing] \in
        [syncing : BOOLEAN, blockNumber : Nat,
         fingerprint : {"unread", "unavailable-local", "verified"}]
  BY SMTT(30), <1>4
<1>6. CASE ReadChainId /\ node.network.chain = Expected.chain
  <2>1. step = "eth_chainId" /\ Await("net_version", observed)
    BY Zenon, <1>6 DEF ReadChainId
  <2> QED
    BY <1>3, <1>4, <1>6, <2>1
<1>7. CASE ReadNetworkId /\ node.network.net = Expected.net
  <2>1. step = "net_version" /\ Await("eth_syncing", observed)
    BY Zenon, <1>7 DEF ReadNetworkId
  <2> QED
    BY <1>3, <1>4, <1>7, <2>1
<1>8. CASE ReadSyncing
  <2>1. step = "eth_syncing" /\ Await("eth_blockNumber", [observed EXCEPT !.syncing = node.syncing])
    BY Zenon, <1>8 DEF ReadSyncing
  <2> QED
    BY <1>3, <1>5, <2>1
<1> QED
  BY Zenon, <1>2, <1>6, <1>7, <1>8 DEF ReadChainId, ReadNetworkId

\* After the block number was read and found in order.
LEMMA BlockAnswerKept ==
    ASSUME EndpointInv, step \in {"eth_blockNumber"} \cup AfterBlock, NEW seen,
           seen \in [syncing : BOOLEAN, blockNumber : Nat,
                     fingerprint : {"unread", "unavailable-local", "verified"}],
           seen.blockNumber >= options.minimum,
           options.ready => seen.blockNumber > 0 /\ ~seen.syncing,
           options.local \/ options.fingerprint,
           ~replaced => node.height >= seen.blockNumber,
           \/ Await("eth_getBlockByNumber", seen)
           \/ /\ \/ \E to \in AfterCheck : Await(to, seen)
                 \/ Accept(seen)
              /\ ~replaced => (options.fingerprint => node.network.genesis = Expected.genesis)
    PROVE  EndpointInv'
<1>1. /\ node' = node /\ options' = options /\ replaced' = replaced /\ verdicts' = verdicts
      /\ observed' = seen
  BY Zenon DEF Await, Accept
<1>2. PICK to : /\ step' = to
                /\ \/ to = "eth_getBlockByNumber" /\ verdict' = verdict
                   \/ to \in AfterCheck /\ verdict' = verdict
                   \/ to = "done" /\ verdict' = "ok"
  BY Zenon DEF Await, Accept
<1>3. step # "done" /\ step \in AfterNetworkId /\ step \in AfterChainId
  BY DEF AfterChainId, AfterNetworkId, AfterBlock, AfterCheck
<1>4. verdict = "none"
  BY Zenon, <1>3 DEF EndpointInv, ToldSoFar
<1>5. /\ to # "done" => verdict' # "ok"
      /\ "eth_getBlockByNumber" # "done" /\ "done" \notin AfterCheck
      /\ "eth_getBlockByNumber" \notin AfterCheck
  BY <1>2, <1>4 DEF AfterCheck
<1>6. ~replaced => node.network.chain = Expected.chain /\ node.network.net = Expected.net
  BY Zenon, <1>3 DEF EndpointInv, Established
<1>7. ~replaced /\ (to \in AfterCheck \/ to = "done") =>
        (options.fingerprint => node.network.genesis = Expected.genesis)
  BY <1>2, <1>5 DEF Await
<1>8. Established'
  BY Zenon, <1>1, <1>2, <1>5, <1>6, <1>7 DEF Established, Accepted
<1>9. Observed'
  BY Zenon, <1>1 DEF Observed
<1>10. \/ to # "done" /\ verdict' = verdict
       \/ to = "done" /\ verdict' = "ok"
  BY Zenon, <1>2, <1>5
<1> QED
  BY Zenon, <1>1, <1>2, <1>3, <1>8, <1>9, <1>10, AnswerKept

LEMMA AfterFingerprintForm ==
    ASSUME NEW seen, AfterFingerprint(seen)
    PROVE  (\E to \in AfterCheck : Await(to, seen)) \/ Accept(seen)
<1>1. "check" \in AfterCheck /\ "web3_clientVersion" \in AfterCheck
  BY DEF AfterCheck
<1> QED
  BY Zenon, <1>1 DEF AfterFingerprint

LEMMA BlockKeeps ==
    ASSUME EndpointInv, ReadBlockNumber
    PROVE  EndpointInv'
<1> DEFINE seen == [observed EXCEPT !.blockNumber = node.height]
           last == [seen EXCEPT !.fingerprint = "unavailable-local"]
           Answers == [syncing : BOOLEAN, blockNumber : Nat,
                       fingerprint : {"unread", "unavailable-local", "verified"}]
<1>1. step = "eth_blockNumber" /\ step # "done"
  BY DEF ReadBlockNumber
<1>2. observed \in Answers /\ node.height \in Nat /\ options.minimum \in Nat
  BY DEF EndpointInv, EndpointTypes, Options
<1>3. /\ seen \in Answers /\ seen.blockNumber = node.height /\ seen.syncing = observed.syncing
  BY <1>2
<1>4. last \in Answers /\ last.blockNumber = seen.blockNumber /\ last.syncing = seen.syncing
  BY Zenon, <1>3
<1>5. CASE Defect(seen) # "none"
  <2>1. RefuseEndpoint(Defect(seen))
    BY Zenon, <1>5 DEF ReadBlockNumber
  <2>2. Defect(seen) \notin {"ok", "RPC_REQUEST_FAILED"}
    BY DEF Defect
  <2> QED
    BY Zenon, <1>1, <2>1, <2>2, RefuseKeeps
<1>6. CASE Defect(seen) = "none"
  <2> HIDE DEF seen, last
  <2>1. /\ options.ready => Status(seen) \notin {"syncing", "booting"}
        /\ ~(seen.blockNumber < options.minimum)
        /\ options.local \/ options.fingerprint
    BY <1>6 DEF Defect
  <2>2. options.ready => ~seen.syncing /\ seen.blockNumber # 0
    BY <2>1 DEF Status
  <2>3. /\ seen.blockNumber >= options.minimum
        /\ options.ready => seen.blockNumber > 0 /\ ~seen.syncing
        /\ node.height >= seen.blockNumber
    BY <1>2, <1>3, <2>1, <2>2
  <2>4. step \in {"eth_blockNumber"} \cup AfterBlock
    BY <1>1
  <2>5. CASE options.fingerprint
    <3>1. Await("eth_getBlockByNumber", seen)
      BY Zenon, <1>6, <2>5 DEF ReadBlockNumber, seen
    <3> QED
      BY Zenon, <1>3, <2>1, <2>3, <2>4, <3>1, BlockAnswerKept
  <2>6. CASE ~options.fingerprint
    <3>1. AfterFingerprint(last)
      BY Zenon, <1>6, <2>6 DEF ReadBlockNumber, seen, last
    <3>2. (\E to \in AfterCheck : Await(to, last)) \/ Accept(last)
      BY Zenon, <3>1, AfterFingerprintForm
    <3>3. /\ last.blockNumber >= options.minimum
          /\ options.ready => last.blockNumber > 0 /\ ~last.syncing
          /\ node.height >= last.blockNumber
      BY Zenon, <1>4, <2>3
    <3> QED
      BY Zenon, <1>4, <2>1, <2>4, <2>6, <3>2, <3>3, BlockAnswerKept
  <2> QED
    BY Zenon, <2>5, <2>6
<1> QED
  BY Zenon, <1>5, <1>6

\* Every later answer leaves what was observed as it is.
LEMMA LateAnswerKept ==
    ASSUME EndpointInv, step \in AfterBlock, NEW seen,
           seen \in [syncing : BOOLEAN, blockNumber : Nat,
                     fingerprint : {"unread", "unavailable-local", "verified"}],
           seen.blockNumber = observed.blockNumber, seen.syncing = observed.syncing,
           (\E to \in AfterCheck : Await(to, seen)) \/ Accept(seen),
           step \in AfterCheck \/ node.network.genesis = Expected.genesis
    PROVE  EndpointInv'
<1>1. /\ seen.blockNumber >= options.minimum
      /\ options.ready => seen.blockNumber > 0 /\ ~seen.syncing
      /\ options.local \/ options.fingerprint
  BY Zenon DEF EndpointInv, Observed
<1>2. ~replaced => node.height >= seen.blockNumber
  BY Zenon DEF EndpointInv, Established
<1>3. ~replaced => (options.fingerprint => node.network.genesis = Expected.genesis)
  BY Zenon DEF EndpointInv, Established
<1>4. step \in {"eth_blockNumber"} \cup AfterBlock
  BY Zenon
<1> QED
  BY Zenon, <1>1, <1>2, <1>3, <1>4, BlockAnswerKept

LEMMA LateKeeps ==
    ASSUME EndpointInv, ReadGenesis \/ Check \/ ReadStatus \/ ReadPeerCount
    PROVE  EndpointInv'
<1> DEFINE Answers == [syncing : BOOLEAN, blockNumber : Nat,
                       fingerprint : {"unread", "unavailable-local", "verified"}]
           seen == [observed EXCEPT !.fingerprint = "verified"]
<1>1. observed \in Answers
  BY Zenon DEF EndpointInv, EndpointTypes
<1>2. seen \in Answers /\ seen.blockNumber = observed.blockNumber /\ seen.syncing = observed.syncing
  BY <1>1
<1> HIDE DEF seen
<1>3. CASE ReadGenesis
  <2>1. step = "eth_getBlockByNumber" /\ step # "done" /\ step \in AfterBlock
    BY <1>3 DEF ReadGenesis, AfterBlock
  <2>2. CASE node.network.genesis # Expected.genesis
    <3>1. RefuseEndpoint("NETWORK_FINGERPRINT_MISMATCH")
      BY Zenon, <1>3, <2>2 DEF ReadGenesis
    <3> QED
      BY <2>1, <3>1, RefuseKeeps
  <2>3. CASE node.network.genesis = Expected.genesis
    <3>1. AfterFingerprint(seen)
      BY Zenon, <1>3, <2>3 DEF ReadGenesis, seen
    <3>2. (\E to \in AfterCheck : Await(to, seen)) \/ Accept(seen)
      BY Zenon, <3>1, AfterFingerprintForm
    <3> QED
      BY Zenon, <1>2, <2>1, <2>3, <3>2, LateAnswerKept
  <2> QED
    BY Zenon, <2>2, <2>3
<1>4. CASE Check /\ RefuseEndpoint("ENDPOINT_INCOMPATIBLE")
  <2>1. step # "done"
    BY <1>4 DEF Check
  <2> QED
    BY <1>4, <2>1, RefuseKeeps
<1>5. CASE (Check /\ Accept(observed)) \/ ReadStatus \/ ReadPeerCount
  <2>1. step \in AfterCheck /\ step \in AfterBlock
    BY <1>5 DEF Check, ReadStatus, ReadPeerCount, AfterBlock, AfterCheck
  <2>2. "net_listening" \in AfterCheck /\ "net_peerCount" \in AfterCheck
    BY DEF AfterCheck
  <2>3. (\E to \in AfterCheck : Await(to, observed)) \/ Accept(observed)
    BY Zenon, <1>5, <2>2 DEF ReadStatus, ReadPeerCount
  <2> QED
    BY Zenon, <1>1, <2>1, <2>3, LateAnswerKept
<1> QED
  BY Zenon, <1>3, <1>4, <1>5 DEF Check

\* A step after which nothing is established: the start of an attempt, or an end.
LEMMA NothingEstablished ==
    ASSUME verdict' # "ok", step' \in {"idle", "eth_chainId", "done"}
    PROVE  Established' /\ Observed'
<1>1. /\ step' \notin AfterChainId /\ step' \notin AfterNetworkId
      /\ step' \notin AfterBlock /\ step' \notin AfterCheck
  BY DEF AfterChainId, AfterNetworkId, AfterBlock, AfterCheck
<1> QED
  BY Zenon, <1>1 DEF Established, Observed, Accepted

LEMMA CallKeeps ==
    ASSUME EndpointInv,
           \/ \E http, webSocket \in UrlLists : WithToriumRpcUrls(http, webSocket)
           \/ StartAttempt \/ RequestFails \/ ResponseInvalid \/ AbortCall
    PROVE  EndpointInv'
<1>1. ASSUME NEW http, NEW webSocket, WithToriumRpcUrls(http, webSocket) PROVE EndpointInv'
  <2>1. step = "new" /\ step # "done"
    BY <1>1 DEF WithToriumRpcUrls
  <2>2. CASE RefuseEndpoint("CONFIG_INVALID")
    BY <2>1, <2>2, RefuseKeeps
  <2>3. CASE Await("idle", observed)
    <3>1. /\ node' = node /\ options' = options /\ replaced' = replaced /\ verdicts' = verdicts
          /\ observed' = observed /\ step' = "idle" /\ verdict' = verdict
      BY Zenon, <2>3 DEF Await
    <3>2. verdict' # "ok" /\ "idle" # "done"
      BY <2>1, <3>1 DEF EndpointInv, ToldSoFar
    <3>3. Established' /\ Observed'
      BY <3>1, <3>2, NothingEstablished
    <3>4. observed \in [syncing : BOOLEAN, blockNumber : Nat,
                        fingerprint : {"unread", "unavailable-local", "verified"}]
      BY Zenon DEF EndpointInv, EndpointTypes
    <3> QED
      BY Zenon, <2>1, <3>1, <3>2, <3>3, <3>4, AnswerKept
  <2> QED
    BY Zenon, <1>1, <2>2, <2>3 DEF WithToriumRpcUrls
<1>2. CASE StartAttempt
  <2>1. /\ step \in {"idle", "backoff"} /\ observed' = NothingObserved /\ replaced' = FALSE
        /\ node' = node /\ options' = options
        /\ \/ /\ step' = "done" /\ verdict' = "CONFIG_INVALID"
              /\ verdicts' = verdicts \cup {"CONFIG_INVALID"}
           \/ step' = "eth_chainId" /\ verdict' = verdict /\ verdicts' = verdicts
    BY Zenon, <1>2 DEF StartAttempt
  <2>2. verdict = "none" /\ verdicts \subseteq {"RPC_REQUEST_FAILED"}
    BY <2>1 DEF EndpointInv, ToldSoFar
  <2>3. ToldSoFar'
    BY Zenon, <2>1, <2>2 DEF ToldSoFar
  <2>4. verdict' # "ok" /\ step' \in {"idle", "eth_chainId", "done"}
    BY <2>1, <2>2
  <2>5. NothingObserved \in [syncing : BOOLEAN, blockNumber : Nat,
                             fingerprint : {"unread", "unavailable-local", "verified"}]
    BY DEF NothingObserved
  <2>6. EndpointTypes'
    BY Zenon, <2>1, <2>5 DEF EndpointInv, EndpointTypes
  <2> QED
    BY Zenon, <2>3, <2>4, <2>6, NothingEstablished DEF EndpointInv
<1>3. CASE RequestFails
  <2>1. PICK raw \in EndpointErrors : Throw("RPC_REQUEST_FAILED", RequestFailed(raw))
    BY Zenon, <1>3 DEF RequestFails
  <2>2. step # "done" /\ "RPC_REQUEST_FAILED" # "ok"
    BY <1>3 DEF RequestFails, RpcMethods
  <2> QED
    BY Zenon, <2>1, <2>2, ThrowKeeps
<1>4. CASE ResponseInvalid
  <2>1. step # "done" /\ RefuseEndpoint("RPC_RESPONSE_INVALID")
    BY SMTT(30), <1>4 DEF ResponseInvalid, RpcMethods
  <2> QED
    BY <2>1, RefuseKeeps
<1>5. CASE AbortCall
  <2>1. /\ step # "done" /\ step' = "done" /\ verdict' = "RPC_ABORTED"
        /\ verdicts' = verdicts \cup {"RPC_ABORTED"}
        /\ node' = node /\ options' = options /\ observed' = observed /\ replaced' = replaced
    BY <1>5 DEF AbortCall, RpcMethods
  <2>2. verdicts \subseteq {"RPC_REQUEST_FAILED"}
    BY Zenon, <2>1 DEF EndpointInv, ToldSoFar
  <2>3. ToldSoFar'
    BY <2>1, <2>2 DEF ToldSoFar
  <2>4. verdict' # "ok" /\ step' \in {"idle", "eth_chainId", "done"}
    BY <2>1
  <2>5. EndpointTypes'
    BY Zenon, <2>1 DEF EndpointInv, EndpointTypes
  <2> QED
    BY Zenon, <2>3, <2>4, <2>5, NothingEstablished DEF EndpointInv
<1> QED
  BY Zenon, <1>1, <1>2, <1>3, <1>4, <1>5

\* Between two answers the node goes on, or is another one.
LEMMA NodeKeeps ==
    ASSUME EndpointInv, NodeProgress \/ NodeReplaced
    PROVE  EndpointInv'
<1>1. /\ options' = options /\ step' = step /\ observed' = observed
      /\ verdict' = verdict /\ verdicts' = verdicts
  BY Zenon DEF NodeProgress, NodeReplaced, NodeUnchanged
<1>2. /\ node \in [network : Networks, syncing : BOOLEAN, height : Nat]
      /\ options \in Options /\ replaced \in BOOLEAN
      /\ observed \in [syncing : BOOLEAN, blockNumber : Nat,
                       fingerprint : {"unread", "unavailable-local", "verified"}]
  BY Zenon DEF EndpointInv, EndpointTypes
<1>3. ToldSoFar' /\ Observed'
  BY Zenon, <1>1 DEF EndpointInv, ToldSoFar, Observed, Accepted
<1>4. CASE NodeProgress
  <2>1. /\ replaced' = replaced
        /\ \/ node' = [node EXCEPT !.height = @ + 1]
           \/ node' = [node EXCEPT !.syncing = ~@]
    BY Zenon, <1>4 DEF NodeProgress
  <2>2. /\ node' \in [network : Networks, syncing : BOOLEAN, height : Nat]
        /\ node'.network = node.network /\ node'.height >= node.height
    <3>1. CASE node' = [node EXCEPT !.height = @ + 1]
      BY <1>2, <3>1
    <3>2. CASE node' = [node EXCEPT !.syncing = ~@]
      <4>1. PICK b \in BOOLEAN : node' = [node EXCEPT !.syncing = b]
        BY Zenon, <3>2
      <4> QED
        BY <1>2, <4>1
    <3> QED
      BY Zenon, <2>1, <3>1, <3>2
  <2>3. \A b \in Nat : node.height >= b => node'.height >= b
    BY <1>2, <2>2
  <2>4. observed.blockNumber \in Nat
    BY <1>2
  <2>5. Established'
    <3> SUFFICES ASSUME ~replaced PROVE Established'
      BY Zenon, <2>1 DEF Established
    <3>1. /\ step \in AfterChainId \/ verdict = "ok" => node'.network.chain = Expected.chain
          /\ step \in AfterNetworkId \/ verdict = "ok" => node'.network.net = Expected.net
          /\ step \in AfterCheck \/ verdict = "ok" =>
                (options.fingerprint => node'.network.genesis = Expected.genesis)
      BY Zenon, <2>2 DEF EndpointInv, Established, Accepted
    <3>2. step \in AfterBlock \/ verdict = "ok" => node'.height >= observed.blockNumber
      BY Zenon, <2>3, <2>4 DEF EndpointInv, Established, Accepted
    <3> QED
      BY Zenon, <1>1, <3>1, <3>2 DEF Established, Accepted
  <2> QED
    BY Zenon, <1>1, <1>2, <1>3, <2>1, <2>2, <2>5 DEF EndpointInv, EndpointTypes
<1>5. CASE NodeReplaced
  <2>1. /\ replaced' = TRUE
        /\ node' \in [network : Networks \ {node.network}, syncing : {node.syncing}, height : 0..1]
    BY Zenon, <1>5 DEF NodeReplaced
  <2>2. node' \in [network : Networks, syncing : BOOLEAN, height : Nat]
    BY <1>2, <2>1
  <2>3. Established'
    BY Zenon, <2>1 DEF Established
  <2> QED
    BY Zenon, <1>1, <1>2, <1>3, <2>1, <2>2, <2>3 DEF EndpointInv, EndpointTypes
<1> QED
  BY Zenon, <1>4, <1>5

LEMMA EndpointStarts == EndpointInit => EndpointInv
<1> SUFFICES ASSUME EndpointInit PROVE EndpointInv
  OBVIOUS
<1>1. /\ step = "new" /\ verdict = "none" /\ verdicts = {} /\ replaced = FALSE
      /\ observed = NothingObserved /\ options \in Options
      /\ node \in [network : Networks, syncing : BOOLEAN, height : 0..1]
  BY Zenon DEF EndpointInit
<1>2. EndpointTypes
  <2>1. replaced \in BOOLEAN
    BY Zenon, <1>1
  <2>2. node \in [network : Networks, syncing : BOOLEAN, height : Nat]
    BY <1>1
  <2>3. NothingObserved \in [syncing : BOOLEAN, blockNumber : Nat,
                             fingerprint : {"unread", "unavailable-local", "verified"}]
    BY DEF NothingObserved
  <2> QED
    BY Zenon, <1>1, <2>1, <2>2, <2>3 DEF EndpointTypes
<1>3. ToldSoFar
  BY SMTT(30), <1>1 DEF ToldSoFar
<1>4. Established /\ Observed
  BY <1>1 DEF Established, Observed, Accepted, AfterChainId, AfterNetworkId, AfterBlock, AfterCheck
<1> QED
  BY Zenon, <1>2, <1>3, <1>4 DEF EndpointInv

\* An endpoint that validateToriumEndpoint accepts is the selected network and as high as
\* was asked, unless it was replaced meanwhile, and a verdict that is no failed request
\* ends the call: for any networks, errors, heights and options, whatever the node does
\* between two answers (validateToriumEndpoint, getToriumNetworkStatus, runAction).
THEOREM VerdictIsAlwaysTrue == EndpointSpec => []VerdictIsTrue
<1>1. EndpointInv /\ [EndpointNext]_endpointVars => EndpointInv'
  <2> SUFFICES ASSUME EndpointInv, [EndpointNext]_endpointVars PROVE EndpointInv'
    OBVIOUS
  <2>1. CASE UNCHANGED endpointVars
    BY Zenon, <2>1
    DEF endpointVars, EndpointInv, EndpointTypes, ToldSoFar, Established, Observed, Accepted
  <2> QED
    BY Zenon, <2>1, CallKeeps, IdentityKeeps, BlockKeeps, LateKeeps, NodeKeeps
    DEF EndpointNext
<1>2. EndpointInv => VerdictIsTrue
  <2> SUFFICES ASSUME EndpointInv PROVE VerdictIsTrue
    OBVIOUS
  <2>1. /\ node.height \in Nat /\ observed.blockNumber \in Nat /\ options.minimum \in Nat
    BY DEF EndpointInv, EndpointTypes, Options
  <2>2. AcceptedIsTheNetwork
    BY Zenon DEF EndpointInv, Established, Observed, Accepted, AcceptedIsTheNetwork
  <2>3. verdict = "ok" /\ ~replaced =>
            /\ node.height >= observed.blockNumber /\ observed.blockNumber >= options.minimum
            /\ options.ready => observed.blockNumber > 0 /\ ~observed.syncing
    BY Zenon DEF EndpointInv, Established, Observed, Accepted
  <2>4. AcceptedIsCaughtUp
    BY <2>1, <2>3 DEF AcceptedIsCaughtUp
  <2>5. VerdictsStand
    BY DEF EndpointInv, ToldSoFar, VerdictsStand
  <2> QED
    BY Zenon, <2>2, <2>4, <2>5 DEF VerdictIsTrue
<1> QED
  BY <1>1, <1>2, EndpointStarts, PTL DEF EndpointSpec

=============================================================================
