------------------------- MODULE FaucetGuardsProofs -------------------------
(***************************************************************************)
(* What guards the public faucet, proved for every set of clients and      *)
(* signers and every profile: the token buckets let nobody exceed a rate   *)
(* and refuse an address only for what it did (FaucetRateLimiter), and the *)
(* breakers open and close on exactly what happened (FaucetBreakers).      *)
(* And what it rests on: the journal loses nothing an Append returned      *)
(* (FaucetJournal).                                                        *)
(***************************************************************************)
EXTENDS FaucetRateLimiter, FaucetBreakers, FaucetJournal, FiniteSetTheorems, TLAPS

-----------------------------------------------------------------------------
\* The rate limiter.  The argument is about one bucket and the clients that share
\* it: their books, written for a history adm and a clock t.

Admission == [client : Clients, at : Nat]

\* The admissions numbered i to j of the clients in C (Between of the history adm).
Count(adm, i, j, C) == Cardinality({k \in i .. j : adm[k].client \in C})

\* What Fill would find in the bucket at time t.
LevelAt(slot, capacity, t) ==
    IF slot = <<>> THEN capacity
    ELSE AtMost(slot[1].tokens + (t - slot[1].lastFill), capacity)

SlotOK(slot, capacity, t) ==
    \/ slot = <<>>
    \/ \E n \in 0 .. capacity, fill \in 0 .. t :
            slot = <<[tokens |-> n, lastFill |-> fill]>>

\* Metered of the history adm.
MeteredIn(adm, C, capacity, token) ==
    \A i, j \in DOMAIN adm :
        i <= j => Count(adm, i, j, C) * token <= capacity + (adm[j].at - adm[i].at)

\* What was taken since any admission, and what is left, came from a full bucket
\* and the time since then.
Covered(adm, t, C, level, capacity, token) ==
    \A i \in DOMAIN adm :
        Count(adm, i, Len(adm), C) * token + level <= capacity + (t - adm[i].at)

\* A bucket that is not full was last full at some admission, and lost nothing but
\* what was taken since.
Spent(adm, t, C, level, capacity, token) ==
    \/ level = capacity
    \/ \E i \in DOMAIN adm :
            Count(adm, i, Len(adm), C) * token + level = capacity + (t - adm[i].at)

Books(adm, t, C, slot, capacity, token) ==
    /\ SlotOK(slot, capacity, t)
    /\ MeteredIn(adm, C, capacity, token)
    /\ Covered(adm, t, C, LevelAt(slot, capacity, t), capacity, token)
    /\ Spent(adm, t, C, LevelAt(slot, capacity, t), capacity, token)

SubnetClients(s) == {c \in Clients : SubnetOf[c] = s}

\* The inductive invariant: the books of every address and of every network.
LimiterInv ==
    /\ now \in Nat
    /\ admitted \in Seq(Admission)
    /\ \A k \in DOMAIN admitted : admitted[k].at <= now
    /\ DOMAIN ips = Clients /\ DOMAIN subnets = Subnets
    /\ \A c \in Clients :
          Books(admitted, now, {c}, ips[c], IPCapacity, PerIPRefillSeconds)
    /\ \A s \in Subnets :
          Books(admitted, now, SubnetClients(s), subnets[s], SubnetCapacity, SubnetRefillSeconds)
    /\ AddressRefusalIsEarned

-----------------------------------------------------------------------------
\* The breakers.

BreakersTypeOK ==
    /\ outcomes \in Seq(BOOLEAN) /\ sinceReset \in Seq(BOOLEAN) /\ probes \in Seq(BOOLEAN)
    /\ rpcFailures \in Nat /\ rpcDown \in BOOLEAN
    /\ active \in Signers /\ fenced \subseteq Signers
    /\ probe \in [pc : {"idle", "healthy", "balance", "refill"}, read : Nat]
    /\ baseline \in [signer : Signers \cup {"none"}, balance : Nat]
    /\ rotation \in [pc : {"idle", "record"}, old : Signers]
    /\ hot \in [Signers -> Nat]
    /\ refills \in Nat /\ observed \in Nat

\* rpcFailures counts the failures after the latest healthy probe, and rpcDown says
\* whether there are enough of them.
FailuresAreTrailing ==
    /\ rpcFailures <= Len(probes)
    /\ \A i \in DOMAIN probes : i > Len(probes) - rpcFailures => ~probes[i]
    /\ rpcFailures < Len(probes) => probes[Len(probes) - rpcFailures]
    /\ rpcDown <=> rpcFailures >= RPCTripAfter

\* The first signer, once rotated out, is fenced before the next rotation and never
\* active again.
FirstSignerIsGone ==
    active # FirstSigner =>
        FirstSigner \in fenced \/ (rotation.pc = "record" /\ rotation.old = FirstSigner)

\* With since refills since the last balance was read, the signer holds at most that
\* balance and those refills; what was journaled, or is about to be, is of earlier ones.
Accounted(since) ==
    /\ observed + since <= refills
    /\ probe.pc = "idle" /\ baseline.signer = FirstSigner =>
          hot[FirstSigner] <= baseline.balance + Refill * since
    /\ probe.pc # "idle" => hot[FirstSigner] <= probe.read + Refill * since
    /\ /\ probe.pc # "idle" /\ baseline.signer = FirstSigner
       /\ probe.read >= baseline.balance + 1
       => observed + 1 + since <= refills

RefillsAccounted ==
    active = FirstSigner =>
        /\ baseline.signer \in {"none", FirstSigner}
        /\ \E since \in Nat : Accounted(since)

BreakersInv ==
    /\ BreakersTypeOK /\ WindowIsRecent /\ FailuresAreTrailing
    /\ FirstSignerIsGone /\ RefillsAccounted

-----------------------------------------------------------------------------
\* Lemmas about the books of one bucket.

\* A count is a number.
LEMMA CountNat ==
    ASSUME NEW adm, NEW i \in Nat, NEW j \in Nat, NEW C
    PROVE  Count(adm, i, j, C) \in Nat
  <1>1. IsFiniteSet(i .. j)
    BY FS_Interval
  <1>2. IsFiniteSet({k \in i .. j : adm[k].client \in C})
    BY <1>1, FS_Subset, Zenon
  <1> QED
    BY <1>2, FS_CardinalityType, Zenon DEF Count

\* One more admission adds one to the counts of the client's buckets and nothing to
\* the others (the append in Admit).
LEMMA CountGrows ==
    ASSUME NEW adm \in Seq(Admission), NEW x \in Admission, NEW C
    PROVE  /\ \A i, j \in 1 .. Len(adm) : Count(Append(adm, x), i, j, C) = Count(adm, i, j, C)
           /\ \A i \in 1 .. Len(adm) + 1 :
                Count(Append(adm, x), i, Len(adm) + 1, C) =
                    Count(adm, i, Len(adm), C) + (IF x.client \in C THEN 1 ELSE 0)
           /\ Count(adm, Len(adm) + 1, Len(adm), C) = 0
  <1> DEFINE n == Len(adm)
             longer == Append(adm, x)
             S(i, j) == {k \in i .. j : adm[k].client \in C}
             L(i, j) == {k \in i .. j : longer[k].client \in C}
  <1>n. n \in Nat
    OBVIOUS
  <1>a. \A k \in 1 .. n : longer[k] = adm[k]
    OBVIOUS
  <1>x. longer[n + 1] = x
    OBVIOUS
  <1> HIDE DEF longer
  <1>1. \A i, j \in 1 .. n : L(i, j) = S(i, j)
    <2> TAKE i, j \in 1 .. n
    <2>1. \A k \in i .. j : longer[k] = adm[k]
      BY <1>a, <1>n
    <2> QED
      BY <2>1, Zenon
  <1>2. \A i, j \in 1 .. n : Count(longer, i, j, C) = Count(adm, i, j, C)
    BY <1>1, Zenon DEF Count
  <1> HIDE DEF n
  <1>3. ASSUME NEW i \in 1 .. n + 1
        PROVE  Count(longer, i, n + 1, C) = Count(adm, i, n, C) + (IF x.client \in C THEN 1 ELSE 0)
    <2>1. \A k \in i .. n : longer[k] = adm[k]
      BY <1>a, <1>n
    <2>2. i .. (n + 1) = (i .. n) \cup {n + 1}
      BY <1>n
    <2>3. n + 1 \notin i .. n
      BY <1>n
    <2>4. IsFiniteSet(i .. n)
      BY <1>n, FS_Interval
    <2>5. IsFiniteSet(S(i, n))
      BY <2>4, FS_Subset, Zenon
    <2>6. n + 1 \notin S(i, n)
      BY <2>3, Zenon
    <2>7. CASE x.client \in C
      <3>1. L(i, n + 1) = S(i, n) \cup {n + 1}
        BY <2>1, <2>2, <2>3, <2>7, <1>x, Zenon
      <3>2. Cardinality(S(i, n) \cup {n + 1}) = Cardinality(S(i, n)) + 1
        BY <2>5, <2>6, FS_AddElement, Zenon
      <3>3. Count(longer, i, n + 1, C) = Count(adm, i, n, C) + 1
        BY <3>1, <3>2, Zenon DEF Count
      <3> QED
        BY <3>3, <2>7, Zenon
    <2>8. CASE x.client \notin C
      <3>1. L(i, n + 1) = S(i, n)
        BY <2>1, <2>2, <2>3, <2>8, <1>x, Zenon
      <3>2. Count(longer, i, n + 1, C) = Count(adm, i, n, C)
        BY <3>1, Zenon DEF Count
      <3>3. Count(adm, i, n, C) \in Nat
        BY <1>n, CountNat
      <3>4. Count(longer, i, n + 1, C) = Count(adm, i, n, C) + 0
        BY <3>2, <3>3
      <3> QED
        BY <3>4, <2>8, Zenon
    <2> QED
      BY <2>7, <2>8, Zenon
  <1>4. Count(adm, n + 1, n, C) = 0
    <2>1. (n + 1) .. n = {}
      BY <1>n
    <2>2. S(n + 1, n) = {}
      BY <2>1, Zenon
    <2> QED
      BY <2>2, FS_EmptySet, Zenon DEF Count
  <1> QED
    BY <1>2, <1>3, <1>4, Zenon DEF n, longer

\* Arithmetic of the tokens, whose price is a parameter of the profile.
LEMMA OneMore ==
    ASSUME NEW b \in Nat, NEW token \in Nat
    PROVE  /\ (b + 1) * token = b * token + token
           /\ (b + 0) * token = b * token
           /\ (0 + 1) * token = token
           /\ (0 + 0) * token = 0
           /\ b * token \in Nat
  OBVIOUS

\* The level of a bucket lies between nothing and its capacity.
LEMMA LevelOK ==
    ASSUME NEW capacity \in Nat, NEW t \in Nat, NEW slot, SlotOK(slot, capacity, t)
    PROVE  LevelAt(slot, capacity, t) \in 0 .. capacity
  BY DEF SlotOK, LevelAt, AtMost

\* A bucket written at time t holds what was written.
LEMMA LevelWritten ==
    ASSUME NEW capacity \in Nat, NEW t \in Nat, NEW level \in 0 .. capacity
    PROVE  LET slot == <<[tokens |-> level, lastFill |-> t]>>
           IN  SlotOK(slot, capacity, t) /\ LevelAt(slot, capacity, t) = level
  <1> DEFINE slot == <<[tokens |-> level, lastFill |-> t]>>
  <1>1. SlotOK(slot, capacity, t)
    BY DEF SlotOK
  <1>2. slot # <<>> /\ slot[1].tokens = level /\ slot[1].lastFill = t
    OBVIOUS
  <1> HIDE DEF slot
  <1>3. LevelAt(slot, capacity, t) = level
    BY <1>2 DEF LevelAt, AtMost
  <1> QED
    BY <1>1, <1>3 DEF slot

\* Time fills a bucket by at most what passed, and exactly that unless it is full.
LEMMA LevelLater ==
    ASSUME NEW capacity \in Nat, NEW t \in Nat, NEW d \in Nat, NEW slot, SlotOK(slot, capacity, t)
    PROVE  /\ SlotOK(slot, capacity, t + d)
           /\ LevelAt(slot, capacity, t + d) <= LevelAt(slot, capacity, t) + d
           /\ LevelAt(slot, capacity, t + d) \in {capacity, LevelAt(slot, capacity, t) + d}
  BY DEF SlotOK, LevelAt, AtMost

\* The books stay in order while time passes.
LEMMA BooksLater ==
    ASSUME NEW adm \in Seq(Admission), NEW t \in Nat, NEW d \in Nat, NEW C, NEW slot,
           NEW capacity \in Nat, NEW token \in Nat,
           Books(adm, t, C, slot, capacity, token)
    PROVE  Books(adm, t + d, C, slot, capacity, token)
  <1> DEFINE old == LevelAt(slot, capacity, t)
             new == LevelAt(slot, capacity, t + d)
             Taken(i) == Count(adm, i, Len(adm), C) * token
  <1>1. SlotOK(slot, capacity, t)
    BY Zenon DEF Books
  <1>2. SlotOK(slot, capacity, t + d) /\ new <= old + d /\ new \in {capacity, old + d}
    BY Zenon, <1>1, LevelLater
  <1>3. old \in 0 .. capacity /\ new \in 0 .. capacity
    BY <1>1, <1>2, LevelOK
  <1>4. Covered(adm, t, C, old, capacity, token) /\ Spent(adm, t, C, old, capacity, token)
    BY Zenon DEF Books
  <1>5. \A i \in DOMAIN adm : adm[i].at \in Nat /\ Taken(i) \in Nat
    <2> TAKE i \in DOMAIN adm
    <2>0. adm[i] \in Admission
      OBVIOUS
    <2>1. adm[i].at \in Nat
      BY <2>0, Zenon DEF Admission
    <2>2. i \in Nat /\ Len(adm) \in Nat
      OBVIOUS
    <2>3. Count(adm, i, Len(adm), C) \in Nat
      BY <2>2, CountNat, Zenon
    <2> QED
      BY <2>1, <2>3, OneMore, Zenon
  <1>6. \A i \in DOMAIN adm : Taken(i) + old <= capacity + (t - adm[i].at)
    BY <1>4, Zenon DEF Covered
  <1>7. old = capacity \/ \E i \in DOMAIN adm : Taken(i) + old = capacity + (t - adm[i].at)
    BY <1>4, Zenon DEF Spent
  <1> HIDE DEF old, new, Taken
  <1>8. \A i \in DOMAIN adm : Taken(i) + new <= capacity + ((t + d) - adm[i].at)
    <2>1. \A a, q \in Nat : q + old <= capacity + (t - a) => q + new <= capacity + ((t + d) - a)
      BY <1>2, <1>3
    <2> QED
      BY <2>1, <1>5, <1>6, Zenon
  <1>9. new = capacity \/ \E i \in DOMAIN adm : Taken(i) + new = capacity + ((t + d) - adm[i].at)
    <2>1. CASE new = capacity
      BY <2>1
    <2>2. CASE new # capacity
      <3>1. new = old + d /\ old # capacity
        BY <1>2, <1>3, <2>2
      <3>2. PICK i \in DOMAIN adm : Taken(i) + old = capacity + (t - adm[i].at)
        BY <1>7, <3>1
      <3>3. Taken(i) + new = capacity + ((t + d) - adm[i].at)
        <4>1. adm[i].at \in Nat /\ Taken(i) \in Nat
          BY <1>5, Zenon
        <4>2. old \in Nat
          BY <1>3
        <4>3. \A a, b \in Nat :
                b + old = capacity + (t - a) => b + (old + d) = capacity + ((t + d) - a)
          BY <4>2
        <4>4. Taken(i) + (old + d) = capacity + ((t + d) - adm[i].at)
          BY <4>1, <4>3, <3>2, Zenon
        <4> QED
          BY <4>4, <3>1, Zenon
      <3> QED
        BY <3>3
    <2> QED
      BY <2>1, <2>2
  <1>a. Covered(adm, t + d, C, new, capacity, token)
    BY <1>8, Zenon DEF Covered, Taken
  <1>b. Spent(adm, t + d, C, new, capacity, token)
    BY <1>9, Zenon DEF Spent, Taken
  <1>c. MeteredIn(adm, C, capacity, token)
    BY Zenon DEF Books
  <1> QED
    BY <1>2, <1>a, <1>b, <1>c, Zenon DEF Books, new

\* A request that is refused leaves what the bucket held, filled up to now.
LEMMA BooksRefused ==
    ASSUME NEW adm, NEW t \in Nat, NEW C, NEW slot, NEW capacity \in Nat, NEW token,
           Books(adm, t, C, slot, capacity, token)
    PROVE  Books(adm, t, C, <<[tokens |-> LevelAt(slot, capacity, t), lastFill |-> t]>>,
                 capacity, token)
  <1> DEFINE level == LevelAt(slot, capacity, t)
             next == <<[tokens |-> level, lastFill |-> t]>>
  <1>1. SlotOK(slot, capacity, t) /\ MeteredIn(adm, C, capacity, token)
        /\ Covered(adm, t, C, level, capacity, token) /\ Spent(adm, t, C, level, capacity, token)
    BY Zenon DEF Books
  <1>2. level \in 0 .. capacity
    BY <1>1, LevelOK, Zenon
  <1> HIDE DEF level
  <1>3. SlotOK(next, capacity, t) /\ LevelAt(next, capacity, t) = level
    BY <1>2, LevelWritten, Zenon
  <1> HIDE DEF next
  <1>4. Books(adm, t, C, next, capacity, token)
    BY <1>1, <1>3, Zenon DEF Books
  <1> QED
    BY <1>4, Zenon DEF next, level

\* An admission is charged to the bucket of its client and to no other.
LEMMA BooksAdmitted ==
    ASSUME NEW adm \in Seq(Admission), NEW t \in Nat, NEW C, NEW slot, NEW c \in Clients,
           NEW capacity \in Nat, NEW token \in Nat,
           \A k \in DOMAIN adm : adm[k].at <= t,
           Books(adm, t, C, slot, capacity, token),
           c \in C => token <= LevelAt(slot, capacity, t)
    PROVE  Books(Append(adm, [client |-> c, at |-> t]), t, C,
                 IF c \in C
                 THEN <<[tokens |-> LevelAt(slot, capacity, t) - token, lastFill |-> t]>>
                 ELSE slot,
                 capacity, token)
  <1> DEFINE n == Len(adm)
             x == [client |-> c, at |-> t]
             longer == Append(adm, x)
             old == LevelAt(slot, capacity, t)
             step == IF c \in C THEN 1 ELSE 0
             next == IF c \in C THEN <<[tokens |-> old - token, lastFill |-> t]>> ELSE slot
             new == LevelAt(next, capacity, t)
             Taken(i) == Count(adm, i, n, C) * token
             TakenNow(i) == Count(longer, i, n + 1, C) * token
  <1>n. n \in Nat
    OBVIOUS
  <1>x. x \in Admission /\ x.client = c /\ x.at = t
    BY DEF Admission
  <1>1. SlotOK(slot, capacity, t) /\ MeteredIn(adm, C, capacity, token)
        /\ Covered(adm, t, C, old, capacity, token) /\ Spent(adm, t, C, old, capacity, token)
    BY Zenon DEF Books
  <1>2. old \in 0 .. capacity
    BY <1>1, LevelOK, Zenon
  <1>3. /\ SlotOK(next, capacity, t)
        /\ c \in C => new = old - token /\ token <= old
        /\ c \notin C => new = old
    <2>1. CASE c \in C
      <3>1. old - token \in 0 .. capacity
        BY <1>2, <2>1
      <3>2. LET s == <<[tokens |-> old - token, lastFill |-> t]>>
            IN  SlotOK(s, capacity, t) /\ LevelAt(s, capacity, t) = old - token
        BY <3>1, LevelWritten
      <3> QED
        BY <3>2, <2>1, Zenon
    <2>2. CASE c \notin C
      BY <2>2, <1>1, Zenon
    <2> QED
      BY <2>1, <2>2, Zenon
  <1>4. longer \in Seq(Admission) /\ Len(longer) = n + 1 /\ DOMAIN longer = 1 .. n + 1
    BY <1>x
  <1>5. (\A k \in 1 .. n : longer[k] = adm[k]) /\ longer[n + 1] = x
    OBVIOUS
  <1>6. /\ \A i, j \in 1 .. n : Count(longer, i, j, C) = Count(adm, i, j, C)
        /\ \A i \in 1 .. n + 1 : Count(longer, i, n + 1, C) = Count(adm, i, n, C) + step
        /\ Count(adm, n + 1, n, C) = 0
    <2>1. step = IF x.client \in C THEN 1 ELSE 0
      BY <1>x, Zenon
    <2> HIDE DEF x, step
    <2>2. /\ \A i, j \in 1 .. Len(adm) : Count(Append(adm, x), i, j, C) = Count(adm, i, j, C)
          /\ \A i \in 1 .. Len(adm) + 1 :
                Count(Append(adm, x), i, Len(adm) + 1, C) =
                    Count(adm, i, Len(adm), C) + (IF x.client \in C THEN 1 ELSE 0)
          /\ Count(adm, Len(adm) + 1, Len(adm), C) = 0
      BY <1>x, CountGrows
    <2> QED
      BY <2>1, <2>2, Zenon
  <1>d. DOMAIN adm = 1 .. n
    OBVIOUS
  <1>7. \A i \in 1 .. n : adm[i].at \in Nat /\ adm[i].at <= t
    <2> TAKE i \in 1 .. n
    <2>1. adm[i] \in Admission
      BY <1>d
    <2> QED
      BY <2>1, <1>d, Zenon DEF Admission
  <1>8. \A i \in 1 .. n : Taken(i) + old <= capacity + (t - adm[i].at)
    BY <1>1, <1>d, Zenon DEF Covered
  <1>9. old = capacity \/ \E i \in 1 .. n : Taken(i) + old = capacity + (t - adm[i].at)
    BY <1>1, <1>d, Zenon DEF Spent
  <1>m. \A i, j \in 1 .. n :
            i <= j => Count(adm, i, j, C) * token <= capacity + (adm[j].at - adm[i].at)
    BY <1>1, <1>d, Zenon DEF MeteredIn
  <1> HIDE DEF old, new, next, longer, x
  \* What a bucket's clients have taken in all, and what is left.
  <1>a. \A i \in 1 .. n : TakenNow(i) + new = Taken(i) + old /\ Taken(i) \in Nat /\ TakenNow(i) \in Nat
    <2> TAKE i \in 1 .. n
    <2>1. Count(adm, i, n, C) \in Nat
      BY <1>n, CountNat
    <2>2. Count(longer, i, n + 1, C) = Count(adm, i, n, C) + step
      BY <1>6, <1>n
    <2> HIDE DEF n
    <2>3. PICK b \in Nat : b = Count(adm, i, n, C)
      BY <2>1, Zenon
    <2>4. CASE c \in C
      <3>1. TakenNow(i) = (b + 1) * token
        BY <2>2, <2>3, <2>4, Zenon
      <3>2. Taken(i) = b * token
        BY <2>3, Zenon
      <3>3. (b + 1) * token = b * token + token /\ b * token \in Nat
        BY OneMore
      <3>4. new = old - token
        BY <1>3, <2>4
      <3> HIDE DEF Taken, TakenNow
      <3>5. PICK q \in Nat : q = b * token
        BY <3>3, Zenon
      <3>6. (q + token) + (old - token) = q + old /\ q + token \in Nat
        BY <1>2
      <3> QED
        BY <3>1, <3>2, <3>3, <3>4, <3>5, <3>6, Zenon
    <2>5. CASE c \notin C
      <3>1. TakenNow(i) = (b + 0) * token
        BY <2>2, <2>3, <2>5, Zenon
      <3>2. Taken(i) = b * token
        BY <2>3, Zenon
      <3>3. (b + 0) * token = b * token /\ b * token \in Nat
        BY OneMore
      <3>4. new = old
        BY <1>3, <2>5
      <3> QED
        BY <3>1, <3>2, <3>3, <3>4, Zenon
    <2> QED
      BY <2>4, <2>5, Zenon
  <1>b. TakenNow(n + 1) + new = old /\ TakenNow(n + 1) \in Nat
    <2>1. Count(longer, n + 1, n + 1, C) = 0 + step
      <3>1. n + 1 \in 1 .. n + 1
        BY <1>n
      <3> QED
        BY <3>1, <1>6, Zenon
    <2>2. /\ (0 + 1) * token = token
          /\ (0 + 0) * token = 0
      BY OneMore
    <2>3. CASE c \in C
      <3>1. TakenNow(n + 1) = token
        BY <2>1, <2>2, <2>3, Zenon
      <3> QED
        BY <3>1, <1>2, <1>3, <2>3
    <2>4. CASE c \notin C
      <3>1. TakenNow(n + 1) = 0
        BY <2>1, <2>2, <2>4, Zenon
      <3> QED
        BY <3>1, <1>2, <1>3, <2>4
    <2> QED
      BY <2>3, <2>4, Zenon
  <1>e. new \in 0 .. capacity
    BY <1>3, LevelOK, Zenon DEF new
  <1> HIDE DEF n, Taken, TakenNow
  <1>at. (\A i \in 1 .. n : longer[i].at = adm[i].at) /\ longer[n + 1].at = t
    BY <1>5, <1>x, Zenon
  <1>split. \A i \in 1 .. n + 1 : i \in 1 .. n \/ i = n + 1
    BY <1>n
  <1>f. \A i \in 1 .. n + 1 : TakenNow(i) + new <= capacity + (t - longer[i].at)
    <2> TAKE i \in 1 .. n + 1
    <2>1. CASE i \in 1 .. n
      BY <2>1, <1>a, <1>8, <1>at, Zenon
    <2>2. CASE i = n + 1
      <3>1. old <= capacity + (t - t)
        BY <1>2
      <3> QED
        BY <2>2, <3>1, <1>b, <1>at, Zenon
    <2> QED
      BY <2>1, <2>2, <1>split, Zenon
  <1>g. new = capacity \/ \E i \in 1 .. n + 1 : TakenNow(i) + new = capacity + (t - longer[i].at)
    <2>1. CASE old = capacity
      <3>1. n + 1 \in 1 .. n + 1
        BY <1>n
      <3>2. capacity = capacity + (t - t)
        OBVIOUS
      <3>3. TakenNow(n + 1) + new = capacity + (t - longer[n + 1].at)
        BY <3>2, <2>1, <1>b, <1>at, Zenon
      <3> QED
        BY <3>1, <3>3, Zenon
    <2>2. CASE old # capacity
      <3>1. PICK i \in 1 .. n : Taken(i) + old = capacity + (t - adm[i].at)
        BY <1>9, <2>2, Zenon
      <3>2. TakenNow(i) + new = capacity + (t - longer[i].at)
        BY <3>1, <1>a, <1>at, Zenon
      <3>3. i \in 1 .. n + 1
        BY <1>n
      <3> QED
        BY <3>2, <3>3, Zenon
    <2> QED
      BY <2>1, <2>2, Zenon
  <1>h. Covered(longer, t, C, new, capacity, token)
    BY <1>f, <1>4, Zenon DEF Covered, TakenNow
  <1>i. Spent(longer, t, C, new, capacity, token)
    BY <1>g, <1>4, Zenon DEF Spent, TakenNow
  <1>j. \A i \in 1 .. n + 1 : TakenNow(i) <= capacity + (t - longer[i].at)
    <2> TAKE i \in 1 .. n + 1
    <2>1. longer[i].at \in Nat
      BY <1>at, <1>7, <1>split, Zenon
    <2>2. TakenNow(i) \in Nat
      BY <1>a, <1>b, <1>split, Zenon
    <2>3. TakenNow(i) + new <= capacity + (t - longer[i].at)
      BY <1>f, Zenon
    <2>4. \A q, a \in Nat : q + new <= capacity + (t - a) => q <= capacity + (t - a)
      BY <1>e
    <2> QED
      BY <2>1, <2>2, <2>3, <2>4, Zenon
  <1>k. MeteredIn(longer, C, capacity, token)
    <2> SUFFICES ASSUME NEW i \in 1 .. n + 1, NEW j \in 1 .. n + 1, i <= j
                 PROVE  Count(longer, i, j, C) * token <= capacity + (longer[j].at - longer[i].at)
      BY <1>4, Zenon DEF MeteredIn
    <2>1. CASE j \in 1 .. n
      <3>1. i \in 1 .. n
        BY <2>1, <1>n
      <3> QED
        BY <2>1, <3>1, <1>6, <1>m, <1>at, Zenon
    <2>2. CASE j = n + 1
      BY <2>2, <1>j, <1>at, Zenon DEF TakenNow
    <2> QED
      BY <2>1, <2>2, <1>split, Zenon
  <1>l. Books(longer, t, C, next, capacity, token)
    BY <1>3, <1>h, <1>i, <1>k, Zenon DEF Books, new
  <1> QED
    BY <1>l, Zenon DEF longer, next, x, old

-----------------------------------------------------------------------------
\* The limiter keeps the books.

\* Fill and Take in terms of the level of the bucket.
LEMMA FillIsLevel ==
    ASSUME NEW slot, NEW capacity, NEW token
    PROVE  /\ Fill(slot, capacity) = [tokens |-> LevelAt(slot, capacity, now), lastFill |-> now]
           /\ Take(Fill(slot, capacity), token) =
                 [tokens |-> LevelAt(slot, capacity, now) - token, lastFill |-> now]
  <1>1. Fill(slot, capacity) = [tokens |-> LevelAt(slot, capacity, now), lastFill |-> now]
    BY Zenon DEF Fill, Refilled, LevelAt
  <1> HIDE DEF Fill
  <1>2. \A a, b : [[tokens |-> a, lastFill |-> b] EXCEPT !.tokens = @ - token] =
                     [tokens |-> a - token, lastFill |-> b]
    OBVIOUS
  <1> QED
    BY <1>1, <1>2, Zenon DEF Take

\* The capacities are numbers and hold at least one token (Profile.Validate).
LEMMA Capacities ==
    /\ IPCapacity \in Nat /\ PerIPRefillSeconds \in Nat /\ PerIPRefillSeconds <= IPCapacity
    /\ SubnetCapacity \in Nat /\ SubnetRefillSeconds \in Nat
    /\ PerIPRefillSeconds > 0
  <1>1. ASSUME NEW b \in Nat \ {0}, NEW r \in Nat \ {0} PROVE b * r \in Nat /\ r <= b * r
    <2>1. PICK a \in Nat : b = a + 1
      <3>1. b - 1 \in Nat /\ b = (b - 1) + 1
        OBVIOUS
      <3> QED
        BY <3>1, Zenon
    <2>2. (a + 1) * r = a * r + r /\ a * r \in Nat
      BY OneMore
    <2> QED
      BY <2>1, <2>2
  <1> QED
    BY <1>1, LimiterAssumption DEF IPCapacity, SubnetCapacity

\* The books of a bucket after one Admit that reached the buckets: client c asked,
\* and was let through or not.
LEMMA BooksAfter ==
    ASSUME NEW C, NEW slot, NEW c \in Clients, NEW ok \in BOOLEAN,
           NEW capacity \in Nat, NEW token \in Nat,
           now \in Nat, admitted \in Seq(Admission),
           \A k \in DOMAIN admitted : admitted[k].at <= now,
           Books(admitted, now, C, slot, capacity, token),
           ok /\ c \in C => token <= Fill(slot, capacity).tokens
    PROVE  Books(IF ok THEN Append(admitted, [client |-> c, at |-> now]) ELSE admitted,
                 now, C,
                 IF c \in C
                 THEN <<IF ok THEN Take(Fill(slot, capacity), token) ELSE Fill(slot, capacity)>>
                 ELSE slot,
                 capacity, token)
  <1> DEFINE level == LevelAt(slot, capacity, now)
  <1>1. /\ Fill(slot, capacity) = [tokens |-> level, lastFill |-> now]
        /\ Take(Fill(slot, capacity), token) = [tokens |-> level - token, lastFill |-> now]
    BY FillIsLevel, Zenon
  <1>2. Fill(slot, capacity).tokens = level
    BY <1>1
  <1>3. CASE ok
    <2>1. Books(Append(admitted, [client |-> c, at |-> now]), now, C,
                IF c \in C THEN <<[tokens |-> level - token, lastFill |-> now]>> ELSE slot,
                capacity, token)
      BY <1>2, <1>3, BooksAdmitted
    <2> QED
      BY <2>1, <1>1, <1>3, Zenon
  <1>4. CASE ~ok
    <2>1. Books(admitted, now, C, <<[tokens |-> level, lastFill |-> now]>>, capacity, token)
      BY BooksRefused
    <2> QED
      BY <2>1, <1>1, <1>4, Zenon
  <1> QED
    BY <1>3, <1>4, Zenon

\* The limiter starts with no books.
LEMMA LimiterStarts == LimiterInit => LimiterInv
  <1> SUFFICES ASSUME LimiterInit PROVE LimiterInv
    OBVIOUS
  <1> USE DEF LimiterInit
  <1>1. \A C, token : \A capacity \in Nat : Books(<<>>, 0, C, <<>>, capacity, token)
    <2> TAKE C, token
    <2> TAKE capacity \in Nat
    <2>1. LevelAt(<<>>, capacity, 0) = capacity
      BY Zenon DEF LevelAt
    <2>2. DOMAIN <<>> = {}
      OBVIOUS
    <2>3. SlotOK(<<>>, capacity, 0)
      BY Zenon DEF SlotOK
    <2>4. MeteredIn(<<>>, C, capacity, token)
      BY <2>2, Zenon DEF MeteredIn
    <2>5. Covered(<<>>, 0, C, capacity, capacity, token)
      BY <2>2, Zenon DEF Covered
    <2>6. Spent(<<>>, 0, C, capacity, capacity, token)
      BY Zenon DEF Spent
    <2> QED
      BY <2>1, <2>3, <2>4, <2>5, <2>6, Zenon DEF Books
  <1>2. \A c \in Clients : Books(admitted, now, {c}, ips[c], IPCapacity, PerIPRefillSeconds)
    BY <1>1, Capacities, Zenon
  <1>3. \A s \in Subnets :
            Books(admitted, now, SubnetClients(s), subnets[s], SubnetCapacity, SubnetRefillSeconds)
    BY <1>1, Capacities, Zenon
  <1>4. now \in Nat /\ admitted \in Seq(Admission) /\ DOMAIN ips = Clients /\ DOMAIN subnets = Subnets
        /\ \A k \in DOMAIN admitted : admitted[k].at <= now
    OBVIOUS
  <1>5. AddressRefusalIsEarned
    BY Zenon DEF AddressRefusalIsEarned
  <1> QED
    BY <1>2, <1>3, <1>4, <1>5, Zenon DEF LimiterInv

\* Time passes.
LEMMA LimiterTick == LimiterInv /\ Tick => LimiterInv'
  <1> SUFFICES ASSUME LimiterInv, Tick PROVE LimiterInv'
    OBVIOUS
  <1>1. PICK d \in 1 .. MaxStep : now' = now + d
    BY Zenon DEF Tick
  <1>2. answer' = <<>> /\ ips' = ips /\ subnets' = subnets /\ admitted' = admitted
    BY Zenon DEF Tick
  <1>3. d \in Nat
    BY LimiterAssumption
  <1>4. now \in Nat /\ admitted \in Seq(Admission) /\ DOMAIN ips = Clients /\ DOMAIN subnets = Subnets
        /\ (\A k \in DOMAIN admitted : admitted[k].at <= now)
    BY Zenon DEF LimiterInv
  <1>5. now' \in Nat /\ \A k \in DOMAIN admitted' : admitted'[k].at <= now'
    <2>1. \A k \in DOMAIN admitted : admitted[k].at \in Nat
      <3>1. \A k \in DOMAIN admitted : admitted[k] \in Admission
        BY <1>4
      <3> QED
        BY <3>1, Zenon DEF Admission
    <2>2. \A a \in Nat : a <= now => a <= now + d
      BY <1>3, <1>4
    <2>3. now + d \in Nat
      BY <1>3, <1>4
    <2> QED
      BY <2>1, <2>2, <2>3, <1>1, <1>2, <1>4, Zenon
  <1>6. \A c \in Clients : Books(admitted, now + d, {c}, ips[c], IPCapacity, PerIPRefillSeconds)
    <2> TAKE c \in Clients
    <2>1. Books(admitted, now, {c}, ips[c], IPCapacity, PerIPRefillSeconds)
      BY Zenon DEF LimiterInv
    <2> QED
      BY <2>1, <1>3, <1>4, Capacities, BooksLater, Zenon
  <1>7. \A s \in Subnets :
            Books(admitted, now + d, SubnetClients(s), subnets[s], SubnetCapacity, SubnetRefillSeconds)
    <2> TAKE s \in Subnets
    <2>1. Books(admitted, now, SubnetClients(s), subnets[s], SubnetCapacity, SubnetRefillSeconds)
      BY Zenon DEF LimiterInv
    <2> QED
      BY <2>1, <1>3, <1>4, Capacities, BooksLater, Zenon
  <1>8. AddressRefusalIsEarned'
    BY <1>2, Zenon DEF AddressRefusalIsEarned
  <1>9. /\ \A c \in Clients :
              Books(admitted', now', {c}, ips'[c], IPCapacity, PerIPRefillSeconds)
        /\ \A s \in Subnets :
              Books(admitted', now', SubnetClients(s), subnets'[s], SubnetCapacity, SubnetRefillSeconds)
    BY <1>1, <1>2, <1>6, <1>7, Zenon
  <1> QED
    BY <1>2, <1>4, <1>5, <1>8, <1>9, Zenon DEF LimiterInv

\* A client on a list: the buckets are not touched, and the answer blames no rate.
LEMMA LimiterListed ==
    ASSUME NEW c \in Clients, LimiterInv, AdmitListed(c)
    PROVE  LimiterInv'
  <1>1. /\ answer' = <<c, IF c \in Denylist THEN "denylisted" ELSE "">>
        /\ now' = now /\ ips' = ips /\ subnets' = subnets /\ admitted' = admitted
    BY Zenon DEF AdmitListed
  <1>2. answer'[2] # "address"
    BY Zenon, <1>1
  <1>3. AddressRefusalIsEarned'
    BY <1>2, Zenon DEF AddressRefusalIsEarned
  <1> QED
    BY <1>1, <1>3, Zenon DEF LimiterInv

\* A refused address has used up its bucket since some admission of its own.
LEMMA RefusalIsEarned ==
    ASSUME NEW c \in Clients, LimiterInv,
           ~(Fill(ips[c], IPCapacity).tokens >= PerIPRefillSeconds)
    PROVE  \E i \in DOMAIN admitted :
              (Between(i, Len(admitted), {c}) + 1) * PerIPRefillSeconds
                  > IPCapacity + (now - admitted[i].at)
  <1> DEFINE level == LevelAt(ips[c], IPCapacity, now)
             n == Len(admitted)
  <1>1. /\ now \in Nat /\ admitted \in Seq(Admission)
        /\ Books(admitted, now, {c}, ips[c], IPCapacity, PerIPRefillSeconds)
    BY Zenon DEF LimiterInv
  <1>2. SlotOK(ips[c], IPCapacity, now)
        /\ Spent(admitted, now, {c}, level, IPCapacity, PerIPRefillSeconds)
    BY <1>1, Zenon DEF Books
  <1>3. level \in 0 .. IPCapacity
    BY <1>1, <1>2, LevelOK, Capacities, Zenon
  <1>4. Fill(ips[c], IPCapacity).tokens = level
    <2>1. Fill(ips[c], IPCapacity) = [tokens |-> level, lastFill |-> now]
      BY FillIsLevel, Zenon
    <2> QED
      BY <2>1
  <1> HIDE DEF level
  <1>5. level < PerIPRefillSeconds /\ level # IPCapacity
    BY <1>3, <1>4, Capacities
  <1>6. PICK i \in DOMAIN admitted :
            Count(admitted, i, n, {c}) * PerIPRefillSeconds + level = IPCapacity + (now - admitted[i].at)
    BY <1>2, <1>5, Zenon DEF Spent
  <1>7. admitted[i].at \in Nat /\ i \in Nat /\ n \in Nat
    <2>1. admitted[i] \in Admission /\ i \in Nat /\ n \in Nat
      BY <1>1
    <2> QED
      BY <2>1, Zenon DEF Admission
  <1>8. Count(admitted, i, n, {c}) \in Nat
    BY <1>7, CountNat, Zenon
  <1> HIDE DEF n
  <1>9. PICK b \in Nat, a \in Nat : b = Count(admitted, i, n, {c}) /\ a = admitted[i].at
    BY <1>7, <1>8, Zenon
  <1>10. (b + 1) * PerIPRefillSeconds = b * PerIPRefillSeconds + PerIPRefillSeconds
         /\ b * PerIPRefillSeconds \in Nat
    BY OneMore, Capacities
  <1>11. b * PerIPRefillSeconds + level = IPCapacity + (now - a)
    BY <1>6, <1>9, Zenon
  <1>12. PICK q \in Nat : q = b * PerIPRefillSeconds
    BY <1>10, Zenon
  <1>13. q + PerIPRefillSeconds > IPCapacity + (now - a)
    <2>1. q + level = IPCapacity + (now - a)
      BY <1>11, <1>12, Zenon
    <2> QED
      BY <2>1, <1>1, <1>3, <1>5, Capacities
  <1>14. (Count(admitted, i, n, {c}) + 1) * PerIPRefillSeconds > IPCapacity + (now - admitted[i].at)
    BY <1>9, <1>10, <1>12, <1>13, Zenon
  <1> QED
    BY <1>14, Zenon DEF Between, Count, n

\* Any other client: both buckets are charged or neither.
LEMMA LimiterMetered ==
    ASSUME NEW c \in Clients, LimiterInv, AdmitMetered(c)
    PROVE  LimiterInv'
  <1> DEFINE ip == Fill(ips[c], IPCapacity)
             net == Fill(subnets[SubnetOf[c]], SubnetCapacity)
             pays == ip.tokens >= PerIPRefillSeconds
             ok == pays /\ net.tokens >= SubnetRefillSeconds
             mine == IF ok THEN Take(ip, PerIPRefillSeconds) ELSE ip
             ours == IF ok THEN Take(net, SubnetRefillSeconds) ELSE net
             after == IF ok THEN Append(admitted, [client |-> c, at |-> now]) ELSE admitted
  <1>1. /\ ips' = [ips EXCEPT ![c] = <<mine>>]
        /\ subnets' = [subnets EXCEPT ![SubnetOf[c]] = <<ours>>]
        /\ admitted' = after
        /\ answer' = <<c, IF ok THEN "" ELSE IF pays THEN "network" ELSE "address">>
        /\ now' = now
    BY Zenon DEF AdmitMetered
  <1>2. /\ now \in Nat /\ admitted \in Seq(Admission)
        /\ DOMAIN ips = Clients /\ DOMAIN subnets = Subnets
        /\ \A k \in DOMAIN admitted : admitted[k].at <= now
    BY Zenon DEF LimiterInv
  <1>b. ok \in BOOLEAN
    BY Zenon
  <1>s. SubnetOf[c] \in Subnets
    BY LimiterAssumption
  <1>3. ASSUME NEW d \in Clients
        PROVE  Books(after, now, {d}, ips'[d], IPCapacity, PerIPRefillSeconds)
    <2>1. Books(admitted, now, {d}, ips[d], IPCapacity, PerIPRefillSeconds)
      BY Zenon DEF LimiterInv
    <2>2. ok /\ c \in {d} => PerIPRefillSeconds <= Fill(ips[d], IPCapacity).tokens
      <3> SUFFICES ASSUME ok, c = d PROVE PerIPRefillSeconds <= Fill(ips[d], IPCapacity).tokens
        BY Zenon
      <3>1. Fill(ips[c], IPCapacity).tokens >= PerIPRefillSeconds
        BY Zenon
      <3> QED
        BY <3>1, Zenon
    <2> HIDE DEF ok
    <2>3. Books(after, now, {d},
                IF c \in {d} THEN <<IF ok THEN Take(Fill(ips[d], IPCapacity), PerIPRefillSeconds)
                                    ELSE Fill(ips[d], IPCapacity)>> ELSE ips[d],
                IPCapacity, PerIPRefillSeconds)
      BY <1>b, <1>2, <2>1, <2>2, Capacities, BooksAfter, Zenon
    <2>4. ips'[d] = IF c \in {d} THEN <<IF ok THEN Take(Fill(ips[d], IPCapacity), PerIPRefillSeconds)
                                        ELSE Fill(ips[d], IPCapacity)>> ELSE ips[d]
      BY <1>1, <1>2, Zenon
    <2> QED
      BY <2>3, <2>4, Zenon
  <1>4. ASSUME NEW s \in Subnets
        PROVE  Books(after, now, SubnetClients(s), subnets'[s], SubnetCapacity, SubnetRefillSeconds)
    <2>1. Books(admitted, now, SubnetClients(s), subnets[s], SubnetCapacity, SubnetRefillSeconds)
      BY Zenon DEF LimiterInv
    <2>0. c \in SubnetClients(s) <=> s = SubnetOf[c]
      BY Zenon DEF SubnetClients
    <2>2. ok /\ c \in SubnetClients(s) => SubnetRefillSeconds <= Fill(subnets[s], SubnetCapacity).tokens
      <3> SUFFICES ASSUME ok, s = SubnetOf[c]
                   PROVE  SubnetRefillSeconds <= Fill(subnets[s], SubnetCapacity).tokens
        BY <2>0, Zenon
      <3>1. Fill(subnets[SubnetOf[c]], SubnetCapacity).tokens >= SubnetRefillSeconds
        BY Zenon
      <3> QED
        BY <3>1, Zenon
    <2> HIDE DEF ok
    <2>3. Books(after, now, SubnetClients(s),
                IF c \in SubnetClients(s)
                THEN <<IF ok THEN Take(Fill(subnets[s], SubnetCapacity), SubnetRefillSeconds)
                       ELSE Fill(subnets[s], SubnetCapacity)>> ELSE subnets[s],
                SubnetCapacity, SubnetRefillSeconds)
      BY <1>b, <1>2, <2>1, <2>2, Capacities, BooksAfter, Zenon
    <2>4. subnets'[s] = IF c \in SubnetClients(s)
                THEN <<IF ok THEN Take(Fill(subnets[s], SubnetCapacity), SubnetRefillSeconds)
                       ELSE Fill(subnets[s], SubnetCapacity)>> ELSE subnets[s]
      BY <1>1, <1>2, <2>0, Zenon
    <2> QED
      BY <2>3, <2>4, Zenon
  <1>5. after \in Seq(Admission) /\ \A k \in DOMAIN after : after[k].at <= now
    <2>1. CASE ok
      <3> DEFINE x == [client |-> c, at |-> now]
      <3>1. x \in Admission /\ x.at <= now
        BY <1>2 DEF Admission
      <3> HIDE DEF x
      <3>2. Append(admitted, x) \in Seq(Admission)
            /\ \A k \in DOMAIN Append(admitted, x) :
                  Append(admitted, x)[k] = x \/ (k \in DOMAIN admitted /\ Append(admitted, x)[k] = admitted[k])
        BY <1>2, <3>1
      <3>3. \A k \in DOMAIN Append(admitted, x) : Append(admitted, x)[k].at <= now
        BY <3>1, <3>2, <1>2, Zenon
      <3> QED
        BY <3>2, <3>3, <2>1, Zenon DEF x
    <2>2. CASE ~ok
      BY <2>2, <1>2, Zenon
    <2> QED
      BY <2>1, <2>2, Zenon
  <1>6. AddressRefusalIsEarned'
    <2>1. CASE pays
      <3>1. (IF ok THEN "" ELSE IF pays THEN "network" ELSE "address") # "address"
        BY <2>1
      <3> HIDE DEF ok, pays
      <3>2. answer'[2] # "address"
        BY Zenon, <1>1, <3>1
      <3> QED
        BY <3>2, Zenon DEF AddressRefusalIsEarned
    <2>2. CASE ~pays
      <3>1. \E i \in DOMAIN admitted :
              (Between(i, Len(admitted), {c}) + 1) * PerIPRefillSeconds
                  > IPCapacity + (now - admitted[i].at)
        BY <2>2, RefusalIsEarned, Zenon
      <3>2. admitted' = admitted
        BY <1>1, <2>2, Zenon
      <3> HIDE DEF ok, pays
      <3>3. answer'[1] = c
        BY Zenon, <1>1
      <3> QED
        BY <3>1, <3>2, <3>3, <1>1, Zenon DEF AddressRefusalIsEarned, Between
    <2> QED
      BY <2>1, <2>2, Zenon
  <1>7. DOMAIN ips' = Clients /\ DOMAIN subnets' = Subnets
    BY <1>1, <1>2, Zenon
  <1> HIDE DEF after
  <1> QED
    BY <1>1, <1>2, <1>3, <1>4, <1>5, <1>6, <1>7, Zenon DEF LimiterInv

\* The limiter lets neither an address nor its network exceed its burst and its rate
\* over any stretch of time, and tells an address that it exceeded its own rate only
\* when it did (Admit and refill in ratelimit.go).
THEOREM RatesAreHeld == LimiterSpec => []RatesHold
  <1>1. LimiterInv /\ [LimiterNext]_limiterVars => LimiterInv'
    <2> SUFFICES ASSUME LimiterInv, [LimiterNext]_limiterVars PROVE LimiterInv'
      OBVIOUS
    <2>1. CASE Tick
      BY <2>1, LimiterTick, Zenon
    <2>2. ASSUME NEW c \in Clients, AdmitListed(c) PROVE LimiterInv'
      BY <2>2, LimiterListed, Zenon
    <2>3. ASSUME NEW c \in Clients, AdmitMetered(c) PROVE LimiterInv'
      BY <2>3, LimiterMetered, Zenon
    <2>4. CASE UNCHANGED limiterVars
      <3>1. now' = now /\ ips' = ips /\ subnets' = subnets /\ admitted' = admitted /\ answer' = answer
        BY <2>4, Zenon DEF limiterVars
      <3> QED
        BY <3>1, Zenon DEF LimiterInv, AddressRefusalIsEarned, Between
    <2> QED
      BY <2>1, <2>2, <2>3, <2>4, Zenon DEF LimiterNext
  <1>2. LimiterInv => RatesHold
    <2> SUFFICES ASSUME LimiterInv PROVE RatesHold
      OBVIOUS
    <2>1. AddressRate
      BY Zenon DEF LimiterInv, Books, AddressRate, Metered, MeteredIn, Between, Count
    <2>2. NetworkRate
      BY Zenon DEF LimiterInv, Books, NetworkRate, Metered, MeteredIn, Between, Count, SubnetClients
    <2> QED
      BY <2>1, <2>2, Zenon DEF LimiterInv, RatesHold
  <1> QED
    BY <1>1, <1>2, LimiterStarts, PTL DEF LimiterSpec

-----------------------------------------------------------------------------
\* Lemmas about the breakers.

\* Pushing onto the window and cutting it is cutting the whole history
\* (RecordOutcome's append and reslice).
LEMMA LastOfAppend ==
    ASSUME NEW s \in Seq(BOOLEAN), NEW x \in BOOLEAN, NEW n \in Nat \ {0}
    PROVE  LastOf(Append(LastOf(s, n), x), n) = LastOf(Append(s, x), n)
  <1> DEFINE m == Len(s)
             t == LastOf(s, n)
  <1>m. m \in Nat
    OBVIOUS
  <1>1. CASE m < n
    <2>1. t = s
      BY <1>1 DEF LastOf
    <2> QED
      BY <2>1, Zenon
  <1>2. CASE m = n
    <2>1. t = s
      BY <1>2 DEF LastOf
    <2> QED
      BY <2>1, Zenon
  <1>3. CASE m > n
    <2>1. t = SubSeq(s, m - n + 1, m)
      BY <1>3 DEF LastOf
    <2>2. /\ t \in Seq(BOOLEAN) /\ Len(t) = n
          /\ \A k \in 1 .. n : t[k] = s[m - n + k]
      BY <2>1, <1>3, <1>m
    <2> HIDE DEF t
    <2> DEFINE long == Append(s, x)
               short == Append(t, x)
    <2>3. /\ short \in Seq(BOOLEAN) /\ Len(short) = n + 1
          /\ (\A k \in 1 .. n : short[k] = t[k]) /\ short[n + 1] = x
      BY <2>2
    <2>4. /\ long \in Seq(BOOLEAN) /\ Len(long) = m + 1
          /\ (\A k \in 1 .. m : long[k] = s[k]) /\ long[m + 1] = x
      OBVIOUS
    <2> HIDE DEF short, long
    <2>5. LastOf(short, n) = SubSeq(short, 2, n + 1)
      BY <2>3 DEF LastOf
    <2>6. LastOf(long, n) = SubSeq(long, m - n + 2, m + 1)
      BY <2>4, <1>3, <1>m DEF LastOf
    <2>7. /\ SubSeq(short, 2, n + 1) = [k \in 1 .. n |-> short[k + 1]]
      BY <2>3
    <2>8. SubSeq(long, m - n + 2, m + 1) = [k \in 1 .. n |-> long[m - n + 1 + k]]
      BY <2>4, <1>3, <1>m
    <2>9. \A k \in 1 .. n : short[k + 1] = long[m - n + 1 + k]
      <3> TAKE k \in 1 .. n
      <3>1. CASE k = n
        BY <3>1, <2>3, <2>4, <1>m
      <3>2. CASE k < n
        <4>1. k + 1 \in 1 .. n /\ m - n + (k + 1) = m - n + 1 + k /\ m - n + 1 + k \in 1 .. m
          BY <3>2, <1>m, <1>3
        <4>2. short[k + 1] = t[k + 1] /\ t[k + 1] = s[m - n + (k + 1)]
          BY <4>1, <2>2, <2>3, Zenon
        <4>3. long[m - n + 1 + k] = s[m - n + 1 + k]
          BY <4>1, <2>4, Zenon
        <4>4. s[m - n + (k + 1)] = s[m - n + 1 + k]
          BY <4>1, Zenon
        <4> QED
          BY <4>2, <4>3, <4>4, Zenon
      <3> QED
        BY <3>1, <3>2
    <2>10. [k \in 1 .. n |-> short[k + 1]] = [k \in 1 .. n |-> long[m - n + 1 + k]]
      BY <2>9, Zenon
    <2>11. LastOf(short, n) = LastOf(long, n)
      BY <2>5, <2>6, <2>7, <2>8, <2>10, Zenon
    <2> QED
      BY <2>11, Zenon DEF short, long, t
  <1> QED
    BY <1>1, <1>2, <1>3, <1>m

\* The window and the trailing failures are what the breakers promise.
LEMMA TrailingIsExact == BreakersTypeOK /\ FailuresAreTrailing => RPCBreakerExact
  <1> SUFFICES ASSUME BreakersTypeOK, FailuresAreTrailing PROVE RPCBreakerExact
    OBVIOUS
  <1> DEFINE n == Len(probes)
             last == LastOf(probes, RPCTripAfter)
  <1>1. probes \in Seq(BOOLEAN) /\ n \in Nat /\ rpcFailures \in Nat /\ rpcDown \in BOOLEAN
        /\ RPCTripAfter \in Nat \ {0} /\ DOMAIN probes = 1 .. n
    BY BreakerAssumption DEF BreakersTypeOK
  <1>2. rpcFailures <= n /\ (rpcDown <=> rpcFailures >= RPCTripAfter)
        /\ (rpcFailures < n => probes[n - rpcFailures])
        /\ \A i \in 1 .. n : i > n - rpcFailures => ~probes[i]
    BY <1>1, Zenon DEF FailuresAreTrailing
  <1>3. n >= RPCTripAfter =>
          /\ DOMAIN last = 1 .. RPCTripAfter
          /\ \A i \in 1 .. RPCTripAfter : last[i] = probes[n - RPCTripAfter + i]
    <2> SUFFICES ASSUME n >= RPCTripAfter
                 PROVE  /\ DOMAIN last = 1 .. RPCTripAfter
                        /\ \A i \in 1 .. RPCTripAfter : last[i] = probes[n - RPCTripAfter + i]
      OBVIOUS
    <2>1. CASE n = RPCTripAfter
      <3>1. last = probes
        BY <2>1, <1>1 DEF LastOf
      <3>2. \A i \in 1 .. n : n - RPCTripAfter + i = i
        BY <2>1, <1>1
      <3> HIDE DEF last
      <3> QED
        BY <3>1, <3>2, <2>1, <1>1, Zenon
    <2>2. CASE n > RPCTripAfter
      <3>1. last = SubSeq(probes, n - RPCTripAfter + 1, n)
        BY <2>2, <1>1 DEF LastOf
      <3> QED
        BY <3>1, <2>2, <1>1
    <2>3. n = RPCTripAfter \/ n > RPCTripAfter
      <3> HIDE DEF n, last
      <3>1. n \in Nat /\ RPCTripAfter \in Nat /\ n >= RPCTripAfter
        BY <1>1
      <3> QED
        BY <3>1
    <2> QED
      BY <2>1, <2>2, <2>3, Zenon
  <1> HIDE DEF last
  <1>4. CASE rpcDown
    <2>1. n >= RPCTripAfter
      BY <1>1, <1>2, <1>4
    <2>2. ASSUME NEW i \in DOMAIN last PROVE ~last[i]
      <3>1. i \in 1 .. RPCTripAfter /\ last[i] = probes[n - RPCTripAfter + i]
        BY <1>3, <2>1
      <3>2. n - RPCTripAfter + i \in 1 .. n /\ n - RPCTripAfter + i > n - rpcFailures
        BY <3>1, <2>1, <1>1, <1>2, <1>4
      <3> QED
        BY <3>1, <3>2, <1>2, Zenon
    <2> QED
      BY <2>1, <2>2, <1>4, Zenon DEF RPCBreakerExact, last
  <1>5. CASE ~rpcDown
    <2>1. rpcFailures < RPCTripAfter
      BY <1>1, <1>2, <1>5
    <2>2. ASSUME n >= RPCTripAfter PROVE \E i \in DOMAIN last : last[i]
      <3> DEFINE i == RPCTripAfter - rpcFailures
      <3>1. i \in 1 .. RPCTripAfter /\ n - RPCTripAfter + i = n - rpcFailures /\ rpcFailures < n
        BY <2>1, <2>2, <1>1
      <3>2. last[i] = probes[n - rpcFailures]
        BY <3>1, <2>2, <1>3
      <3>3. last[i] /\ i \in DOMAIN last
        BY <3>1, <3>2, <2>2, <1>2, <1>3, Zenon
      <3> QED
        BY <3>3, Zenon
    <2> QED
      BY <2>2, <1>5, Zenon DEF RPCBreakerExact, last
  <1> QED
    BY <1>1, <1>4, <1>5

-----------------------------------------------------------------------------
\* The breakers' steps.

\* RecordOutcome and ResetErrorWindow keep the window.
LEMMA WindowKept ==
    ASSUME BreakersTypeOK, WindowIsRecent,
           \/ \E success \in BOOLEAN : RecordOutcome(success)
           \/ ResetErrorWindow
           \/ UNCHANGED <<outcomes, sinceReset>>
    PROVE  /\ outcomes' \in Seq(BOOLEAN) /\ sinceReset' \in Seq(BOOLEAN)
           /\ WindowIsRecent'
  <1>1. outcomes \in Seq(BOOLEAN) /\ sinceReset \in Seq(BOOLEAN)
    BY Zenon DEF BreakersTypeOK
  <1>2. ASSUME NEW success \in BOOLEAN, RecordOutcome(success)
        PROVE  outcomes' \in Seq(BOOLEAN) /\ sinceReset' \in Seq(BOOLEAN) /\ WindowIsRecent'
    <2>1. sinceReset' = Append(sinceReset, success)
          /\ outcomes' = LastOf(Append(outcomes, success), ErrorRateWindow)
      BY <1>2, Zenon DEF RecordOutcome, WindowAfter
    <2>2. Append(sinceReset, success) \in Seq(BOOLEAN) /\ Append(outcomes, success) \in Seq(BOOLEAN)
      BY <1>1
    <2>3. LastOf(Append(outcomes, success), ErrorRateWindow)
            = LastOf(Append(sinceReset, success), ErrorRateWindow)
      BY <1>1, LastOfAppend, BreakerAssumption, Zenon DEF WindowIsRecent
    <2>4. \A s \in Seq(BOOLEAN) : LastOf(s, ErrorRateWindow) \in Seq(BOOLEAN)
      <3> TAKE s \in Seq(BOOLEAN)
      <3>1. ErrorRateWindow \in Nat \ {0}
        BY BreakerAssumption
      <3>2. CASE Len(s) <= ErrorRateWindow
        BY <3>2 DEF LastOf
      <3>3. CASE ~(Len(s) <= ErrorRateWindow)
        <4>1. Len(s) - ErrorRateWindow + 1 \in 1 .. Len(s)
          BY <3>1, <3>3
        <4>2. SubSeq(s, Len(s) - ErrorRateWindow + 1, Len(s)) \in Seq(BOOLEAN)
          BY <4>1
        <4> QED
          BY <4>2, <3>3, Zenon DEF LastOf
      <3> QED
        BY <3>2, <3>3, Zenon
    <2> QED
      BY <2>1, <2>2, <2>3, <2>4, Zenon DEF WindowIsRecent
  <1>3. ASSUME ResetErrorWindow
        PROVE  outcomes' \in Seq(BOOLEAN) /\ sinceReset' \in Seq(BOOLEAN) /\ WindowIsRecent'
    <2>1. outcomes' = <<>> /\ sinceReset' = <<>>
      BY <1>3, Zenon DEF ResetErrorWindow
    <2>2. LastOf(<<>>, ErrorRateWindow) = <<>>
      BY BreakerAssumption DEF LastOf
    <2>3. <<>> \in Seq(BOOLEAN)
      OBVIOUS
    <2> QED
      BY <2>1, <2>2, <2>3, Zenon DEF WindowIsRecent
  <1>4. ASSUME UNCHANGED <<outcomes, sinceReset>>
        PROVE  outcomes' \in Seq(BOOLEAN) /\ sinceReset' \in Seq(BOOLEAN) /\ WindowIsRecent'
    BY <1>1, <1>4, Zenon DEF WindowIsRecent
  <1> QED
    BY <1>2, <1>3, <1>4, Zenon

\* RecordRPCProbe keeps the count of trailing failures.
LEMMA TrailingKept ==
    ASSUME BreakersTypeOK, FailuresAreTrailing,
           \/ \E healthy \in BOOLEAN : RecordRPCProbe(healthy)
           \/ UNCHANGED <<rpcFailures, rpcDown, probes>>
    PROVE  /\ rpcFailures' \in Nat /\ rpcDown' \in BOOLEAN /\ probes' \in Seq(BOOLEAN)
           /\ FailuresAreTrailing'
  <1> DEFINE n == Len(probes)
             Goal == /\ rpcFailures' \in Nat /\ rpcDown' \in BOOLEAN /\ probes' \in Seq(BOOLEAN)
                     /\ FailuresAreTrailing'
  <1>1. probes \in Seq(BOOLEAN) /\ rpcFailures \in Nat /\ rpcDown \in BOOLEAN
    BY Zenon DEF BreakersTypeOK
  <1>2. n \in Nat /\ DOMAIN probes = 1 .. n /\ RPCTripAfter \in Nat \ {0}
    BY <1>1, BreakerAssumption
  <1>3. rpcFailures <= n /\ (rpcDown <=> rpcFailures >= RPCTripAfter)
        /\ (rpcFailures < n => probes[n - rpcFailures])
        /\ \A i \in 1 .. n : i > n - rpcFailures => ~probes[i]
    BY <1>2, Zenon DEF FailuresAreTrailing
  <1>4. ASSUME NEW healthy \in BOOLEAN, RecordRPCProbe(healthy) PROVE Goal
    <2>1. /\ probes' = Append(probes, healthy)
          /\ rpcFailures' = IF healthy THEN 0 ELSE rpcFailures + 1
          /\ rpcDown' = (~healthy /\ (rpcDown \/ rpcFailures + 1 >= RPCTripAfter))
      BY <1>4, Zenon DEF RecordRPCProbe
    <2>2. /\ probes' \in Seq(BOOLEAN) /\ Len(probes') = n + 1 /\ DOMAIN probes' = 1 .. n + 1
          /\ (\A i \in 1 .. n : probes'[i] = probes[i]) /\ probes'[n + 1] = healthy
      BY <2>1, <1>1
    <2> HIDE DEF n
    <2>3. CASE healthy
      <3>1. rpcFailures' = 0 /\ rpcDown' = FALSE
        BY <2>1, <2>3, Zenon
      <3>2. \A i \in 1 .. n + 1 : ~(i > (n + 1) - 0)
        BY <1>2
      <3>3. (n + 1) - 0 = n + 1 /\ 0 <= n + 1 /\ ~(0 >= RPCTripAfter) /\ 0 \in Nat
        BY <1>2
      <3>4. FailuresAreTrailing'
        BY <3>1, <3>2, <3>3, <2>2, <2>3, Zenon DEF FailuresAreTrailing
      <3> QED
        BY <3>1, <3>3, <3>4, <2>2, Zenon
    <2>4. CASE ~healthy
      <3>1. rpcFailures' = rpcFailures + 1
            /\ (rpcDown' <=> (rpcDown \/ rpcFailures + 1 >= RPCTripAfter))
            /\ rpcDown' \in BOOLEAN
        BY <2>1, <2>4, Zenon
      <3>2. rpcDown' <=> rpcFailures' >= RPCTripAfter
        <4>1. rpcFailures >= RPCTripAfter => rpcFailures + 1 >= RPCTripAfter
          BY <1>1, <1>2
        <4> QED
          BY <4>1, <3>1, <1>3, Zenon
      <3>3. rpcFailures' \in Nat /\ rpcFailures' <= n + 1
        BY <3>1, <1>1, <1>2, <1>3
      <3>4. ASSUME NEW i \in 1 .. n + 1, i > (n + 1) - rpcFailures' PROVE ~probes'[i]
        <4>1. i = n + 1 \/ (i \in 1 .. n /\ i > n - rpcFailures)
          BY <3>1, <3>4, <1>1, <1>2
        <4> QED
          BY <4>1, <2>2, <2>4, <1>3, Zenon
      <3>5. ASSUME rpcFailures' < n + 1 PROVE probes'[(n + 1) - rpcFailures']
        <4>1. (n + 1) - rpcFailures' = n - rpcFailures /\ rpcFailures < n /\ n - rpcFailures \in 1 .. n
          BY <3>1, <3>5, <1>1, <1>2
        <4> QED
          BY <4>1, <2>2, <1>3, Zenon
      <3>6. FailuresAreTrailing'
        BY <3>2, <3>3, <3>4, <3>5, <2>2, Zenon DEF FailuresAreTrailing
      <3> QED
        BY <3>1, <3>3, <3>6, <2>2, Zenon
    <2> QED
      BY <2>3, <2>4, Zenon
  <1>5. ASSUME UNCHANGED <<rpcFailures, rpcDown, probes>> PROVE Goal
    BY <1>1, <1>5, Zenon DEF FailuresAreTrailing
  <1> QED
    BY <1>4, <1>5, Zenon

\* The part of the invariant that is about the signers, their balances and the probe.
SignersInv ==
    /\ active \in Signers /\ fenced \subseteq Signers
    /\ probe \in [pc : {"idle", "healthy", "balance", "refill"}, read : Nat]
    /\ baseline \in [signer : Signers \cup {"none"}, balance : Nat]
    /\ rotation \in [pc : {"idle", "record"}, old : Signers]
    /\ hot \in [Signers -> Nat]
    /\ refills \in Nat /\ observed \in Nat
    /\ FirstSignerIsGone /\ RefillsAccounted

\* Steps that leave the signers and the probe alone.
LEMMA SignersSame ==
    ASSUME SignersInv,
           UNCHANGED <<active, fenced, probe, baseline, rotation, hot, refills, observed>>
    PROVE  SignersInv'
  <1>1. /\ active' = active /\ fenced' = fenced /\ probe' = probe /\ baseline' = baseline
        /\ rotation' = rotation /\ hot' = hot /\ refills' = refills /\ observed' = observed
    OBVIOUS
  <1> QED
    BY <1>1, Zenon DEF SignersInv, FirstSignerIsGone, RefillsAccounted, Accounted

\* BalanceAt is answered: whatever the signer holds above the last balance came from a
\* refill that was not journaled yet.
LEMMA SignersRead == SignersInv /\ ProbeRead => SignersInv'
  <1> SUFFICES ASSUME SignersInv, ProbeRead PROVE SignersInv'
    OBVIOUS
  <1>1. /\ probe.pc = "idle" /\ probe' = [pc |-> "healthy", read |-> hot[active]]
        /\ active' = active /\ fenced' = fenced /\ baseline' = baseline
        /\ rotation' = rotation /\ hot' = hot /\ refills' = refills /\ observed' = observed
    BY Zenon DEF ProbeRead, signerVars
  <1>2. /\ active \in Signers /\ hot \in [Signers -> Nat] /\ refills \in Nat /\ observed \in Nat
        /\ baseline \in [signer : Signers \cup {"none"}, balance : Nat]
    BY Zenon DEF SignersInv
  <1>3. /\ hot[active] \in Nat /\ baseline.balance \in Nat
        /\ probe' \in [pc : {"idle", "healthy", "balance", "refill"}, read : Nat]
        /\ probe'.pc = "healthy" /\ probe'.read = hot[active]
    BY <1>1, <1>2
  <1>4. ASSUME active = FirstSigner PROVE Accounted(0)'
    <2>1. PICK since \in Nat : Accounted(since)
      BY <1>4, Zenon DEF SignersInv, RefillsAccounted
    <2>2. observed + since <= refills
          /\ (baseline.signer = FirstSigner => hot[FirstSigner] <= baseline.balance + Refill * since)
      BY <2>1, <1>1, Zenon DEF Accounted
    <2>3. baseline.signer = FirstSigner /\ hot[FirstSigner] >= baseline.balance + 1 => since # 0
      <3>1. Refill * 0 = 0
        BY BreakerAssumption
      <3> QED
        BY <3>1, <2>2, <1>2, <1>3, <1>4
    <2>4. observed + 0 <= refills /\ (since # 0 => observed + 1 + 0 <= refills)
      BY <2>2, <1>2
    <2>5. hot[FirstSigner] <= hot[FirstSigner] + Refill * 0
      BY <1>2, <1>3, <1>4, BreakerAssumption
    <2> QED
      BY <2>3, <2>4, <2>5, <1>1, <1>3, <1>4, Zenon DEF Accounted
  <1>5. RefillsAccounted'
    <2>1. 0 \in Nat
      OBVIOUS
    <2>2. active = FirstSigner => baseline.signer \in {"none", FirstSigner}
      BY Zenon DEF SignersInv, RefillsAccounted
    <2>3. active = FirstSigner =>
            /\ baseline'.signer \in {"none", FirstSigner}
            /\ \E since \in Nat : Accounted(since)'
      BY <2>1, <2>2, <1>1, <1>4, Zenon
    <2> QED
      BY <2>3, <1>1, Zenon DEF RefillsAccounted
  <1>6. FirstSignerIsGone'
    BY <1>1, Zenon DEF SignersInv, FirstSignerIsGone
  <1> QED
    BY <1>1, <1>3, <1>5, <1>6, Zenon DEF SignersInv

\* The probe goes on with what it read.
LEMMA SignersProbe ==
    ASSUME SignersInv, probe.pc # "idle",
           NEW pc \in {"balance", "refill"}, probe' = [probe EXCEPT !.pc = pc],
           UNCHANGED <<active, fenced, baseline, rotation, hot, refills, observed>>
    PROVE  SignersInv'
  <1>1. /\ active' = active /\ fenced' = fenced /\ baseline' = baseline
        /\ rotation' = rotation /\ hot' = hot /\ refills' = refills /\ observed' = observed
    OBVIOUS
  <1>2. /\ probe' \in [pc : {"idle", "healthy", "balance", "refill"}, read : Nat]
        /\ probe'.pc # "idle" /\ probe'.read = probe.read
    BY DEF SignersInv
  <1> QED
    BY <1>1, <1>2, Zenon DEF SignersInv, FirstSignerIsGone, RefillsAccounted, Accounted

\* observeRefill.
LEMMA SignersRefill == SignersInv /\ ProbeRefill => SignersInv'
  <1> SUFFICES ASSUME SignersInv, ProbeRefill PROVE SignersInv'
    OBVIOUS
  <1>1. /\ probe.pc = "refill" /\ probe' = [pc |-> "idle", read |-> 0]
        /\ baseline' = [signer |-> active, balance |-> probe.read]
        /\ active' = active /\ fenced' = fenced
        /\ rotation' = rotation /\ hot' = hot /\ refills' = refills
        /\ observed' = IF baseline.signer = active /\ probe.read >= baseline.balance + 1
                       THEN observed + 1 ELSE observed
    BY Zenon DEF ProbeRefill, signerVars
  <1>2. /\ active \in Signers /\ observed \in Nat /\ refills \in Nat
        /\ probe \in [pc : {"idle", "healthy", "balance", "refill"}, read : Nat]
    BY Zenon DEF SignersInv
  <1>3. /\ probe' \in [pc : {"idle", "healthy", "balance", "refill"}, read : Nat]
        /\ baseline' \in [signer : Signers \cup {"none"}, balance : Nat]
        /\ probe'.pc = "idle" /\ baseline'.signer = active /\ baseline'.balance = probe.read
    BY <1>1, <1>2
  <1>4. observed' \in Nat
    BY <1>1, <1>2
  <1>5. RefillsAccounted'
    <2> SUFFICES ASSUME active = FirstSigner
                 PROVE  /\ baseline'.signer \in {"none", FirstSigner}
                        /\ \E since \in Nat : Accounted(since)'
      BY <1>1, Zenon DEF RefillsAccounted
    <2>1. PICK since \in Nat : Accounted(since)
      BY Zenon DEF SignersInv, RefillsAccounted
    <2>2. probe.pc # "idle"
      BY <1>1
    <2>3. /\ observed + since <= refills /\ hot[FirstSigner] <= probe.read + Refill * since
          /\ baseline.signer = FirstSigner /\ probe.read >= baseline.balance + 1
                => observed + 1 + since <= refills
      BY <2>1, <2>2, Zenon DEF Accounted
    <2>4. observed' + since <= refills
      BY <2>3, <1>1, Zenon
    <2>5. Accounted(since)'
      BY <2>3, <2>4, <1>1, <1>3, Zenon DEF Accounted
    <2> QED
      BY <2>5, <1>3, Zenon
  <1>6. FirstSignerIsGone'
    BY <1>1, Zenon DEF SignersInv, FirstSignerIsGone
  <1> QED
    BY <1>1, <1>3, <1>4, <1>5, <1>6, Zenon DEF SignersInv

\* A payment only lowers balances.
LEMMA SignersPaid == SignersInv /\ WorkerPaid => SignersInv'
  <1> SUFFICES ASSUME SignersInv, WorkerPaid PROVE SignersInv'
    OBVIOUS
  <1>1. /\ active' = active /\ fenced' = fenced /\ baseline' = baseline /\ probe' = probe
        /\ rotation' = rotation /\ refills' = refills /\ observed' = observed
    BY Zenon DEF WorkerPaid, probeVars
  <1>2. /\ active \in Signers /\ observed \in Nat /\ refills \in Nat /\ fenced \subseteq Signers
        /\ probe \in [pc : {"idle", "healthy", "balance", "refill"}, read : Nat]
        /\ baseline \in [signer : Signers \cup {"none"}, balance : Nat]
        /\ rotation \in [pc : {"idle", "record"}, old : Signers] /\ hot \in [Signers -> Nat]
    BY Zenon DEF SignersInv
  <1>3. PICK s \in fenced \cup {active, rotation.old} : hot[s] > 0 /\ hot' = [hot EXCEPT ![s] = @ - 1]
    BY Zenon DEF WorkerPaid
  <1>4. s \in Signers
    BY <1>2, <1>3
  <1>5. hot' \in [Signers -> Nat] /\ \A r \in Signers : hot'[r] <= hot[r] /\ hot[r] \in Nat /\ hot'[r] \in Nat
    BY <1>2, <1>3, <1>4
  <1>6. RefillsAccounted'
    <2> SUFFICES ASSUME active = FirstSigner
                 PROVE  baseline'.signer \in {"none", FirstSigner} /\ \E since \in Nat : Accounted(since)'
      BY <1>1, Zenon DEF RefillsAccounted
    <2>1. PICK since \in Nat : Accounted(since)
      BY Zenon DEF SignersInv, RefillsAccounted
    <2>2. PICK extra \in Nat : extra = Refill * since
      <3>1. Refill * since \in Nat
        BY BreakerAssumption
      <3> QED
        BY <3>1, Zenon
    <2>3. probe.read \in Nat /\ baseline.balance \in Nat
      BY <1>2
    <2>4. hot'[FirstSigner] <= hot[FirstSigner] /\ hot[FirstSigner] \in Nat /\ hot'[FirstSigner] \in Nat
      BY <1>5, BreakerAssumption, Zenon
    <2>5. \A b \in Nat : hot[FirstSigner] <= b + extra => hot'[FirstSigner] <= b + extra
      BY <2>4
    <2>6. Accounted(since)'
      BY <2>1, <2>2, <2>3, <2>5, <1>1, Zenon DEF Accounted
    <2>7. baseline.signer \in {"none", FirstSigner}
      BY Zenon DEF SignersInv, RefillsAccounted
    <2> QED
      BY <2>6, <2>7, <1>1, Zenon
  <1>7. FirstSignerIsGone'
    BY <1>1, Zenon DEF SignersInv, FirstSignerIsGone
  <1> QED
    BY <1>1, <1>2, <1>5, <1>6, <1>7, Zenon DEF SignersInv

\* A refill adds to the signer that is active, and counts.
LEMMA SignersRefilled == SignersInv /\ RefillHot => SignersInv'
  <1> SUFFICES ASSUME SignersInv, RefillHot PROVE SignersInv'
    OBVIOUS
  <1>1. /\ active' = active /\ fenced' = fenced /\ baseline' = baseline /\ probe' = probe
        /\ rotation' = rotation /\ refills' = refills + 1 /\ observed' = observed
        /\ hot' = [hot EXCEPT ![active] = @ + Refill]
    BY Zenon DEF RefillHot, probeVars
  <1>2. /\ active \in Signers /\ observed \in Nat /\ refills \in Nat /\ fenced \subseteq Signers
        /\ probe \in [pc : {"idle", "healthy", "balance", "refill"}, read : Nat]
        /\ baseline \in [signer : Signers \cup {"none"}, balance : Nat]
        /\ rotation \in [pc : {"idle", "record"}, old : Signers] /\ hot \in [Signers -> Nat]
    BY Zenon DEF SignersInv
  <1>3. hot' \in [Signers -> Nat] /\ refills' \in Nat /\ hot'[active] = hot[active] + Refill
    BY <1>1, <1>2, BreakerAssumption
  <1>4. RefillsAccounted'
    <2> SUFFICES ASSUME active = FirstSigner
                 PROVE  baseline'.signer \in {"none", FirstSigner} /\ \E since \in Nat : Accounted(since)'
      BY <1>1, Zenon DEF RefillsAccounted
    <2>1. PICK since \in Nat : Accounted(since)
      BY Zenon DEF SignersInv, RefillsAccounted
    <2> DEFINE more == since + 1
    <2>m. more \in Nat
      OBVIOUS
    <2>2. PICK extra \in Nat : extra = Refill * since /\ extra + Refill = Refill * more
      <3>1. Refill * since \in Nat /\ Refill * since + Refill = Refill * (since + 1)
        BY BreakerAssumption
      <3> QED
        BY <3>1, Zenon
    <2>3. probe.read \in Nat /\ baseline.balance \in Nat
      BY <1>2
    <2>4. hot[FirstSigner] \in Nat /\ hot'[FirstSigner] = hot[FirstSigner] + Refill
      BY <1>2, <1>3
    <2>5. \A b \in Nat : hot[FirstSigner] <= b + extra => hot[FirstSigner] + Refill <= b + (extra + Refill)
      BY <2>4, BreakerAssumption
    <2>6. /\ observed + since <= refills => observed + more <= refills + 1
          /\ observed + 1 + since <= refills => observed + 1 + more <= refills + 1
      BY <1>2
    <2> HIDE DEF more
    <2>7. Accounted(more)'
      BY <2>1, <2>2, <2>3, <2>4, <2>5, <2>6, <1>1, Zenon DEF Accounted
    <2>8. baseline.signer \in {"none", FirstSigner}
      BY Zenon DEF SignersInv, RefillsAccounted
    <2> QED
      BY <2>m, <2>7, <2>8, <1>1, Zenon
  <1>5. FirstSignerIsGone'
    BY <1>1, Zenon DEF SignersInv, FirstSignerIsGone
  <1> QED
    BY <1>1, <1>2, <1>3, <1>4, <1>5, Zenon DEF SignersInv

\* handleRotate: the first signer does not come back.
LEMMA SignersRotate == SignersInv /\ (RotateSwap \/ RotateRecord) => SignersInv'
  <1> SUFFICES ASSUME SignersInv, RotateSwap \/ RotateRecord PROVE SignersInv'
    OBVIOUS
  <1>0. /\ active \in Signers /\ fenced \subseteq Signers
        /\ rotation \in [pc : {"idle", "record"}, old : Signers] /\ FirstSigner \in Signers
    BY BreakerAssumption, Zenon DEF SignersInv
  <1>1. CASE RotateSwap
    <2>1. /\ rotation.pc = "idle" /\ rotation' = [pc |-> "record", old |-> active]
          /\ fenced' = fenced /\ hot' = hot /\ refills' = refills
          /\ probe' = probe /\ baseline' = baseline /\ observed' = observed
      BY <1>1, Zenon DEF RotateSwap, probeVars
    <2>2. active' \in Signers /\ active' \notin fenced /\ active' # active
      BY <1>1 DEF RotateSwap
    <2>3. /\ rotation' \in [pc : {"idle", "record"}, old : Signers]
          /\ rotation'.pc = "record" /\ rotation'.old = active
      BY <2>1, <1>0
    <2>4. active # FirstSigner => FirstSigner \in fenced
      BY <2>1 DEF SignersInv, FirstSignerIsGone
    <2>5. active' # FirstSigner
      BY <2>2, <2>4, Zenon
    <2>6. FirstSignerIsGone' /\ RefillsAccounted'
      BY <2>1, <2>3, <2>4, <2>5, Zenon DEF FirstSignerIsGone, RefillsAccounted
    <2> QED
      BY <2>1, <2>2, <2>3, <2>6, Zenon DEF SignersInv
  <1>2. CASE RotateRecord
    <2>1. /\ fenced' = fenced \cup {rotation.old} /\ rotation' = NoRotation
          /\ active' = active /\ hot' = hot /\ refills' = refills
          /\ probe' = probe /\ baseline' = baseline /\ observed' = observed
      BY <1>2, Zenon DEF RotateRecord, probeVars
    <2>2. fenced' \subseteq Signers /\ rotation' \in [pc : {"idle", "record"}, old : Signers]
      BY <2>1, <1>0 DEF NoRotation
    <2>3. FirstSignerIsGone'
      BY <2>1, Zenon DEF SignersInv, FirstSignerIsGone
    <2>4. RefillsAccounted'
      BY <2>1, Zenon DEF SignersInv, RefillsAccounted, Accounted
    <2> QED
      BY <2>1, <2>2, <2>3, <2>4, Zenon DEF SignersInv
  <1> QED
    BY <1>1, <1>2, Zenon

\* A behaviour starts with no outcome, no probe and the first signer.
LEMMA BreakersStart == BreakersInit => BreakersInv
  <1> SUFFICES ASSUME BreakersInit PROVE BreakersInv
    OBVIOUS
  <1> USE DEF BreakersInit
  <1>1. BreakersTypeOK
    <2>1. <<>> \in Seq(BOOLEAN) /\ 0 \in Nat
      OBVIOUS
    <2>2. /\ FirstSigner \in Signers /\ {} \subseteq Signers
          /\ [pc |-> "idle", read |-> 0] \in [pc : {"idle", "healthy", "balance", "refill"}, read : Nat]
          /\ NoBaseline \in [signer : Signers \cup {"none"}, balance : Nat]
          /\ NoRotation \in [pc : {"idle", "record"}, old : Signers]
          /\ [s \in Signers |-> HotBalance] \in [Signers -> Nat]
      BY BreakerAssumption DEF NoBaseline, NoRotation
    <2> QED
      BY <2>1, <2>2, Zenon DEF BreakersTypeOK
  <1>2. WindowIsRecent
    BY BreakerAssumption DEF WindowIsRecent, LastOf
  <1>3. FailuresAreTrailing
    <2>1. Len(<<>>) = 0 /\ DOMAIN <<>> = {} /\ 0 <= 0 /\ ~(0 < 0)
      OBVIOUS
    <2>2. ~(0 >= RPCTripAfter)
      BY BreakerAssumption
    <2> QED
      BY <2>1, <2>2, Zenon DEF FailuresAreTrailing
  <1>4. FirstSignerIsGone
    BY Zenon DEF FirstSignerIsGone
  <1>5. RefillsAccounted
    <2>1. baseline.signer = "none" /\ "none" # FirstSigner /\ probe.pc = "idle"
      BY BreakerAssumption DEF NoBaseline
    <2>2. observed + 0 <= refills /\ 0 \in Nat
      OBVIOUS
    <2>3. Accounted(0)
      BY <2>1, <2>2, Zenon DEF Accounted
    <2> QED
      BY <2>1, <2>2, <2>3, Zenon DEF RefillsAccounted
  <1> QED
    BY <1>1, <1>2, <1>3, <1>4, <1>5, Zenon DEF BreakersInv

\* Every step keeps the invariant.
LEMMA BreakersStep == BreakersInv /\ [BreakersNext]_breakersVars => BreakersInv'
  <1> SUFFICES ASSUME BreakersInv, [BreakersNext]_breakersVars PROVE BreakersInv'
    OBVIOUS
  <1>1. BreakersTypeOK /\ WindowIsRecent /\ FailuresAreTrailing /\ SignersInv
    BY Zenon DEF BreakersInv, BreakersTypeOK, SignersInv
  <1>2. /\ \/ \E success \in BOOLEAN : RecordOutcome(success)
           \/ ResetErrorWindow
           \/ UNCHANGED <<outcomes, sinceReset>>
        /\ \/ \E healthy \in BOOLEAN : RecordRPCProbe(healthy)
           \/ UNCHANGED <<rpcFailures, rpcDown, probes>>
    <2> USE DEF breakerVars
    <2>1. CASE Probe
      BY Zenon, <2>1 DEF Probe, ProbeFails, ProbeRead, ProbeHealthy, ProbeBalance, ProbeRefill, RecordRPCProbe
    <2>2. CASE Reader
      BY Zenon, <2>2 DEF Reader, FundEvaluate, FundAccept, WorkerTake, WorkerGate, WorkerPaid, WorkerFailed,
                  WorkerDeferred, RecordOutcome
    <2>3. CASE Operator
      BY <2>3 DEF Operator, Resume, RotateSwap, RotateRecord, RefillHot, ResetErrorWindow
    <2>4. CASE UNCHANGED breakersVars
      BY <2>4 DEF breakersVars
    <2> QED
      BY <2>1, <2>2, <2>3, <2>4, Zenon DEF BreakersNext
  <1>3. SignersInv'
    <2> DEFINE quiet == UNCHANGED <<active, fenced, probe, baseline, rotation, hot, refills, observed>>
    <2>1. CASE quiet
      BY <2>1, <1>1, SignersSame, Zenon
    <2>2. CASE ProbeRead \/ ProbeRefill \/ WorkerPaid \/ RefillHot \/ RotateSwap \/ RotateRecord
      BY <2>2, <1>1, SignersRead, SignersRefill, SignersPaid, SignersRefilled, SignersRotate, Zenon
    <2>3. CASE ProbeHealthy
      <3>1. /\ probe.pc # "idle" /\ probe' = [probe EXCEPT !.pc = "balance"]
            /\ UNCHANGED <<active, fenced, baseline, rotation, hot, refills, observed>>
        BY <2>3 DEF ProbeHealthy, signerVars
      <3> QED
        BY <3>1, <1>1, SignersProbe
    <2>4. CASE ProbeBalance
      <3>1. /\ probe.pc # "idle" /\ probe' = [probe EXCEPT !.pc = "refill"]
            /\ UNCHANGED <<active, fenced, baseline, rotation, hot, refills, observed>>
        BY <2>4 DEF ProbeBalance, signerVars
      <3> QED
        BY <3>1, <1>1, SignersProbe
    <2>5. CASE ProbeFails \/ FundEvaluate \/ FundAccept \/ WorkerTake \/ WorkerGate \/ WorkerFailed
               \/ WorkerDeferred \/ Resume \/ UNCHANGED breakersVars
      <3>1. UNCHANGED <<probeVars, signerVars>>
        BY Zenon, <2>5 DEF ProbeFails, FundEvaluate, FundAccept, WorkerTake, WorkerGate, WorkerFailed,
                    WorkerDeferred, Resume, breakersVars
      <3> QED
        BY <3>1, <2>1, Zenon DEF probeVars, signerVars
    <2> QED
      BY <2>2, <2>3, <2>4, <2>5, Zenon DEF BreakersNext, Probe, Reader, Operator
  <1>4. outcomes' \in Seq(BOOLEAN) /\ sinceReset' \in Seq(BOOLEAN) /\ WindowIsRecent'
    BY <1>1, <1>2, WindowKept, Zenon
  <1>5. /\ rpcFailures' \in Nat /\ rpcDown' \in BOOLEAN /\ probes' \in Seq(BOOLEAN)
        /\ FailuresAreTrailing'
    BY <1>1, <1>2, TrailingKept, Zenon
  <1> QED
    BY <1>3, <1>4, <1>5, Zenon DEF BreakersInv, BreakersTypeOK, SignersInv

\* The error-rate window holds exactly the latest outcomes, the RPC breaker is open
\* exactly when the latest probes failed, and until the first rotation no refill is
\* journaled that was not made (breakers.go and observeRefill).
THEOREM BreakersAreTrue == BreakersSpec => []BreakersAreExact
  <1>1. BreakersInv => BreakersAreExact
    <2> SUFFICES ASSUME BreakersInv PROVE BreakersAreExact
      OBVIOUS
    <2>1. WindowIsRecent /\ RPCBreakerExact
      BY TrailingIsExact, Zenon DEF BreakersInv
    <2>2. RefillsAreReal
      <3> SUFFICES ASSUME active = FirstSigner PROVE observed <= refills
        BY Zenon DEF RefillsAreReal
      <3>1. PICK since \in Nat : Accounted(since)
        BY Zenon DEF BreakersInv, RefillsAccounted
      <3>2. observed + since <= refills /\ observed \in Nat /\ refills \in Nat
        BY <3>1, Zenon DEF Accounted, BreakersInv, BreakersTypeOK
      <3> QED
        BY <3>2
    <2> QED
      BY <2>1, <2>2, Zenon DEF BreakersAreExact
  <1> QED
    BY <1>1, BreakersStart, BreakersStep, PTL DEF BreakersSpec

-----------------------------------------------------------------------------
\* The journal.

IsSequence(s) == s \in Seq({s[i] : i \in DOMAIN s})

\* The entries are on the synced part of the file, one to a line, and whatever follows
\* them is of appends that did not return: all of them tried the same sequence number.
EntriesKept ==
    /\ 2 * Len(entries) - 1 <= synced
    /\ \A n \in DOMAIN entries : file[2 * n - 1] = entries[n]
    /\ \A n \in DOMAIN entries : n < Len(entries) => file[2 * n] = Newline
    /\ \A i \in DOMAIN file : i > 2 * Len(entries) - 1 /\ file[i].piece = "entry" =>
           file[i].seq = Len(entries) + 1

\* Something on the synced part of the file will never verify: it is no newline where
\* one has to be, or no entry, or an entry of another line.
Spoilt ==
    \E n \in 1 .. synced :
        \/ 2 * n <= synced /\ file[2 * n] # Newline
        \/ /\ 2 * n - 1 <= synced
           /\ file[2 * n - 1].piece = "entry" => file[2 * n - 1].seq # n

JournalInv ==
    /\ IsSequence(file) /\ IsSequence(entries)
    /\ synced \in 0 .. Len(file)
    /\ status = "down" => synced = Len(file)
    /\ ChainIntact /\ AckedIsDurable
    /\ EntriesKept \/ Spoilt
    /\ status \in {"open", "syncing"} =>
        /\ sequence = Len(entries)
        /\ lastHash = IF entries = <<>> THEN GenesisHash ELSE HashOf(entries[Len(entries)])
    /\ status = "syncing" =>
        /\ Len(file) >= synced + 2
        /\ file[Len(file)] = Newline
        /\ file[Len(file) - 1].piece = "entry"
        /\ file[Len(file) - 1].seq = sequence + 1
        /\ file[Len(file) - 1].prev = lastHash

-----------------------------------------------------------------------------
\* Lemmas about files.

LEMMA SequenceFacts ==
    ASSUME NEW s, IsSequence(s)
    PROVE  Len(s) \in Nat /\ DOMAIN s = 1 .. Len(s)
  BY DEF IsSequence

LEMMA SequenceOf ==
    ASSUME NEW S, NEW s \in Seq(S)
    PROVE  IsSequence(s)
  <1>1. DOMAIN s = 1 .. Len(s) /\ Len(s) \in Nat
    OBVIOUS
  <1>2. s = [i \in 1 .. Len(s) |-> s[i]]
    OBVIOUS
  <1> DEFINE T == {s[i] : i \in DOMAIN s}
  <1>3. \A i \in 1 .. Len(s) : s[i] \in T
    BY <1>1, Zenon
  <1> HIDE DEF T
  <1>4. [i \in 1 .. Len(s) |-> s[i]] \in [1 .. Len(s) -> T]
    BY <1>3, Zenon
  <1>5. \A n \in Nat : \A f \in [1 .. n -> T] : f \in Seq(T)
    OBVIOUS
  <1>6. s \in Seq(T)
    BY <1>1, <1>2, <1>4, <1>5, Zenon
  <1> QED
    BY <1>6, Zenon DEF IsSequence, T

\* Append's write extends the file, and Append extends the entries.
LEMMA Joined ==
    ASSUME NEW s, IsSequence(s), NEW w, IsSequence(w)
    PROVE  /\ IsSequence(s \o w) /\ Len(s \o w) = Len(s) + Len(w)
           /\ \A i \in 1 .. Len(s) : (s \o w)[i] = s[i]
           /\ \A j \in 1 .. Len(w) : (s \o w)[Len(s) + j] = w[j]
           /\ \A i \in 1 .. Len(s) + Len(w) : i > Len(s) => \E j \in 1 .. Len(w) : i = Len(s) + j
  <1> DEFINE S == {s[i] : i \in DOMAIN s} \cup {w[i] : i \in DOMAIN w}
  <1>1. s \in Seq({s[i] : i \in DOMAIN s}) /\ w \in Seq({w[i] : i \in DOMAIN w})
    BY Zenon DEF IsSequence
  <1>2. \A A, B : \A q \in Seq(A) : q \in Seq(A \cup B) /\ q \in Seq(B \cup A)
    OBVIOUS
  <1>3. s \in Seq(S) /\ w \in Seq(S)
    BY <1>1, <1>2, Zenon
  <1> HIDE DEF S
  <1>4. s \o w \in Seq(S)
    BY <1>3
  <1>5. IsSequence(s \o w)
    BY <1>4, SequenceOf, Zenon
  <1>6. /\ Len(s \o w) = Len(s) + Len(w)
        /\ \A i \in 1 .. Len(s) : (s \o w)[i] = s[i]
        /\ \A j \in 1 .. Len(w) : (s \o w)[Len(s) + j] = w[j]
    BY <1>3
  <1>7. \A i \in 1 .. Len(s) + Len(w) : i > Len(s) => \E j \in 1 .. Len(w) : i = Len(s) + j
    <2> SUFFICES ASSUME NEW i \in 1 .. Len(s) + Len(w), i > Len(s)
                 PROVE  \E j \in 1 .. Len(w) : i = Len(s) + j
      OBVIOUS
    <2>1. Len(s) \in Nat /\ Len(w) \in Nat
      BY <1>3
    <2>2. i - Len(s) \in 1 .. Len(w) /\ i = Len(s) + (i - Len(s))
      BY <2>1
    <2> QED
      BY <2>2, Zenon
  <1> QED
    BY <1>5, <1>6, <1>7, Zenon

LEMMA Appended ==
    ASSUME NEW s, IsSequence(s), NEW x
    PROVE  /\ IsSequence(Append(s, x)) /\ Len(Append(s, x)) = Len(s) + 1
           /\ \A i \in 1 .. Len(s) : Append(s, x)[i] = s[i]
           /\ Append(s, x)[Len(s) + 1] = x
  <1> DEFINE S == {s[i] : i \in DOMAIN s} \cup {x}
  <1>1. s \in Seq({s[i] : i \in DOMAIN s})
    BY Zenon DEF IsSequence
  <1>2. \A A, B : \A q \in Seq(A) : q \in Seq(A \cup B)
    OBVIOUS
  <1>3. s \in Seq(S) /\ x \in S
    BY <1>1, <1>2, Zenon
  <1> HIDE DEF S
  <1>4. Append(s, x) \in Seq(S)
    BY <1>3
  <1>5. IsSequence(Append(s, x))
    BY <1>4, SequenceOf, Zenon
  <1>6. /\ Len(Append(s, x)) = Len(s) + 1
        /\ \A i \in 1 .. Len(s) : Append(s, x)[i] = s[i]
        /\ Append(s, x)[Len(s) + 1] = x
    BY <1>3
  <1> QED
    BY <1>5, <1>6, Zenon

LEMMA Prefix ==
    ASSUME NEW s, IsSequence(s), NEW n \in 0 .. Len(s)
    PROVE  /\ IsSequence(SubSeq(s, 1, n)) /\ Len(SubSeq(s, 1, n)) = n
           /\ \A i \in 1 .. n : SubSeq(s, 1, n)[i] = s[i]
  <1> DEFINE S == {s[i] : i \in DOMAIN s}
  <1>1. s \in Seq(S)
    BY Zenon DEF IsSequence
  <1> HIDE DEF S
  <1>2. n \in Nat /\ n <= Len(s) /\ Len(s) \in Nat
    BY <1>1
  <1>3. SubSeq(s, 1, n) \in Seq(S) /\ Len(SubSeq(s, 1, n)) = n
        /\ \A i \in 1 .. n : SubSeq(s, 1, n)[i] = s[i]
    BY <1>1, <1>2
  <1>4. IsSequence(SubSeq(s, 1, n))
    BY <1>3, SequenceOf, Zenon
  <1> QED
    BY <1>3, <1>4, Zenon

\* The file grows, or is cut after what was synced, and nothing was returned.
LEMMA FileMoves ==
    ASSUME JournalInv, IsSequence(file'), entries' = entries,
           synced' \in synced .. Len(file'),
           \A i \in 1 .. synced : file'[i] = file[i],
           \A i \in 1 .. Len(file') : file'[i].piece = "entry" =>
                \/ i \in DOMAIN file /\ file'[i] = file[i]
                \/ file'[i].seq = Len(entries) + 1
    PROVE  /\ IsSequence(entries') /\ synced' \in 0 .. Len(file')
           /\ ChainIntact' /\ AckedIsDurable' /\ (EntriesKept \/ Spoilt)'
  <1>1. /\ IsSequence(entries) /\ IsSequence(file) /\ synced \in 0 .. Len(file)
        /\ ChainIntact /\ AckedIsDurable /\ (EntriesKept \/ Spoilt)
    BY Zenon DEF JournalInv
  <1>2. /\ Len(entries) \in Nat /\ DOMAIN entries = 1 .. Len(entries)
        /\ Len(file) \in Nat /\ DOMAIN file = 1 .. Len(file)
        /\ Len(file') \in Nat /\ DOMAIN file' = 1 .. Len(file')
    BY <1>1, SequenceFacts, Zenon
  <1>3. synced \in Nat /\ synced' \in Nat /\ synced <= synced' /\ synced' <= Len(file')
    BY <1>1, <1>2
  <1>4. ChainIntact'
    BY <1>1, Zenon DEF ChainIntact
  <1>5. AckedIsDurable'
    <2> SUFFICES ASSUME NEW n \in DOMAIN entries PROVE \E i \in 1 .. synced' : file'[i] = entries[n]
      BY Zenon DEF AckedIsDurable
    <2>1. PICK i \in 1 .. synced : file[i] = entries[n]
      BY <1>1, ZenonT(30) DEF AckedIsDurable
    <2>2. i \in 1 .. synced'
      BY <1>3
    <2> QED
      BY <2>1, <2>2, Zenon
  <1>6. ASSUME EntriesKept PROVE EntriesKept'
    <2>1. 2 * Len(entries) - 1 <= synced'
      <3>1. 2 * Len(entries) - 1 <= synced
        BY <1>6, Zenon DEF EntriesKept
      <3> QED
        BY <3>1, <1>2, <1>3
    <2>2. ASSUME NEW n \in DOMAIN entries PROVE file'[2 * n - 1] = entries[n]
      <3>1. 2 * n - 1 \in 1 .. synced
        BY <1>2, <1>3, <1>6 DEF EntriesKept
      <3> QED
        BY <3>1, <1>6, Zenon DEF EntriesKept
    <2>3. ASSUME NEW n \in DOMAIN entries, n < Len(entries) PROVE file'[2 * n] = Newline
      <3>1. 2 * n \in 1 .. synced
        BY <2>3, <1>2, <1>3, <1>6 DEF EntriesKept
      <3> QED
        BY <3>1, <2>3, <1>6, Zenon DEF EntriesKept
    <2>4. ASSUME NEW i \in DOMAIN file', i > 2 * Len(entries) - 1, file'[i].piece = "entry"
          PROVE  file'[i].seq = Len(entries) + 1
      BY <2>4, <1>2, <1>6, Zenon DEF EntriesKept
    <2> QED
      BY <2>1, <2>2, <2>3, <2>4, Zenon DEF EntriesKept
  <1>7. ASSUME Spoilt PROVE Spoilt'
    <2>1. PICK n \in 1 .. synced :
            \/ 2 * n <= synced /\ file[2 * n] # Newline
            \/ /\ 2 * n - 1 <= synced
               /\ file[2 * n - 1].piece = "entry" => file[2 * n - 1].seq # n
      BY <1>7, Zenon DEF Spoilt
    <2>2. n \in 1 .. synced' /\ n \in Nat
      BY <1>3
    <2>3. 2 * n <= synced => 2 * n \in 1 .. synced /\ 2 * n <= synced'
      BY <1>3, <2>2
    <2>4. 2 * n - 1 <= synced => 2 * n - 1 \in 1 .. synced /\ 2 * n - 1 <= synced'
      BY <1>3, <2>2
    <2>5. \/ 2 * n <= synced' /\ file'[2 * n] # Newline
          \/ /\ 2 * n - 1 <= synced'
             /\ file'[2 * n - 1].piece = "entry" => file'[2 * n - 1].seq # n
      BY <2>1, <2>3, <2>4, Zenon
    <2> QED
      BY <2>2, <2>5, Zenon DEF Spoilt
  <1>8. synced' \in 0 .. Len(file')
    BY <1>2, <1>3
  <1> QED
    BY <1>1, <1>4, <1>5, <1>6, <1>7, <1>8, Zenon

-----------------------------------------------------------------------------
\* The steps of the journal.

LEMMA JournalStarts == JournalInit => JournalInv
  <1> SUFFICES ASSUME JournalInit PROVE JournalInv
    OBVIOUS
  <1>1. /\ file = <<>> /\ entries = <<>> /\ synced = 0 /\ status = "down"
    BY Zenon DEF JournalInit
  <1>2. IsSequence(<<>>) /\ Len(<<>>) = 0 /\ DOMAIN <<>> = {}
    BY DEF IsSequence
  <1>3. ChainIntact /\ AckedIsDurable
    BY <1>1, <1>2, Zenon DEF ChainIntact, AckedIsDurable
  <1>4. EntriesKept
    BY <1>1, <1>2 DEF EntriesKept
  <1>5. synced \in 0 .. Len(file) /\ synced = Len(file)
    BY <1>1, <1>2
  <1> QED
    BY <1>1, <1>2, <1>3, <1>4, <1>5 DEF JournalInv

\* What Append writes of the entry it is at leaves the returned entries where they are.
LEMMA Written ==
    ASSUME JournalInv, entries' = entries, synced' = synced,
           NEW w, IsSequence(w), file' = file \o w,
           \A j \in 1 .. Len(w) : w[j].piece = "entry" => w[j].seq = Len(entries) + 1
    PROVE  /\ IsSequence(file') /\ Len(file') = Len(file) + Len(w)
           /\ \A j \in 1 .. Len(w) : file'[Len(file) + j] = w[j]
           /\ IsSequence(entries') /\ synced' \in 0 .. Len(file')
           /\ ChainIntact' /\ AckedIsDurable' /\ (EntriesKept \/ Spoilt)'
  <1>1. IsSequence(file) /\ synced \in 0 .. Len(file)
    BY Zenon DEF JournalInv
  <1>2. /\ IsSequence(file') /\ Len(file') = Len(file) + Len(w)
        /\ \A i \in 1 .. Len(file) : file'[i] = file[i]
        /\ \A j \in 1 .. Len(w) : file'[Len(file) + j] = w[j]
        /\ \A i \in 1 .. Len(file') : i > Len(file) => \E j \in 1 .. Len(w) : i = Len(file) + j
    <2>1. /\ IsSequence(file \o w) /\ Len(file \o w) = Len(file) + Len(w)
          /\ \A i \in 1 .. Len(file) : (file \o w)[i] = file[i]
          /\ \A j \in 1 .. Len(w) : (file \o w)[Len(file) + j] = w[j]
          /\ \A i \in 1 .. Len(file) + Len(w) :
                i > Len(file) => \E j \in 1 .. Len(w) : i = Len(file) + j
      BY ONLY <1>1, IsSequence(w), Joined
    <2>2. PICK g : g = file \o w
      BY Zenon
    <2>3. /\ IsSequence(g) /\ Len(g) = Len(file) + Len(w)
          /\ \A i \in 1 .. Len(file) : g[i] = file[i]
          /\ \A j \in 1 .. Len(w) : g[Len(file) + j] = w[j]
      BY <2>1, <2>2, Zenon
    <2>5. \A i \in 1 .. Len(g) : i > Len(file) => \E j \in 1 .. Len(w) : i = Len(file) + j
      BY <2>1, <2>3, Zenon
    <2>6. file' = g
      BY <2>2, Zenon
    <2> QED
      BY <2>3, <2>5, <2>6, Zenon
  <1>3. /\ Len(file) \in Nat /\ DOMAIN file = 1 .. Len(file) /\ Len(w) \in Nat
    BY <1>1, SequenceFacts, Zenon
  <1>4. synced' \in synced .. Len(file')
    BY <1>1, <1>2, <1>3
  <1>5. \A i \in 1 .. synced : i \in 1 .. Len(file)
    BY <1>1, <1>3
  <1>6. ASSUME NEW i \in 1 .. Len(file'), file'[i].piece = "entry"
        PROVE  (i \in DOMAIN file /\ file'[i] = file[i]) \/ file'[i].seq = Len(entries) + 1
    <2>1. i \in 1 .. Len(file) \/ i > Len(file)
      BY <1>2, <1>3
    <2>2. CASE i \in 1 .. Len(file)
      BY <2>2, <1>2, <1>3, Zenon
    <2>3. CASE i > Len(file)
      <3>1. PICK j \in 1 .. Len(w) : i = Len(file) + j
        BY <2>3, <1>2, Zenon
      <3>2. file'[i] = w[j]
        BY <3>1, <1>2, Zenon
      <3> QED
        BY <3>2, <1>6, Zenon
    <2> QED
      BY <2>1, <2>2, <2>3, Zenon
  <1>7. \A i \in 1 .. synced : file'[i] = file[i]
    BY <1>2, <1>5, Zenon
  <1> QED
    BY <1>2, <1>4, <1>6, <1>7, FileMoves, Zenon

LEMMA JournalStartWrite == JournalInv /\ StartWrite => JournalInv'
  <1> SUFFICES ASSUME JournalInv, StartWrite PROVE JournalInv'
    OBVIOUS
  <1>1. /\ status = "open" /\ status' = "syncing" /\ synced' = synced /\ sequence' = sequence
        /\ lastHash' = lastHash /\ entries' = entries
    BY Zenon DEF StartWrite
  <1>2. PICK p \in Payloads : file' = file \o <<Encoded(sequence + 1, p, lastHash), Newline>>
    BY Zenon DEF StartWrite
  <1>3. /\ sequence = Len(entries)
        /\ lastHash = IF entries = <<>> THEN GenesisHash ELSE HashOf(entries[Len(entries)])
        /\ IsSequence(file) /\ synced \in 0 .. Len(file)
    BY <1>1, Zenon DEF JournalInv
  <1>4. PICK e : e = Encoded(sequence + 1, p, lastHash)
    BY Zenon
  <1>5. e.piece = "entry" /\ e.seq = sequence + 1 /\ e.prev = lastHash
    BY <1>4, Zenon DEF Encoded
  <1>6. Newline.piece # "entry"
    BY DEF Newline
  <1>7. PICK w : w = <<e, Newline>>
    BY Zenon
  <1>8. IsSequence(w) /\ Len(w) = 2 /\ w[1] = e /\ w[2] = Newline
    <2>1. \A a, b : <<a, b>> \in Seq({a, b}) /\ Len(<<a, b>>) = 2
                    /\ <<a, b>>[1] = a /\ <<a, b>>[2] = b
      OBVIOUS
    <2> QED
      BY <1>7, <2>1, SequenceOf, Zenon
  <1>9. ASSUME NEW j \in 1 .. Len(w), w[j].piece = "entry" PROVE w[j].seq = Len(entries) + 1
    <2>1. j = 1 \/ j = 2
      BY <1>8
    <2> QED
      BY <2>1, <1>3, <1>5, <1>6, <1>8, <1>9, Zenon
  <1>10. file' = file \o w
    BY <1>2, <1>4, <1>7, Zenon
  <1>11. /\ IsSequence(file') /\ Len(file') = Len(file) + Len(w)
         /\ \A j \in 1 .. Len(w) : file'[Len(file) + j] = w[j]
         /\ IsSequence(entries') /\ synced' \in 0 .. Len(file')
         /\ ChainIntact' /\ AckedIsDurable' /\ (EntriesKept \/ Spoilt)'
    BY <1>1, <1>8, <1>9, <1>10, Written, Zenon
  <1>12. /\ Len(file') >= synced + 2 /\ Len(file') = Len(file) + 2
         /\ Len(file') - 1 = Len(file) + 1 /\ 1 \in 1 .. Len(w) /\ 2 \in 1 .. Len(w)
    BY <1>3, <1>8, <1>11, SequenceFacts
  <1>13. file'[Len(file')] = Newline /\ file'[Len(file') - 1] = e
    BY <1>8, <1>11, <1>12, Zenon
  <1> QED
    BY <1>1, <1>3, <1>5, <1>11, <1>12, <1>13, Zenon DEF JournalInv

LEMMA JournalWriteFails == JournalInv /\ WriteFails => JournalInv'
  <1> SUFFICES ASSUME JournalInv, WriteFails PROVE JournalInv'
    OBVIOUS
  <1>1. /\ status = "open" /\ status' = status /\ synced' = synced /\ sequence' = sequence
        /\ lastHash' = lastHash /\ entries' = entries
    BY Zenon DEF WriteFails
  <1>p. PICK p \in Payloads :
            \E w \in {<<>>, <<Fragment>>, <<Encoded(sequence + 1, p, lastHash)>>} :
                file' = file \o w
    BY Zenon DEF WriteFails
  <1>2. PICK w \in {<<>>, <<Fragment>>, <<Encoded(sequence + 1, p, lastHash)>>} :
            file' = file \o w
    BY <1>p, Zenon
  <1>3. /\ sequence = Len(entries)
        /\ lastHash = IF entries = <<>> THEN GenesisHash ELSE HashOf(entries[Len(entries)])
    BY <1>1, Zenon DEF JournalInv
  <1>4. ASSUME NEW x, x.piece = "entry" => x.seq = Len(entries) + 1, w = <<x>> \/ w = <<>>
        PROVE  /\ IsSequence(w)
               /\ \A j \in 1 .. Len(w) : w[j].piece = "entry" => w[j].seq = Len(entries) + 1
    <2>1. CASE w = <<>>
      <3>1. <<>> \in Seq({x}) /\ Len(<<>>) = 0 /\ 1 .. 0 = {}
        OBVIOUS
      <3> QED
        BY <2>1, <3>1, SequenceOf, Zenon
    <2>2. CASE w = <<x>>
      <3>1. <<x>> \in Seq({x}) /\ Len(<<x>>) = 1 /\ <<x>>[1] = x /\ 1 .. 1 = {1}
        OBVIOUS
      <3> QED
        BY <1>4, <2>2, <3>1, SequenceOf, Zenon
    <2> QED
      BY <1>4, <2>1, <2>2, Zenon
  <1>5. Fragment.piece # "entry"
    BY DEF Fragment
  <1>6. PICK e : e = Encoded(sequence + 1, p, lastHash)
    BY Zenon
  <1>7. e.piece = "entry" /\ e.seq = Len(entries) + 1
    BY <1>3, <1>6, Zenon DEF Encoded
  <1>8. /\ IsSequence(w)
        /\ \A j \in 1 .. Len(w) : w[j].piece = "entry" => w[j].seq = Len(entries) + 1
    <2>1. CASE w = <<e>>
      BY <2>1, <1>4, <1>7, Zenon
    <2>2. CASE w = <<>> \/ w = <<Fragment>>
      BY <2>2, <1>4, <1>5, Zenon
    <2> QED
      BY <1>2, <1>6, <2>1, <2>2, Zenon
  <1>9. /\ IsSequence(file') /\ IsSequence(entries') /\ synced' \in 0 .. Len(file')
        /\ ChainIntact' /\ AckedIsDurable' /\ (EntriesKept \/ Spoilt)'
    BY <1>1, <1>2, <1>8, Written, Zenon
  <1>10. status' # "down" /\ status' # "syncing"
    BY <1>1, Zenon
  <1> QED
    BY <1>1, <1>3, <1>9, <1>10, Zenon DEF JournalInv

\* A crash leaves what was synced, and no piece that was not there but a fragment.
LEMMA Survives ==
    ASSUME NEW f, IsSequence(f), NEW n \in 0 .. Len(f), NEW g \in Remains(f, n)
    PROVE  /\ IsSequence(g) /\ n <= Len(g)
           /\ \A i \in 1 .. n : g[i] = f[i]
           /\ \A i \in 1 .. Len(g) : g[i].piece = "entry" => i \in DOMAIN f /\ g[i] = f[i]
  <1>1. Len(f) \in Nat /\ DOMAIN f = 1 .. Len(f)
    BY SequenceFacts, Zenon
  <1>2. PICK i \in n .. Len(f) : g = SubSeq(f, 1, i) \/ g = Append(SubSeq(f, 1, i), Fragment)
    <2>1. \A j : j \in n .. (Len(f) - 1) => j \in n .. Len(f)
      BY <1>1
    <2> QED
      BY <2>1, Zenon DEF Remains
  <1>3. i \in 0 .. Len(f) /\ n <= i /\ i \in Nat /\ n \in Nat
    BY <1>1
  <1>4. /\ \A j \in 1 .. n : j \in 1 .. i
        /\ \A j \in 1 .. i : j \in DOMAIN f
    BY <1>1, <1>3
  <1>5. PICK s : s = SubSeq(f, 1, i)
    BY Zenon
  <1>6. IsSequence(s) /\ Len(s) = i /\ \A j \in 1 .. i : s[j] = f[j]
    BY <1>3, <1>5, Prefix, Zenon
  <1>7. CASE g = s
    BY <1>3, <1>4, <1>6, <1>7, Zenon
  <1>8. CASE g = Append(s, Fragment)
    <2>1. /\ IsSequence(g) /\ Len(g) = i + 1 /\ g[i + 1] = Fragment
          /\ \A j \in 1 .. i : g[j] = s[j]
      <3>1. /\ IsSequence(Append(s, Fragment)) /\ Len(Append(s, Fragment)) = Len(s) + 1
            /\ \A j \in 1 .. Len(s) : Append(s, Fragment)[j] = s[j]
            /\ Append(s, Fragment)[Len(s) + 1] = Fragment
        BY ONLY SMTT(30), <1>6, Appended
      <3> QED
        BY <3>1, <1>6, <1>8, Zenon
    <2>2. n <= Len(g) /\ \A j \in 1 .. Len(g) : j \in 1 .. i \/ j = i + 1
      BY <1>3, <2>1
    <2>3. Fragment.piece # "entry"
      BY DEF Fragment
    <2> QED
      BY <1>4, <1>6, <2>1, <2>2, <2>3, Zenon
  <1> QED
    BY <1>2, <1>5, <1>7, <1>8, Zenon

LEMMA JournalCrash == JournalInv /\ Crash => JournalInv'
  <1> SUFFICES ASSUME JournalInv, Crash PROVE JournalInv'
    OBVIOUS
  <1>1. /\ file' \in Remains(file, synced) /\ synced' = Len(file')
        /\ status' = "down" /\ entries' = entries
    BY Zenon DEF Crash
  <1>2. IsSequence(file) /\ synced \in 0 .. Len(file)
    BY Zenon DEF JournalInv
  <1>3. /\ IsSequence(file') /\ synced <= Len(file')
        /\ \A i \in 1 .. synced : file'[i] = file[i]
        /\ \A i \in 1 .. Len(file') :
                file'[i].piece = "entry" => i \in DOMAIN file /\ file'[i] = file[i]
    BY <1>1, <1>2, Survives, Zenon
  <1>4. Len(file') \in Nat /\ synced \in Nat
    BY <1>2, <1>3, SequenceFacts
  <1>5. synced' \in synced .. Len(file')
    BY <1>1, <1>3, <1>4
  <1>6. /\ IsSequence(entries') /\ synced' \in 0 .. Len(file')
        /\ ChainIntact' /\ AckedIsDurable' /\ (EntriesKept \/ Spoilt)'
    BY <1>1, <1>3, <1>5, FileMoves, Zenon
  <1>7. status' \notin {"open", "syncing"} /\ status' # "syncing"
    BY <1>1
  <1> QED
    BY <1>1, <1>3, <1>6, <1>7, Zenon DEF JournalInv

LEMMA JournalSyncFails == JournalInv /\ SyncFails => JournalInv'
  <1> SUFFICES ASSUME JournalInv, SyncFails PROVE JournalInv'
    OBVIOUS
  <1>1. /\ file' = file /\ synced' = synced /\ entries' = entries /\ sequence' = sequence
        /\ lastHash' = lastHash /\ status = "syncing" /\ status' = "open"
    BY Zenon DEF SyncFails
  <1>2. status' # "down" /\ status' # "syncing"
    BY <1>1
  <1> QED
    BY <1>1, <1>2, Zenon
    DEF JournalInv, ChainIntact, AckedIsDurable, EntriesKept, Spoilt

LEMMA JournalRefuse == JournalInv /\ Refuse => JournalInv'
  <1> SUFFICES ASSUME JournalInv, Refuse PROVE JournalInv'
    OBVIOUS
  <1>1. /\ file' = file /\ synced' = synced /\ entries' = entries /\ status' = "refused"
    BY Zenon DEF Refuse
  <1>2. status' # "down" /\ status' # "syncing" /\ status' \notin {"open", "syncing"}
    BY <1>1
  <1> QED
    BY <1>1, <1>2, Zenon
    DEF JournalInv, ChainIntact, AckedIsDurable, EntriesKept, Spoilt

\* An Append that returns is either on the line after the last entry, or on a line that
\* no ReadJournal will ever accept.
LEMMA Acknowledged ==
    ASSUME JournalInv, SyncDone, EntriesKept
    PROVE  (EntriesKept \/ Spoilt)'
  <1> DEFINE n == Len(entries)
             m == Len(file)
             e == file[m - 1]
  <1>1. /\ file' = file /\ synced' = m /\ entries' = Append(entries, e)
    BY Zenon DEF SyncDone
  <1>2. /\ IsSequence(file) /\ IsSequence(entries) /\ synced \in 0 .. m
        /\ m >= synced + 2 /\ file[m] = Newline /\ e.piece = "entry" /\ e.seq = n + 1
        /\ sequence = n
    BY Zenon DEF JournalInv, SyncDone
  <1>3. /\ n \in Nat /\ m \in Nat /\ synced \in Nat
        /\ DOMAIN entries = 1 .. n /\ DOMAIN file = 1 .. m
    BY <1>2, SequenceFacts
  <1>4. /\ IsSequence(entries') /\ Len(entries') = n + 1 /\ entries'[n + 1] = e
        /\ \A k \in 1 .. n : entries'[k] = entries[k]
    BY <1>1, <1>2, Appended, ZenonT(30)
  <1>5. /\ 2 * n - 1 <= synced
        /\ \A k \in 1 .. n : file[2 * k - 1] = entries[k]
        /\ \A k \in 1 .. n : k < n => file[2 * k] = Newline
        /\ \A i \in 1 .. m : i > 2 * n - 1 /\ file[i].piece = "entry" => file[i].seq = n + 1
    BY <1>3, Zenon DEF EntriesKept
  <1>6. Newline.piece # "entry"
    BY DEF Newline
  <1>7. e # Newline /\ file[m].piece # "entry"
    BY <1>2, <1>6, Zenon
  <1>8. DOMAIN entries' = 1 .. n + 1
    BY <1>4, SequenceFacts, Zenon
  <1> HIDE DEF n, m, e
  <1>9. CASE n >= 1 /\ file[2 * n] # Newline
    <2>1. n \in 1 .. m /\ 2 * n <= m
      BY <1>2, <1>3, <1>5, <1>9
    <2> QED
      BY <1>1, <1>9, <2>1, Zenon DEF Spoilt
  <1>10. CASE n = 0 \/ file[2 * n] = Newline
    <2>1. m - 1 # 2 * n
      <3>1. CASE n = 0
        BY <3>1, <1>2, <1>3
      <3>2. CASE file[2 * n] = Newline
        BY <3>2, <1>7, Zenon DEF e
      <3> QED
        BY <3>1, <3>2, <1>10
    <2>2. m - 1 >= 2 * n + 1 /\ m >= 2
      BY <2>1, <1>2, <1>3, <1>5
    <2>3. PICK k \in Nat : m - 1 = 2 * k \/ m - 1 = 2 * k - 1
      <3>1. \A a \in Nat : a = 2 * (a \div 2) \/ a = 2 * ((a + 1) \div 2) - 1
        OBVIOUS
      <3>2. \A a \in Nat : a \div 2 \in Nat /\ (a + 1) \div 2 \in Nat
        OBVIOUS
      <3>3. m - 1 \in Nat
        BY <2>2, <1>3
      <3> QED
        BY <3>1, <3>2, <3>3, Zenon
    <2>4. k \in 1 .. m
      BY <2>2, <2>3, <1>3
    <2>5. CASE m - 1 = 2 * k
      <3>1. 2 * k <= m /\ file[2 * k] # Newline
        <4>1. 2 * k <= m
          BY <2>5, <1>3
        <4> QED
          BY <4>1, <2>5, <1>7, Zenon DEF e
      <3> QED
        BY <1>1, <2>4, <3>1, Zenon DEF Spoilt
    <2>6. CASE m - 1 = 2 * k - 1 /\ k # n + 1
      <3>1. 2 * k - 1 <= m
        BY <2>6, <1>3
      <3>2. file[2 * k - 1].seq = n + 1
        BY <2>6, <1>2, Zenon DEF e
      <3> QED
        BY <1>1, <2>4, <2>6, <3>1, <3>2, Zenon DEF Spoilt
    <2>7. CASE m - 1 = 2 * k - 1 /\ k = n + 1
      <3>1. 2 * (n + 1) - 1 = m - 1 /\ 2 * (n + 1) - 1 <= m
        BY <2>7, <1>3
      <3>2. ASSUME NEW j \in 1 .. n + 1 PROVE file[2 * j - 1] = entries'[j]
        <4>1. j \in 1 .. n \/ j = n + 1
          BY <1>3
        <4> QED
          BY <4>1, <3>1, <1>4, <1>5, Zenon DEF e
      <3>3. ASSUME NEW j \in 1 .. n + 1, j < n + 1 PROVE file[2 * j] = Newline
        <4>1. j \in 1 .. n /\ (j < n \/ (j = n /\ n # 0))
          BY <1>3, <3>3
        <4> QED
          BY <4>1, <1>5, <1>10, Zenon
      <3>4. ASSUME NEW i \in 1 .. m, i > 2 * (n + 1) - 1, file[i].piece = "entry"
            PROVE  FALSE
        <4>1. i = m
          BY <3>1, <3>4, <1>3
        <4> QED
          BY <4>1, <3>4, <1>7, Zenon
      <3>5. 2 * Len(entries') - 1 <= synced'
        BY <3>1, <1>1, <1>4, Zenon
      <3>6. EntriesKept'
        BY <1>1, <1>3, <1>4, <1>8, <3>2, <3>3, <3>4, <3>5, Zenon DEF EntriesKept
      <3> QED
        BY <3>6, Zenon
    <2> QED
      BY <2>3, <2>5, <2>6, <2>7, Zenon
  <1> QED
    BY <1>3, <1>9, <1>10

LEMMA JournalSyncDone == JournalInv /\ SyncDone => JournalInv'
  <1> SUFFICES ASSUME JournalInv, SyncDone PROVE JournalInv'
    OBVIOUS
  <1> DEFINE n == Len(entries)
             m == Len(file)
             e == file[m - 1]
  <1>1. /\ file' = file /\ synced' = m /\ entries' = Append(entries, e)
        /\ sequence' = e.seq /\ lastHash' = HashOf(e) /\ status' = "open"
    BY Zenon DEF SyncDone
  <1>2. /\ IsSequence(file) /\ IsSequence(entries) /\ synced \in 0 .. m
        /\ m >= synced + 2 /\ e.seq = n + 1 /\ e.prev = lastHash
        /\ lastHash = IF entries = <<>> THEN GenesisHash ELSE HashOf(entries[n])
        /\ ChainIntact /\ AckedIsDurable /\ (EntriesKept \/ Spoilt)
    BY Zenon DEF JournalInv, SyncDone
  <1>3. /\ n \in Nat /\ m \in Nat /\ synced \in Nat /\ DOMAIN entries = 1 .. n
    BY <1>2, SequenceFacts
  <1>4. /\ IsSequence(entries') /\ Len(entries') = n + 1 /\ entries'[n + 1] = e
        /\ \A k \in 1 .. n : entries'[k] = entries[k]
    BY <1>1, <1>2, Appended, ZenonT(30)
  <1>5. DOMAIN entries' = 1 .. n + 1
    BY <1>4, SequenceFacts, Zenon
  <1>6. entries = <<>> <=> n = 0
    BY <1>2 DEF IsSequence
  <1>7. ChainIntact'
    <2> SUFFICES ASSUME NEW k \in 1 .. n + 1
                 PROVE  /\ entries'[k].seq = k
                        /\ entries'[k].prev =
                                IF k = 1 THEN GenesisHash ELSE HashOf(entries'[k - 1])
      BY <1>5, Zenon DEF ChainIntact
    <2>1. CASE k \in 1 .. n
      <3>1. k # 1 => k - 1 \in 1 .. n
        BY <2>1, <1>3
      <3>2. /\ entries[k].seq = k
            /\ entries[k].prev = IF k = 1 THEN GenesisHash ELSE HashOf(entries[k - 1])
        BY <2>1, <1>2, <1>3, Zenon DEF ChainIntact
      <3> QED
        BY <2>1, <3>1, <3>2, <1>4, Zenon
    <2>2. CASE k = n + 1
      <3>1. (k = 1 <=> n = 0) /\ k - 1 = n /\ (n # 0 => n \in 1 .. n)
        BY <2>2, <1>3
      <3> HIDE DEF n
      <3> QED
        BY <2>2, <3>1, <1>2, <1>4, <1>6, Zenon
    <2> QED
      BY <2>1, <2>2, <1>3
  <1>8. AckedIsDurable'
    <2> SUFFICES ASSUME NEW k \in 1 .. n + 1 PROVE \E i \in 1 .. m : file[i] = entries'[k]
      BY <1>1, <1>5, Zenon DEF AckedIsDurable
    <2>1. CASE k \in 1 .. n
      <3>1. PICK i \in 1 .. synced : file[i] = entries[k]
        BY <2>1, <1>2, <1>3, Zenon DEF AckedIsDurable
      <3>2. i \in 1 .. m
        BY <1>2, <1>3
      <3> QED
        BY <3>1, <3>2, <2>1, <1>4, Zenon
    <2>2. CASE k = n + 1
      <3>1. m - 1 \in 1 .. m
        BY <1>2, <1>3
      <3> QED
        BY <3>1, <2>2, <1>4, Zenon
    <2> QED
      BY <2>1, <2>2, <1>3
  <1>9. ASSUME Spoilt PROVE Spoilt'
    <2>1. PICK k \in 1 .. synced :
            \/ 2 * k <= synced /\ file[2 * k] # Newline
            \/ /\ 2 * k - 1 <= synced
               /\ file[2 * k - 1].piece = "entry" => file[2 * k - 1].seq # k
      BY <1>9, Zenon DEF Spoilt
    <2>2. k \in 1 .. m /\ (2 * k <= synced => 2 * k <= m) /\ (2 * k - 1 <= synced => 2 * k - 1 <= m)
      BY <1>2, <1>3
    <2> QED
      BY <1>1, <2>1, <2>2, Zenon DEF Spoilt
  <1>10. (EntriesKept \/ Spoilt)'
    BY <1>2, <1>9, Acknowledged, Zenon
  <1>11. synced' \in 0 .. Len(file')
    BY <1>1, <1>3
  <1>12. /\ sequence' = Len(entries') /\ entries' # <<>>
         /\ lastHash' = HashOf(entries'[Len(entries')])
    <2>1. sequence' = Len(entries') /\ lastHash' = HashOf(entries'[Len(entries')])
      BY <1>1, <1>2, <1>4, Zenon
    <2>2. n + 1 # 0 /\ Len(<<>>) = 0
      BY <1>3
    <2> QED
      BY <1>4, <2>1, <2>2, Zenon
  <1>13. status' # "down" /\ status' # "syncing"
    BY <1>1
  <1> QED
    BY <1>1, <1>2, <1>4, <1>7, <1>8, <1>10, <1>11, <1>12, <1>13, Zenon DEF JournalInv

\* What ReadJournal returns of a file that verifies: the odd pieces, in order.
LEMMA ReplayIs ==
    ASSUME NEW f, IsSequence(f), Verifies(f), NEW q, q = (Len(f) + 1) \div 2
    PROVE  /\ q \in Nat /\ 2 * q - 1 <= Len(f) /\ 2 * q >= Len(f)
           /\ IsSequence(Replay(f)) /\ Len(Replay(f)) = q
           /\ \A k \in 1 .. q : /\ Replay(f)[k] = f[2 * k - 1]
                                /\ 2 * k - 1 \in 1 .. Len(f)
                                /\ f[2 * k - 1].piece = "entry" /\ f[2 * k - 1].seq = k
           /\ \A k \in 1 .. Len(f) : 2 * k <= Len(f) => f[2 * k] = Newline
  <1> DEFINE r == Replay(f)
  <1>1. Len(f) \in Nat
    BY SequenceFacts, Zenon
  <1>2. q \in Nat /\ 2 * q - 1 <= Len(f) /\ 2 * q >= Len(f)
    BY <1>1
  <1>3. r = [k \in 1 .. q |-> f[2 * k - 1]]
    BY Zenon DEF Replay
  <1>4. DOMAIN r = 1 .. q /\ \A k \in 1 .. q : r[k] = f[2 * k - 1]
    BY <1>3, Zenon
  <1>5. IsSequence(r) /\ Len(r) = q
    <2> DEFINE T == {r[k] : k \in 1 .. q}
    <2>1. r \in [1 .. q -> T]
      BY <1>3, <1>4, Zenon
    <2> HIDE DEF r, T
    <2>2. r \in Seq(T) /\ Len(r) = q
      BY <1>2, <2>1
    <2> QED
      BY <2>2, SequenceOf, Zenon
  <1>6. ASSUME NEW k \in 1 .. q
        PROVE  /\ 2 * k - 1 \in 1 .. Len(f)
               /\ f[2 * k - 1].piece = "entry" /\ f[2 * k - 1].seq = k
    <2>1. 2 * k - 1 \in 1 .. Len(f) /\ k \in 1 .. Len(f) /\ 2 * k - 1 <= Len(f)
      BY <1>1, <1>2
    <2>2. f[2 * k - 1].piece = "entry"
      BY <2>1, Zenon DEF Verifies, LinesAreObjects
    <2>3. r[k].seq = k
      BY <1>4, Zenon DEF Verifies
    <2> QED
      BY <1>4, <2>1, <2>2, <2>3, Zenon
  <1>7. \A k \in 1 .. Len(f) : 2 * k <= Len(f) => f[2 * k] = Newline
    BY Zenon DEF Verifies, LinesAreObjects
  <1> QED
    BY <1>2, <1>4, <1>5, <1>6, <1>7, Zenon

\* A file that verifies has kept the entries.
LEMMA VerifiedIsKept ==
    ASSUME JournalInv, status = "down", Verifies(file)
    PROVE  EntriesKept
  <1>1. IsSequence(file) /\ synced = Len(file) /\ (EntriesKept \/ Spoilt)
    BY Zenon DEF JournalInv
  <1>2. Len(file) \in Nat
    BY <1>1, SequenceFacts, Zenon
  <1>3. PICK q : q = (Len(file) + 1) \div 2
    BY Zenon
  <1>4. /\ \A k \in 1 .. q : file[2 * k - 1].piece = "entry" /\ file[2 * k - 1].seq = k
        /\ \A k \in 1 .. Len(file) : 2 * k <= Len(file) => file[2 * k] = Newline
    <2>1. \A k \in 1 .. q : /\ Replay(file)[k] = file[2 * k - 1]
                            /\ 2 * k - 1 \in 1 .. Len(file)
                            /\ file[2 * k - 1].piece = "entry" /\ file[2 * k - 1].seq = k
      BY <1>1, <1>3, ReplayIs, Zenon
    <2>2. \A k \in 1 .. Len(file) : 2 * k <= Len(file) => file[2 * k] = Newline
      BY <1>1, <1>3, ReplayIs, Zenon
    <2> QED
      BY <2>1, <2>2, Zenon
  <1>5. \A k \in 1 .. Len(file) : 2 * k - 1 <= Len(file) => k \in 1 .. q
    BY <1>2, <1>3
  <1>6. ~Spoilt
    BY <1>1, <1>4, <1>5, Zenon DEF Spoilt
  <1> QED
    BY <1>1, <1>6, Zenon

LEMMA JournalOpen == JournalInv /\ OpenJournal => JournalInv'
  <1> SUFFICES ASSUME JournalInv, OpenJournal PROVE JournalInv'
    OBVIOUS
  <1>1. /\ status = "down" /\ Verifies(file) /\ status' = "open" /\ entries' = Replay(file)
        /\ sequence' = Len(entries')
        /\ lastHash' = IF entries' = <<>> THEN GenesisHash ELSE HashOf(entries'[Len(entries')])
        /\ file' = file /\ synced' = synced
    BY Zenon DEF OpenJournal
  <1>2. IsSequence(file) /\ synced = Len(file) /\ synced \in 0 .. Len(file)
    BY <1>1, Zenon DEF JournalInv
  <1>3. PICK q : q = (Len(file) + 1) \div 2
    BY Zenon
  <1>4. /\ q \in Nat /\ 2 * q - 1 <= Len(file) /\ 2 * q >= Len(file)
        /\ IsSequence(entries') /\ Len(entries') = q
        /\ \A k \in 1 .. q : entries'[k] = file[2 * k - 1] /\ 2 * k - 1 \in 1 .. Len(file)
        /\ \A k \in 1 .. Len(file) : 2 * k <= Len(file) => file[2 * k] = Newline
    <2> DEFINE r == Replay(file)
    <2>1. /\ q \in Nat /\ 2 * q - 1 <= Len(file) /\ 2 * q >= Len(file)
          /\ IsSequence(r) /\ Len(r) = q
      BY <1>1, <1>2, <1>3, ReplayIs, Zenon
    <2>2. \A k \in 1 .. q : r[k] = file[2 * k - 1] /\ 2 * k - 1 \in 1 .. Len(file)
      BY <1>1, <1>2, <1>3, ReplayIs, ZenonT(30)
    <2>3. \A k \in 1 .. Len(file) : 2 * k <= Len(file) => file[2 * k] = Newline
      BY <1>1, <1>2, <1>3, ReplayIs, Zenon
    <2> HIDE DEF r
    <2>4. entries' = r
      BY <1>1, Zenon DEF r
    <2> QED
      BY <2>1, <2>2, <2>3, <2>4, Zenon
  <1>5. DOMAIN entries' = 1 .. q /\ Len(file) \in Nat /\ DOMAIN file = 1 .. Len(file)
    BY <1>2, <1>4, SequenceFacts, Zenon
  <1>6. ChainIntact'
    BY <1>1, Zenon DEF ChainIntact, Verifies
  <1>7. AckedIsDurable'
    BY <1>1, <1>2, <1>4, <1>5, Zenon DEF AckedIsDurable
  <1>8. EntriesKept'
    <2>1. 2 * Len(entries') - 1 <= synced'
      BY <1>1, <1>2, <1>4, Zenon
    <2>2. ASSUME NEW k \in 1 .. q, k < q PROVE file[2 * k] = Newline
      <3>1. k \in 1 .. Len(file) /\ 2 * k <= Len(file)
        BY <2>2, <1>4, <1>5
      <3> QED
        BY <3>1, <1>4, Zenon
    <2>3. ASSUME NEW i \in 1 .. Len(file), i > 2 * q - 1 PROVE file[i].piece # "entry"
      <3>1. i = 2 * q /\ q \in 1 .. Len(file) /\ 2 * q <= Len(file)
        BY <2>3, <1>4, <1>5
      <3>2. file[i] = Newline
        BY <3>1, <1>4, Zenon
      <3> QED
        BY <3>2 DEF Newline
    <2> QED
      BY <2>1, <2>2, <2>3, <1>1, <1>4, <1>5, Zenon DEF EntriesKept
  <1>9. status' # "down" /\ status' # "syncing"
    BY <1>1
  <1> QED
    BY <1>1, <1>2, <1>4, <1>6, <1>7, <1>8, <1>9, Zenon DEF JournalInv

LEMMA JournalStep == JournalInv /\ [JournalNext]_journalVars => JournalInv'
  <1> SUFFICES ASSUME JournalInv, [JournalNext]_journalVars PROVE JournalInv'
    OBVIOUS
  <1>1. CASE UNCHANGED journalVars
    BY <1>1, Zenon
    DEF journalVars, JournalInv, ChainIntact, AckedIsDurable, EntriesKept, Spoilt
  <1> QED
    BY <1>1, JournalOpen, JournalRefuse, JournalStartWrite, JournalWriteFails,
       JournalSyncDone, JournalSyncFails, JournalCrash, Zenon DEF JournalNext

\* Whatever mix of failed writes, failed syncs and crashes went before, the entries the
\* process holds are one hash chain without a gap, and every one of them is on the disk
\* (journal.go: ReadJournal, OpenJournal, Append).
THEOREM JournalIsKept == JournalSpec => []JournalHolds
  <1>1. JournalInv => JournalHolds
    BY Zenon DEF JournalInv, JournalHolds
  <1> QED
    BY <1>1, JournalStarts, JournalStep, PTL DEF JournalSpec

\* A start that succeeds returns the entries Append had returned, and at most one more.
LEMMA OpenKeeps ==
    ASSUME JournalInv, OpenJournal
    PROVE  /\ SubSeq(entries', 1, Len(entries)) = entries
           /\ Len(entries') \in {Len(entries), Len(entries) + 1}
  <1> DEFINE n == Len(entries)
  <1>1. status = "down" /\ Verifies(file) /\ entries' = Replay(file)
    BY Zenon DEF OpenJournal
  <1>2. IsSequence(file) /\ IsSequence(entries) /\ synced = Len(file)
    BY <1>1, Zenon DEF JournalInv
  <1>3. n \in Nat /\ DOMAIN entries = 1 .. n /\ Len(file) \in Nat /\ DOMAIN file = 1 .. Len(file)
    BY <1>2, SequenceFacts, Zenon
  <1>4. /\ 2 * n - 1 <= Len(file)
        /\ \A k \in 1 .. n : file[2 * k - 1] = entries[k]
        /\ \A i \in 1 .. Len(file) :
                i > 2 * n - 1 /\ file[i].piece = "entry" => file[i].seq = n + 1
    BY <1>1, <1>2, <1>3, VerifiedIsKept, Zenon DEF EntriesKept
  <1>5. PICK q : q = (Len(file) + 1) \div 2
    BY Zenon
  <1>6. /\ q \in Nat /\ 2 * q >= Len(file) /\ IsSequence(entries') /\ Len(entries') = q
        /\ \A k \in 1 .. q : /\ entries'[k] = file[2 * k - 1]
                             /\ 2 * k - 1 \in 1 .. Len(file)
                             /\ file[2 * k - 1].piece = "entry" /\ file[2 * k - 1].seq = k
    <2> DEFINE r == Replay(file)
    <2>1. q \in Nat /\ 2 * q >= Len(file) /\ IsSequence(r) /\ Len(r) = q
      BY <1>1, <1>2, <1>5, ReplayIs, Zenon
    <2>2. \A k \in 1 .. q : /\ r[k] = file[2 * k - 1]
                            /\ 2 * k - 1 \in 1 .. Len(file)
                            /\ file[2 * k - 1].piece = "entry" /\ file[2 * k - 1].seq = k
      BY <1>1, <1>2, <1>5, ReplayIs, ZenonT(30)
    <2> HIDE DEF r
    <2>3. entries' = r
      BY <1>1, Zenon DEF r
    <2> QED
      BY <2>1, <2>2, <2>3, Zenon
  <1> HIDE DEF n
  <1>7. n <= q
    BY <1>3, <1>4, <1>6
  <1>8. q <= n + 1
    <2> SUFFICES ASSUME q > n + 1 PROVE FALSE
      BY <1>3, <1>6
    <2>1. PICK k \in 1 .. q : 2 * k - 1 > 2 * n - 1 /\ k # n + 1
      <3>1. n + 2 \in 1 .. q /\ 2 * (n + 2) - 1 > 2 * n - 1 /\ n + 2 # n + 1
        BY <1>3, <1>6
      <3> QED
        BY <3>1, Zenon
    <2>2. /\ 2 * k - 1 \in 1 .. Len(file) /\ file[2 * k - 1].piece = "entry"
          /\ file[2 * k - 1].seq = k
      BY <1>6, Zenon
    <2> QED
      BY <2>1, <2>2, <1>4, Zenon
  <1>9. SubSeq(entries', 1, n) = entries
    <2>1. n \in 0 .. Len(entries') /\ \A k \in 1 .. n : k \in 1 .. q
      BY <1>3, <1>6, <1>7
    <2>2. PICK s : s = SubSeq(entries', 1, n)
      BY Zenon
    <2>3. IsSequence(s) /\ Len(s) = n /\ \A k \in 1 .. n : s[k] = entries'[k]
      <3>1. PICK t : t = entries'
        BY Zenon
      <3>2. IsSequence(t) /\ n \in 0 .. Len(t)
        BY <1>6, <2>1, <3>1, Zenon
      <3>3. /\ IsSequence(SubSeq(t, 1, n)) /\ Len(SubSeq(t, 1, n)) = n
            /\ \A k \in 1 .. n : SubSeq(t, 1, n)[k] = t[k]
        BY ONLY <3>2, Prefix
      <3> QED
        BY <2>2, <3>1, <3>3, Zenon
    <2>4. ASSUME NEW k \in 1 .. n PROVE s[k] = entries[k]
      <3>1. s[k] = entries'[k] /\ file[2 * k - 1] = entries[k]
        BY <1>4, <2>3, Zenon
      <3>2. entries'[k] = file[2 * k - 1]
        BY <1>6, <2>1, Zenon
      <3> QED
        BY <3>1, <3>2, Zenon
    <2>5. s = [k \in 1 .. n |-> s[k]] /\ entries = [k \in 1 .. n |-> entries[k]]
      <3>1. ASSUME NEW t, IsSequence(t), Len(t) = n PROVE t = [k \in 1 .. n |-> t[k]]
        BY <3>1 DEF IsSequence
      <3> QED
        BY <1>2, <2>3, <3>1, Zenon DEF n
    <2>6. [k \in 1 .. n |-> s[k]] = [k \in 1 .. n |-> entries[k]]
      BY <2>4, Zenon
    <2> QED
      BY <2>2, <2>5, <2>6, Zenon
  <1>10. q = n \/ q = n + 1
    BY <1>3, <1>6, <1>7, <1>8
  <1> QED
    BY <1>6, <1>9, <1>10, Zenon DEF n

\* No start that succeeds drops, reorders or invents an entry: it returns every entry an
\* Append had returned, and at most the one whose Append had not (OpenJournal).
THEOREM NothingIsSilentlyLost == JournalSpec => NoSilentLoss
  <1> DEFINE Opens == status = "down" /\ status' = "open"
             Kept == /\ SubSeq(entries', 1, Len(entries)) = entries
                     /\ Len(entries') \in {Len(entries), Len(entries) + 1}
  <1>1. JournalInv /\ [JournalNext]_journalVars => [Opens => Kept]_journalVars
    <2> SUFFICES ASSUME JournalInv, JournalNext, Opens PROVE Kept
      BY ZenonT(30)
    <2>1. OpenJournal
      BY DEF JournalNext, Refuse, StartWrite, WriteFails, SyncDone, SyncFails, Crash
    <2> QED
      BY <2>1, OpenKeeps, Zenon
  <1> QED
    BY <1>1, JournalStarts, JournalStep, PTL DEF JournalSpec, NoSilentLoss

=============================================================================
