-------------------------- MODULE FaucetRateLimiter --------------------------
(***************************************************************************)
(* The rate limiter in front of the public faucet's fund handler           *)
(* (publicfaucet/ratelimit.go): a token bucket for every source address    *)
(* and one for every source network, filled lazily by the time since the   *)
(* bucket was last filled, and the deny and allow lists.  A token is       *)
(* counted in the seconds it takes to earn it, so that the code's          *)
(* fractional tokens are whole numbers here.  Go's time.Now is monotonic,  *)
(* so the clock only advances.                                             *)
(***************************************************************************)
EXTENDS Naturals, Sequences, FiniteSets

CONSTANTS
    Clients,                        \* source addresses
    Subnets, SubnetOf,              \* subnetFor
    Denylist, Allowlist,            \* clients the two lists contain
    PerIPBurst, PerIPRefillSeconds,
    SubnetBurst, SubnetRefillSeconds,
    MaxTime,                        \* bound on the clock
    MaxStep                         \* bound on one advance of the clock

\* What Profile.Validate demands of the token bucket parameters.
ASSUME LimiterAssumption ==
    /\ SubnetOf \in [Clients -> Subnets]
    /\ PerIPBurst \in Nat \ {0} /\ PerIPRefillSeconds \in Nat \ {0}
    /\ SubnetBurst \in Nat \ {0} /\ SubnetRefillSeconds \in Nat \ {0}
    /\ MaxTime \in Nat /\ MaxStep \in Nat

VARIABLES
    now,
    ips, subnets,   \* the buckets; <<>> is one that does not exist yet
    admitted,       \* history: when each client was let through the buckets
    answer          \* what Admit returned at this instant, and to whom

limiterVars == <<now, ips, subnets, admitted, answer>>

IPCapacity == PerIPBurst * PerIPRefillSeconds

SubnetCapacity == SubnetBurst * SubnetRefillSeconds

LimiterInit ==
    /\ now = 0
    /\ ips = [c \in Clients |-> <<>>]
    /\ subnets = [s \in Subnets |-> <<>>]
    /\ admitted = <<>>
    /\ answer = <<>>

-----------------------------------------------------------------------------

AtMost(a, b) == IF a <= b THEN a ELSE b

\* Mutant: the fill time is not advanced.
RefilledAgain(bucket, capacity) ==
    [bucket EXCEPT !.tokens = AtMost(@ + (now - bucket.lastFill), capacity)]

\* refill.
Refilled(bucket, capacity) ==
    [tokens |-> AtMost(bucket.tokens + (now - bucket.lastFill), capacity),
     lastFill |-> now]

\* The bucket of a source, made full when it is first seen, after its refill.
Fill(slot, capacity) ==
    IF slot = <<>> THEN [tokens |-> capacity, lastFill |-> now]
    ELSE Refilled(slot[1], capacity)

Take(bucket, token) == [bucket EXCEPT !.tokens = @ - token]

\* Admit for a client on one of the lists: the buckets are not touched.
AdmitListed(c) ==
    /\ c \in Denylist \cup Allowlist
    /\ answer' = <<c, IF c \in Denylist THEN "denylisted" ELSE "">>
    /\ UNCHANGED <<now, ips, subnets, admitted>>

\* Admit for any other client, under the limiter's lock: both buckets are
\* refilled, and both are charged or neither.
AdmitMetered(c) ==
    LET ip == Fill(ips[c], IPCapacity)
        net == Fill(subnets[SubnetOf[c]], SubnetCapacity)
        pays == ip.tokens >= PerIPRefillSeconds
        ok == pays /\ net.tokens >= SubnetRefillSeconds
    IN  /\ c \notin Denylist \cup Allowlist
        /\ ips' = [ips EXCEPT ![c] =
                     <<IF ok THEN Take(ip, PerIPRefillSeconds) ELSE ip>>]
        /\ subnets' = [subnets EXCEPT ![SubnetOf[c]] =
                     <<IF ok THEN Take(net, SubnetRefillSeconds) ELSE net>>]
        /\ admitted' = IF ok THEN Append(admitted, [client |-> c, at |-> now])
                       ELSE admitted
        /\ answer' = <<c, IF ok THEN "" ELSE IF pays THEN "network" ELSE "address">>
        /\ UNCHANGED now

Tick ==
    \E d \in 1 .. MaxStep :
        /\ now + d <= MaxTime
        /\ now' = now + d
        /\ answer' = <<>>
        /\ UNCHANGED <<ips, subnets, admitted>>

LimiterNext == Tick \/ \E c \in Clients : AdmitListed(c) \/ AdmitMetered(c)

LimiterSpec == LimiterInit /\ [][LimiterNext]_limiterVars

-----------------------------------------------------------------------------
\* Properties.

\* The admissions numbered i to j of the clients in C.
Between(i, j, C) ==
    Cardinality({k \in i .. j : admitted[k].client \in C})

\* Over every stretch of time, a set of clients that shares a bucket is let
\* through at most as often as a full bucket and the tokens earned in that time
\* allow.
Metered(C, capacity, token) ==
    \A i, j \in DOMAIN admitted :
        i <= j => Between(i, j, C) * token
                    <= capacity + (admitted[j].at - admitted[i].at)

\* No source address exceeds its burst and its rate over any stretch of time
\* (Admit, perIpBurst and perIpRefillSeconds).
AddressRate ==
    \A c \in Clients : Metered({c}, IPCapacity, PerIPRefillSeconds)

\* No source network does, whichever of its addresses ask (Admit, subnetBurst
\* and subnetRefillSeconds).
NetworkRate ==
    \A s \in Subnets :
        Metered({c \in Clients : SubnetOf[c] = s}, SubnetCapacity, SubnetRefillSeconds)

\* An address is told that it exceeded its own rate only when it did: admissions
\* its network was refused do not count against it (Admit charges both buckets
\* or neither).
AddressRefusalIsEarned ==
    answer # <<>> /\ answer[2] = "address" =>
        \E i \in DOMAIN admitted :
            (Between(i, Len(admitted), {answer[1]}) + 1) * PerIPRefillSeconds
                > IPCapacity + (now - admitted[i].at)

\* Admit lets neither an address nor its network exceed its rate, and refuses an
\* address only for what that address did.
RatesHold == AddressRate /\ NetworkRate /\ AddressRefusalIsEarned
=============================================================================
