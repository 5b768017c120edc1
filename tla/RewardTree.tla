----------------------------- MODULE RewardTree -----------------------------
(* The Merkle-sum tree of a reward epoch: how generate-reward-fixture.mjs builds
   it and its proofs, and the walk up the tree by which the distributor contract
   and the SDK check a proof.

   A hash is an injective encoding of its words behind a small digest, so that
   the order of two hashes says nothing about the order of what was hashed. *)
EXTENDS Integers, Sequences, SequencesExt, FiniteSets, TLC

CONSTANT MaxUint        \* UINT256_MAX

\* --------------------------------------------------------------- hashes ---

Word(n) == <<0, n>>
ZeroHash == <<0, 0>>

Digest(a, b, c, d) == (37 * a[2] + 101 * b[2] + 59 * c[2] + 23 * d[2] + 11) % 251

\* keccak256 over abi.encode of four words; leaves and parents share the form.
Keccak(a, b, c, d) == <<1, Digest(a, b, c, d)>> \o a \o b \o c \o d

\* compareHash: byte order.  No hash is a prefix of another.
HashBefore(a, b) ==
    \E k \in 1..Len(a) :
        /\ k <= Len(b) /\ a[k] < b[k]
        /\ \A j \in 1..(k - 1) : a[j] = b[j]

LeafHash(epochId, claim) ==
    Keccak(Word(epochId), Word(claim.index), Word(claim.account), Word(claim.amount))

Node(hash, sum) == [hash |-> hash, sum |-> sum]

CombineUnordered(first, second) ==
    Node(Keccak(first.hash, Word(first.sum), second.hash, Word(second.sum)),
         first.sum + second.sum)

\* hashNode, hashToriumRewardNode, combine: the pair in the order of its hashes.
Combine(first, second) ==
    LET swap == HashBefore(second.hash, first.hash)
        left == IF swap THEN second ELSE first
        right == IF swap THEN first ELSE second
    IN  Node(Keccak(left.hash, Word(left.sum), right.hash, Word(right.sum)),
             first.sum + second.sum)

\* ----------------------------------------------------------- the claims ---

ParseUint256(raw, positive) == raw \in (IF positive THEN 1 ELSE 0)..MaxUint

\* What normalizeClaims refuses: no claims, a field out of range, and two claims
\* with one index or with one account.
ClaimsValid(claims) ==
    /\ claims # <<>>
    /\ \A i \in 1..Len(claims) :
        /\ ParseUint256(claims[i].index, FALSE)
        /\ claims[i].account > 0
        /\ ParseUint256(claims[i].amount, TRUE)
    /\ \A i, j \in 1..Len(claims) : i # j =>
        /\ claims[i].index # claims[j].index
        /\ claims[i].account # claims[j].account

NormalizeClaims(claims) == SortSeq(claims, LAMBDA a, b : a.index < b.index)

LeafNode(epochId, claim) == Node(LeafHash(epochId, claim), claim.amount)

\* buildMerkleSumTree: leaves in hash order from the end of an array of 2n - 1
\* nodes, node i over nodes 2i + 1 and 2i + 2.
TreeSize(claims) == 2 * Len(claims) - 1

InHashOrder(epochId, claims) ==
    SortSeq(claims, LAMBDA a, b :
        HashBefore(LeafHash(epochId, a), LeafHash(epochId, b)))

Tree(epochId, claims) ==
    LET sorted == InHashOrder(epochId, claims)
        n == Len(sorted)
        node[i \in 0..(2 * n - 2)] ==
            IF i >= n - 1 THEN LeafNode(epochId, sorted[2 * n - 1 - i])
            ELSE Combine(node[2 * i + 1], node[2 * i + 2])
    IN  node

PositionOf(epochId, claims, claim) ==
    CHOOSE i \in (Len(claims) - 1)..(2 * Len(claims) - 2) :
        InHashOrder(epochId, claims)[2 * Len(claims) - 1 - i] = claim

Sibling(i) == IF i % 2 = 0 THEN i - 1 ELSE i + 1

ProofOf(epochId, claims, claim) ==
    LET tree == Tree(epochId, claims)
        path[i \in 0..(2 * Len(claims) - 2)] ==
            IF i = 0 THEN <<>>
            ELSE <<tree[Sibling(i)]>> \o path[(i - 1) \div 2]
    IN  path[PositionOf(epochId, claims, claim)]

\* buildFixture throws when a parent sum leaves uint256.
FixtureBuilt(claims) ==
    /\ ClaimsValid(claims)
    /\ \A i \in 0..(TreeSize(claims) - 1) : Tree(1, claims)[i].sum <= MaxUint

\* processProof and processToriumRewardProof.  A malformed sibling or a sum that
\* leaves uint256 stops the walk.
NoRoot == [hash |-> ZeroHash, sum |-> 0]
ProcessProof(epochId, claim, proof) ==
    LET node[i \in 0..Len(proof)] ==
            IF i = 0 THEN LeafNode(epochId, claim)
            ELSE IF \/ node[i - 1] = NoRoot
                    \/ proof[i].hash = ZeroHash \/ proof[i].sum = 0
                    \/ node[i - 1].sum + proof[i].sum > MaxUint
                 THEN NoRoot
                 ELSE Combine(node[i - 1], proof[i])
    IN  node[Len(proof)]
=============================================================================
