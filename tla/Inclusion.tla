------------------------------- MODULE Inclusion -------------------------------
(***************************************************************************)
(* That a transaction was mined: the SDK builds a Merkle proof from the    *)
(* block (merkle.ts, over the functions of bcrypto), and release()         *)
(* recomputes the root (MerkleProof.sol) and weighs the header             *)
(* (Difficulty.sol).  A txid is <<t>>, the parent of two nodes is the pair *)
(* of them: no two nodes have one hash, and no transaction has the hash of *)
(* a parent, since one with two inputs is longer than 64 bytes.            *)
(***************************************************************************)
EXTENDS Integers, Sequences, Functions

CONSTANTS
    ByteSize,             \* 256
    HashBytes,            \* 32
    MinDifficultyTarget,  \* minDifficultyTarget
    MaxTxs,               \* bound: the transactions of a block
    Headers,              \* the headers that are tried: [exponent, mantissa, hash]
    PlainHeader           \* bound: the header with which forged proofs are tried

ASSUME InclusionAssumption ==
    /\ ByteSize \in Nat \ {0, 1} /\ HashBytes \in Nat
    /\ MinDifficultyTarget \in Nat /\ MaxTxs \in Nat
    /\ Headers \subseteq [exponent : Nat, mantissa : Nat, hash : Nat]

VARIABLES
    txs,        \* the block: its txids, in order
    header,     \* its header, bits and hash; the Merkle root is the root of txs
    proof,      \* the proof that is presented, << >> before
    accepted    \* release() takes it

inclusionVars == <<txs, header, proof, accepted>>

-----------------------------------------------------------------------------
(* bcrypto; the last node of a level of odd length is its own sibling *)

Hash(left, right) == <<left, right>>
ZERO == << >>

Parents(nodes) ==
    [i \in 1..((Len(nodes) + 1) \div 2) |->
        Hash(nodes[2 * i - 1], nodes[IF 2 * i <= Len(nodes) THEN 2 * i ELSE 2 * i - 1])]

\* The levels of the tree, the leaves first; those above the root mean nothing.
Levels(leaves) ==
    LET level[k \in 0..Len(leaves)] == IF k = 0 THEN leaves ELSE Parents(level[k - 1])
    IN  level

Depth(leaves) ==
    CHOOSE k \in 0..Len(leaves) : /\ Len(Levels(leaves)[k]) <= 1
                                  /\ \A j \in 0..(k - 1) : Len(Levels(leaves)[j]) > 1

Root(leaves) == Levels(leaves)[Depth(leaves)][1]

\* Where the ancestors of a leaf are, level by level.
Positions(index, depth) ==
    LET at[k \in 0..depth] == IF k = 0 THEN index ELSE at[k - 1] \div 2
    IN  at

createBranch(index, leaves) ==
    LET at == Positions(index, Depth(leaves))
    IN  [k \in 1..Depth(leaves) |->
            LET nodes == Levels(leaves)[k - 1]
                twin  == IF at[k - 1] % 2 = 1 THEN at[k - 1] - 1 ELSE at[k - 1] + 1
            IN  nodes[1 + IF twin < Len(nodes) THEN twin ELSE Len(nodes) - 1]]

-----------------------------------------------------------------------------
(* The SDK and the contract *)

buildMerkleProof(leaves, txid) ==
    LET index == (CHOOSE i \in DOMAIN leaves : leaves[i] = txid) - 1
    IN  [txid |-> txid, index |-> index, branch |-> createBranch(index, leaves)]

\* Faulty: a node may be its own sibling on either side.
ClimbToTwins(root, sibling, odd) == IF odd THEN Hash(sibling, root) ELSE Hash(root, sibling)

\* Faulty: a node may not be its own sibling on any side.
ClimbWithoutTwins(root, sibling, odd) ==
    IF root = ZERO \/ sibling = root THEN ZERO
    ELSE IF odd THEN Hash(sibling, root) ELSE Hash(root, sibling)

\* On the right, a node that is its own sibling is the twin of a node that is not there.
Climb(root, sibling, odd) ==
    IF root = ZERO \/ (odd /\ sibling = root) THEN ZERO
    ELSE IF odd THEN Hash(sibling, root) ELSE Hash(root, sibling)

deriveRoot(leaf, branch, index) ==
    LET at == Positions(index, Len(branch))
        root[i \in 0..Len(branch)] ==
            IF i = 0 THEN leaf ELSE Climb(root[i - 1], branch[i], at[i - 1] % 2 = 1)
    IN  root[Len(branch)]

verify(p, root) == deriveRoot(p.txid, p.branch, p.index) = root

\* The compact form: a mantissa of three bytes, the highest bit a sign, and how many
\* bytes the target has.  So many bytes are a shift of so much.
Shift(n) ==
    LET power[k \in 0..n] == IF k = 0 THEN 1 ELSE ByteSize * power[k - 1]
    IN  power[n]

SignBit   == Shift(3) \div 2
TargetMax == Shift(HashBytes)

bitsToTarget(h) ==
    LET mantissa == h.mantissa % SignBit
    IN  IF h.exponent <= 3 THEN mantissa \div Shift(3 - h.exponent)
        ELSE (mantissa * Shift(h.exponent - 3)) % TargetMax

meetsFloor(h) ==
    LET target == bitsToTarget(h)
    IN  target <= MinDifficultyTarget /\ h.hash <= target

-----------------------------------------------------------------------------

InclusionInit == txs = << >> /\ header = << >> /\ proof = << >> /\ accepted = FALSE

\* A block, or a header of whoever did that work, over some transactions.
MakeBlock(n, h) ==
    /\ txs = << >>
    /\ txs' = [i \in 1..n |-> <<i>>]
    /\ header' = h
    /\ UNCHANGED <<proof, accepted>>

\* release() with proof p.
Present(p) ==
    /\ proof' = p
    /\ accepted' = (meetsFloor(header) /\ verify(p, Root(txs)))
    /\ UNCHANGED <<txs, header>>

PresentBuilt ==
    /\ proof = << >>
    /\ \E i \in DOMAIN txs : Present(buildMerkleProof(txs, txs[i]))

\* A branch of the block cut at an end, or longer, or with one node exchanged, for any
\* transaction and with an index, which may not be in the block.
Nodes == UNION {Range(Levels(txs)[k]) : k \in 0..Depth(txs)}
Branches ==
    LET built == {createBranch(i, txs) : i \in 0..(Len(txs) - 1)}
    IN  UNION {{b} \cup {Append(b, x) : x \in Nodes}
                   \cup (IF b = << >> THEN {} ELSE {Tail(b), SubSeq(b, 1, Len(b) - 1)})
                   \cup {[b EXCEPT ![k] = x] : k \in DOMAIN b, x \in Nodes} : b \in built}
PresentForged ==
    /\ txs # << >> /\ header = PlainHeader /\ proof = << >>
    /\ \E t \in 1..(MaxTxs + 1), b \in Branches, index \in 0..(4 * Len(txs)) :
          Present([txid |-> <<t>>, index |-> index, branch |-> b])

InclusionNext ==
    \/ \E n \in 1..MaxTxs, h \in Headers : MakeBlock(n, h)
    \/ PresentBuilt
    \/ PresentForged

InclusionSpec == InclusionInit /\ [][InclusionNext]_inclusionVars

-----------------------------------------------------------------------------
(* Correctness *)

\* What eCash asks of a header: a target that is positive and fits, and the work for it.
MeetsConsensus(h) ==
    /\ h.mantissa < SignBit
    /\ LET target == h.mantissa * Shift(h.exponent)
       IN  /\ target >= Shift(3) /\ target < TargetMax * Shift(3)
           /\ h.hash * Shift(3) <= target
Hard(h) == h.mantissa * Shift(h.exponent) < (MinDifficultyTarget + 1) * Shift(3)

\* merkle.ts and MerkleProof.sol, "must stay in sync": the proof that the SDK builds for
\* a transaction of a mined block is accepted, if the block is as hard as the floor,
\* whatever its size.
BuiltIsAccepted ==
    /\ txs # << >> /\ proof # << >> /\ MeetsConsensus(header) /\ Hard(header)
    /\ \E i \in DOMAIN txs : proof = buildMerkleProof(txs, txs[i])
    => accepted

SameUpTo(depth, i, j) ==
    \A k \in 0..(depth - 1) : Positions(i, depth)[k] % 2 = Positions(j, depth)[k] % 2

\* MerkleProof.sol: what is accepted is at its index in the block, up to bits of the
\* index that no branch reaches, and was worth as much work as the floor; also where a
\* level ends in a node that is its own sibling.
AcceptedIsIncluded ==
    accepted =>
        LET depth == Depth(txs)
        IN  /\ Len(proof.branch) = depth
            /\ \E i \in DOMAIN txs : txs[i] = proof.txid /\ SameUpTo(depth, i - 1, proof.index)
            /\ header.hash <= MinDifficultyTarget

-----------------------------------------------------------------------------
(* The strengthening that every step preserves. *)

InclusionInv ==
    /\ txs = << >> => proof = << >> /\ ~accepted
    /\ txs # << >> => /\ Len(txs) \in Nat \ {0} /\ txs = [i \in 1..Len(txs) |-> <<i>>]
                      /\ header \in Headers
    /\ accepted => /\ txs # << >> /\ meetsFloor(header) /\ verify(proof, Root(txs))
                   /\ proof.txid = <<proof.txid[1]>>
                   /\ proof.index \in Nat /\ Len(proof.branch) \in Nat
    /\ proof # << >> /\ meetsFloor(header) /\ verify(proof, Root(txs)) => accepted
=============================================================================
