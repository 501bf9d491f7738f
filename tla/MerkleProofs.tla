----------------------------- MODULE MerkleProofs -----------------------------
(***************************************************************************)
(* The Merkle trees of the light client (merkle.js, merkle/primitives.js): *)
(* the sparse tree over hashed keys, with its compressed proofs, the       *)
(* fixed-width tree of a block's rows and of the state sub-roots, and the  *)
(* leaves and keys they are made of.  A hash is a term: equal hashes are   *)
(* equal terms, and the prefixes 0x00, 0x01 and 0x02 keep leaves, nodes    *)
(* and the empty leaf apart.  A key is a sequence of Depth bits.           *)
(***************************************************************************)
EXTENDS Integers, Sequences, FiniteSets, SequencesExt

CONSTANTS Undefined,
          Depth,      \* SMT_DEPTH
          KeyOf(_)    \* smtKey: domain and fields -> the bits of their digest

ASSUME DepthAssumption == Depth \in Nat \ {0}

\* leafHash of the joined fields; joinFields is injective, a NUL byte throws.
LeafHash(fields) == <<"leaf", fields>>

NodeHash(left, right) == <<"node", left, right>>

\* EMPTY[h]: the root of an empty tree of height h.
Empty ==
    LET e[h \in 0..Depth] == IF h = 0 THEN <<"empty">> ELSE NodeHash(e[h - 1], e[h - 1])
    IN  e

\* balanceKey, escrowKey, stakeKey, contractStateKey: one domain tag each.
BalanceKey(chain, address) == KeyOf(<<"BAL", chain, address>>)
EscrowKey(chain, address) == KeyOf(<<"ESC", chain, address>>)
StakeKey(pubkey) == KeyOf(<<"STK", pubkey>>)
StakeTotalKey == KeyOf(<<"STK", "__total__">>)

\* amountLeaf, stakeMemberLeaf, stakeTotalLeaf and actionsLeaf.
AmountLeaf(amount) == LeafHash(<<"amount", amount>>)
StakeMemberLeaf(source, weight) == LeafHash(<<"STK", source, weight>>)
StakeTotalLeaf(total) == LeafHash(<<"STKTOTAL", total>>)
ActionsLeaf(row) == LeafHash(<<"A", row.index, row.tx, row.action>>)
LedgerLeaf(row) == LeafHash(<<"L", row.kind, row.index, row.address, row.amount>>)
ContractLeaf(row) == LeafHash(<<"C", row.table, row.index, row.value>>)

-----------------------------------------------------------------------------
\* smtNode: the node of height h over the entries S of a sparse tree, told apart
\* by the bit of their keys that is next.
Going(S, d, bit) == {k \in S : k[d] = bit}

SmtNodes(entries) ==
    LET node[h \in 0..Depth] ==
            IF h = 0
            THEN [S \in SUBSET DOMAIN entries |->
                     IF S = {} THEN Empty[0] ELSE entries[CHOOSE k \in S : TRUE]]
            ELSE [S \in SUBSET DOMAIN entries |->
                     IF S = {} THEN Empty[h]
                     ELSE NodeHash(node[h - 1][Going(S, Depth - h + 1, 0)],
                                   node[h - 1][Going(S, Depth - h + 1, 1)])]
    IN  node

SmtRoot(entries) == SmtNodes(entries)[Depth][DOMAIN entries]

\* compressSmtProof: siblings that are the empty tree of their height are left
\* out, and a bitmap says which.
CompressSmtProof(siblings) ==
    LET real(d) == siblings[d] # Empty[Depth - d]
        kept == SetToSortSeq({d \in 1..Depth : real(d)}, <)
    IN  [bitmap |-> [d \in 1..Depth |-> real(d)],
         siblings |-> [k \in 1..Len(kept) |-> siblings[kept[k]]]]

\* decompressSmtProof: Undefined where the code throws, on a surplus or a
\* missing sibling.
DecompressSmtProof(compressed) ==
    LET rank(d) == Cardinality({e \in 1..d : compressed.bitmap[e]})
    IN  IF rank(Depth) # Len(compressed.siblings) THEN Undefined
        ELSE [d \in 1..Depth |-> IF compressed.bitmap[d] THEN compressed.siblings[rank(d)]
                                                         ELSE Empty[Depth - d]]

\* SparseMerkleTree.prove: the siblings from the top down.
Prove(entries, key) ==
    LET nodes == SmtNodes(entries)
        beside(d) == {k \in DOMAIN entries : SubSeq(k, 1, d) = [SubSeq(key, 1, d) EXCEPT ![d] = 1 - @]}
    IN  [leaf |-> IF key \in DOMAIN entries THEN entries[key] ELSE Undefined,
         compressed |-> CompressSmtProof([d \in 1..Depth |-> nodes[Depth - d][beside(d)]])]

\* The root a path folds up to: bits and siblings from the leaf up.
Climb(leaf, bits, siblings, n) ==
    LET node[h \in 0..n] ==
            IF h = 0 THEN leaf
            ELSE IF bits[h] = 0 THEN NodeHash(node[h - 1], siblings[h])
                                ELSE NodeHash(siblings[h], node[h - 1])
    IN  node[n]

\* verifySmtProof: a missing value is the empty leaf.
VerifySmtProof(root, key, leaf, siblings) ==
    LET up(path) == [h \in 1..Depth |-> path[Depth - h + 1]]
    IN  root = Climb(IF leaf = Undefined THEN Empty[0] ELSE leaf, up(key), up(siblings), Depth)

VerifyCompressedSmtProof(root, key, leaf, compressed) ==
    LET siblings == DecompressSmtProof(compressed)
    IN  siblings # Undefined /\ VerifySmtProof(root, key, leaf, siblings)

-----------------------------------------------------------------------------
\* nextPow2, as an exponent.
Powers(n) == LET p[h \in 0..n] == IF h = 0 THEN 1 ELSE 2 * p[h - 1] IN p

Height(n) == CHOOSE h \in 0..n : Powers(n)[h] >= n /\ \A g \in 0..(h - 1) : Powers(n)[g] < n

\* The layers of fixedMerkleRoot, each numbered from 0: the leaves, padded with
\* the empty leaf, and the hashes of the pairs of the layer below.
FixedLayers(leaves) ==
    LET layer[h \in 0..Height(Len(leaves))] ==
            IF h = 0 THEN [i \in Nat |-> IF i < Len(leaves) THEN leaves[i + 1] ELSE Empty[0]]
            ELSE [i \in Nat |-> NodeHash(layer[h - 1][2 * i], layer[h - 1][2 * i + 1])]
    IN  layer

FixedMerkleRoot(leaves) ==
    IF leaves = <<>> THEN Empty[0] ELSE FixedLayers(leaves)[Height(Len(leaves))][0]

\* The index of a leaf and of the nodes above it: idx >>= 1.
Halved(index, n) == LET at[h \in 0..n] == IF h = 0 THEN index ELSE at[h - 1] \div 2 IN at

\* idx ^ 1.
Sibling(i) == IF i % 2 = 0 THEN i + 1 ELSE i - 1

\* fixedMerkleProof: the siblings from the leaf up; index counts from 0.
FixedMerkleProof(leaves, index) ==
    LET top == Height(Len(leaves))
    IN  [index |-> index,
         siblings |-> [h \in 1..top |-> FixedLayers(leaves)[h - 1][Sibling(Halved(index, top)[h - 1])]]]

\* verifyFixedMerkleProof: the length of the path is the caller's word.
VerifyFixedMerkleProof(root, leaf, proof) ==
    LET n == Len(proof.siblings)
        bits == [h \in 1..n |-> Halved(proof.index, n)[h - 1] % 2]
    IN  root = Climb(leaf, bits, proof.siblings, n)

\* STATE_SUBTREES, in their slots.
StateSubtrees == <<"balances", "stakes", "ownership", "tokens", "contract_state">>

SlotOf(name) == (CHOOSE i \in 1..5 : StateSubtrees[i] = name) - 1

StateLeaves(subRoots) ==
    [i \in 1..5 |-> IF StateSubtrees[i] \in DOMAIN subRoots THEN subRoots[StateSubtrees[i]]
                                                            ELSE Empty[Depth]]

StateRoot(subRoots) == FixedMerkleRoot(StateLeaves(subRoots))

\* blockMerkleLeaves: the ledger rows, the actions, then the contract rows.
BlockMerkleLeaves(rows) ==
    [k \in 1..Len(rows.ledger) |-> LedgerLeaf(rows.ledger[k])]
    \o [k \in 1..Len(rows.actions) |-> ActionsLeaf(rows.actions[k])]
    \o [k \in 1..Len(rows.contracts) |-> ContractLeaf(rows.contracts[k])]

-----------------------------------------------------------------------------
(* Every way to walk down from a term, for whoever wants to prove something *)
(* that is not so: hashes being free, no other siblings can verify.         *)

\* The number a sequence of bits spells, the first bit the highest.
Number(bits) ==
    LET n[k \in 0..Len(bits)] == IF k = 0 THEN 0 ELSE 2 * n[k - 1] + bits[k]
    IN  n[Len(bits)]

\* The term bits lead to, first bit at the top.
Walk(term, bits) ==
    LET t[k \in 0..Len(bits)] == IF k = 0 THEN term ELSE t[k - 1][2 + bits[k]]
    IN  t[Len(bits)]

CanWalk(term, bits) ==
    \A k \in 0..(Len(bits) - 1) : Walk(term, SubSeq(bits, 1, k))[1] = "node"

\* The siblings of that walk, from the top down.
WalkSiblings(term, bits) ==
    [k \in 1..Len(bits) |-> Walk(term, [SubSeq(bits, 1, k) EXCEPT ![k] = 1 - @])]

Bits(n) == [1..n -> {0, 1}]
=============================================================================
