---------------------------- MODULE MerkleProofs ----------------------------
(***************************************************************************)
(* Merkle trees and proofs: the tree hash and the proofs of RFC 6962 that  *)
(* Tessera's proof builder computes (external) and the guards of the proof *)
(* service in front of it (server/internal/proofsvc).                      *)
(*                                                                         *)
(* A log is the sequence of its entries; a tree of size n covers its first *)
(* n entries. SHA-256 is a free constructor.                               *)
(***************************************************************************)
EXTENDS Integers, Sequences

CONSTANT Log            \* the entries of the log

ASSUME LogIsASequence == Log \in Seq({Log[j] : j \in DOMAIN Log})

HashLeaf(entry) == [leaf |-> entry]
HashNode(left, right) == [left |-> left, right |-> right]
EmptyRoot == [leaves |-> 0]

-----------------------------------------------------------------------------
(* A subtree of height h holds the s <= Pow2[h] leaves after the first a.  *)
(* With more than Pow2[h - 1] leaves it divides after that many, which is  *)
(* the largest power of two below s; otherwise it is one of height h - 1.  *)

Pow2[k \in Nat] == IF k = 0 THEN 1 ELSE 2 * Pow2[k - 1]

Hashes(log) ==
    LET hash[h \in Nat] ==
          [a \in Nat |-> [s \in Nat |->
             IF h = 0 THEN IF s = 0 THEN EmptyRoot ELSE HashLeaf(log[a + 1])
             ELSE IF s <= Pow2[h - 1] THEN hash[h - 1][a][s]
             ELSE HashNode(hash[h - 1][a][Pow2[h - 1]],
                           hash[h - 1][a + Pow2[h - 1]][s - Pow2[h - 1]])]]
    IN  hash

SubtreeHash(log, h, a, s) == Hashes(log)[h][a][s]

\* How many leaves a subtree of height h has after the first a of a tree.
SubtreeSize(h, a, size) == IF size - a <= Pow2[h] THEN size - a ELSE Pow2[h]

\* A height of n is enough for n leaves.
TreeHash(log, size) == SubtreeHash(log, size, 0, size)

\* The siblings on the way from leaf i up to the top of a subtree. The way
\* starts at the subtree that ends with the first m leaves, if it meets one:
\* then that one's hash comes first, unless it is the whole tree of them.
Siblings(i, m) ==
    LET nodes[h \in Nat] ==
          [a \in Nat |-> [s \in Nat |->
             IF a + s = m THEN IF a = 0 THEN << >> ELSE <<SubtreeHash(Log, h, a, s)>>
             ELSE IF h = 0 THEN << >>
             ELSE IF s <= Pow2[h - 1] THEN nodes[h - 1][a][s]
             ELSE IF i < a + Pow2[h - 1]
             THEN Append(nodes[h - 1][a][Pow2[h - 1]],
                         SubtreeHash(Log, h - 1, a + Pow2[h - 1], s - Pow2[h - 1]))
             ELSE Append(nodes[h - 1][a + Pow2[h - 1]][s - Pow2[h - 1]],
                         SubtreeHash(Log, h - 1, a, Pow2[h - 1]))]]
    IN  nodes

\* The audit path of leaf i, and the proof that the first m leaves are a prefix.
Path(i, size) == Siblings(i, 0)[size][0][size]
Consistency(m, size) ==
    IF m = 0 THEN << >> ELSE Siblings(m - 1, m)[size][0][size]

-----------------------------------------------------------------------------
(* The proof service, for a published tree of the given size. *)

IndexOutOfRange == [err |-> "index out of range"]
SizeOutOfRange == [err |-> "requested size is beyond published checkpoint"]
InvalidRange == [err |-> "from must be <= to"]

InclusionProof(published, idx) ==
    IF idx >= published THEN IndexOutOfRange
    ELSE [log_index |-> idx, tree_size |-> published,
          root_hash |-> TreeHash(Log, published),
          proof     |-> Path(idx, published)]

ConsistencyProof(published, from, to) ==
    IF from > to THEN InvalidRange
    ELSE IF to > published THEN SizeOutOfRange
    ELSE [from_tree_size |-> from, to_tree_size |-> to,
          proof |-> Consistency(from, to)]
=============================================================================
