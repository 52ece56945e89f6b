-------------------------- MODULE ConsistencyPage --------------------------
(***************************************************************************)
(* The consistency page (client/verify_consistency.html) in checkpoint     *)
(* mode: a user loads an old and a new checkpoint and the proof between    *)
(* them; the page rebuilds both roots from the proof, one node at a time.  *)
(***************************************************************************)
EXTENDS MerkleProofs

CONSTANTS
    OldLogs,        \* the logs an old checkpoint may be of: also rewritten ones
    Nodes           \* the lists of hashes in a proof

ASSUME OldLogsAreSequences ==
    \A oldLog \in OldLogs : oldLog \in Seq({oldLog[j] : j \in DOMAIN oldLog})
ASSUME NodesAreSequences ==
    \A nodes \in Nodes : nodes \in Seq({nodes[j] : j \in DOMAIN nodes})

VARIABLES
    given,          \* two checkpoints, the log of the old one, and the proof
    outcome,        \* "none" before, then where verifyConsistency is: "start",
                    \* "nodes" or "shift", and the page's verdict
    fn, sn,         \* positions in one level of the old and of the new tree
    fr, sr,         \* the old and the new root so far
    used            \* the nodes used

consistencyVars == <<given, outcome, fn, sn, fr, sr, used>>

ConsistencyIdle == outcome = "none"

ConsistencyInit ==
    /\ ConsistencyIdle
    /\ given = InvalidRange
    /\ fn = 0 /\ sn = 0 /\ used = 0
    /\ fr = EmptyRoot /\ sr = EmptyRoot

Checkpoint(log, size) == [size |-> size, root |-> TreeHash(log, size)]

\* What needs no hash: sizes that are not the proof's or in the wrong order,
\* equal and empty trees, no nodes.
FirstOutcome(old, new, p) ==
    IF old.size # p.from_tree_size \/ new.size # p.to_tree_size \/ old.size > new.size
    THEN "error"
    ELSE IF old.size = new.size
    THEN IF p.proof = << >> /\ old.root = new.root THEN "valid" ELSE "invalid"
    ELSE IF old.size = 0 THEN "valid"
    ELSE IF p.proof = << >> THEN "invalid" ELSE "start"

\* The click.
VerifyConsistency(oldLog, old, new, p) ==
    /\ given' = [log |-> oldLog, old |-> old, new |-> new, p |-> p]
    /\ outcome' = FirstOutcome(old, new, p)
    /\ fn' = old.size - 1
    /\ sn' = new.size - 1
    /\ UNCHANGED <<fr, sr, used>>

NextLevel ==
    /\ fn' = fn \div 2
    /\ sn' = sn \div 2

StartHigher ==
    /\ outcome = "start" /\ fn % 2 = 1
    /\ NextLevel
    /\ UNCHANGED <<given, outcome, fr, sr, used>>

IsPowerOfTwo(size) == \E k \in 0 .. size : size = Pow2[k]

\* The first node stands for the last full subtree of the old tree, or that
\* is the old tree itself.
Begin ==
    /\ outcome = "start" /\ fn % 2 = 0
    /\ outcome' = "nodes"
    /\ IF IsPowerOfTwo(given.old.size)
       THEN used' = 0 /\ fr' = given.old.root
       ELSE used' = 1 /\ fr' = given.p.proof[1]
    /\ sr' = fr'
    /\ UNCHANGED <<given, fn, sn>>

MoreNodes == outcome = "nodes" /\ used < Len(given.p.proof)
Node == given.p.proof[used + 1]

NoLevelLeft ==
    /\ MoreNodes /\ sn = 0
    /\ outcome' = "invalid"
    /\ UNCHANGED <<given, fn, sn, fr, sr, used>>

\* A slip: the last node of the larger tree is not seen as shared.
OnOldBorderIfOdd == fn % 2 = 1

\* The subtree is a right child, or the last of both trees: its sibling is on
\* the left, now or further up, and belongs to the old tree too.
OnOldBorder == fn % 2 = 1 \/ fn = sn

TakeShared ==
    /\ MoreNodes /\ sn # 0 /\ OnOldBorder
    /\ fr' = HashNode(Node, fr)
    /\ sr' = HashNode(Node, sr)
    /\ used' = used + 1
    /\ outcome' = "shift"
    /\ UNCHANGED <<given, fn, sn>>

\* On to the level where the subtree is a right child.
ShiftEven ==
    /\ outcome = "shift" /\ fn # 0 /\ fn % 2 = 0
    /\ NextLevel
    /\ UNCHANGED <<given, outcome, fr, sr, used>>

EndShift ==
    /\ outcome = "shift" /\ ~(fn # 0 /\ fn % 2 = 0)
    /\ NextLevel
    /\ outcome' = "nodes"
    /\ UNCHANGED <<given, fr, sr, used>>

TakeNew ==
    /\ MoreNodes /\ sn # 0 /\ ~OnOldBorder
    /\ sr' = HashNode(sr, Node)
    /\ used' = used + 1
    /\ NextLevel
    /\ UNCHANGED <<given, outcome, fr>>

CompareRoots ==
    /\ outcome = "nodes" /\ ~MoreNodes
    /\ outcome' = IF sn = 0 /\ fr = given.old.root /\ sr = given.new.root
                  THEN "valid" ELSE "invalid"
    /\ UNCHANGED <<given, fn, sn, fr, sr, used>>

ConsistencyNext ==
    \/ /\ ConsistencyIdle
       /\ \E oldLog \in OldLogs : \E m \in 0 .. Len(oldLog), size \in 0 .. Len(Log) :
         \E from \in {m, 0}, to \in {size, 0}, nodes \in Nodes :
            VerifyConsistency(oldLog, Checkpoint(oldLog, m), Checkpoint(Log, size),
                              [from_tree_size |-> from, to_tree_size |-> to,
                               proof |-> nodes])
    \/ StartHigher \/ Begin \/ NoLevelLeft \/ TakeShared \/ ShiftEven \/ EndShift
    \/ TakeNew \/ CompareRoots

ConsistencySpec == ConsistencyInit /\ [][ConsistencyNext]_consistencyVars

-----------------------------------------------------------------------------
SameUpTo(log1, log2, m) == \A j \in 1 .. m : log1[j] = log2[j]

\* The consistency page accepts two checkpoints exactly when the log of the
\* old one is a prefix of the log of the new one and the proof is the one the
\* service gives; an empty old log it accepts with any proof
\* (verify_consistency.html:121-169).
ConsistencyIsExact ==
    outcome \in {"error", "invalid", "valid"} /\ given.old.size > 0 =>
        (outcome = "valid" <=>
            /\ given.p = ConsistencyProof(Len(Log), given.old.size, given.new.size)
            /\ SameUpTo(given.log, Log, given.old.size))

-----------------------------------------------------------------------------
(* Why: at height k, the proof so far is that of the subtree around the    *)
(* last leaf of the old tree, and the two hashes are the subtree's in the  *)
(* old and in the new tree, if the logs agree there.                       *)

\* The subtree around the last leaf of the old tree, and the new tree's last.
AtHeight(k, m, size) ==
    /\ fn * Pow2[k] < m /\ m <= fn * Pow2[k] + Pow2[k]
    /\ sn * Pow2[k] < size /\ size <= sn * Pow2[k] + Pow2[k]

\* No subtree further up ends where the old tree does.
Indivisible(k, m) == \A q \in 1 .. m : m # q * Pow2[k + 1]

RootsRight(k, m, size, oldLog, nodes, count, first, second) ==
    LET a == fn * Pow2[k]
        s == SubtreeSize(k, a, size)
        proof == Siblings(m - 1, m)[k][a][s]
    IN  /\ count = Len(proof)
        /\ (first = SubtreeHash(oldLog, k, a, m - a) /\ second = SubtreeHash(Log, k, a, s))
             <=> /\ \A j \in 1 .. count : nodes[j] = proof[j]
                 /\ \A j \in a + 1 .. m : oldLog[j] = Log[j]

RebuiltTo(k, m, size, oldLog, nodes) ==
    /\ AtHeight(k, m, size)
    /\ outcome = "start" =>
         /\ m = fn * Pow2[k] + Pow2[k]
         /\ IsPowerOfTwo(m) <=> IsPowerOfTwo(fn + 1)
    /\ outcome = "nodes" =>
         /\ Indivisible(k, m)
         /\ RootsRight(k, m, size, oldLog, nodes, used, fr, sr)
    /\ outcome = "shift" =>
         /\ Indivisible(k, m)
         /\ fn # 0 /\ OnOldBorder
         /\ used > 0
         /\ fr = HashNode(nodes[used], fr.right)
         /\ sr = HashNode(nodes[used], sr.right)
         /\ RootsRight(k, m, size, oldLog, nodes, used - 1, fr.right, sr.right)

Running == outcome \in {"start", "nodes", "shift"}

Rebuilt ==
    Running =>
        \E k \in 0 .. given.new.size :
            RebuiltTo(k, given.old.size, given.new.size, given.log, given.p.proof)

ConsistencyTypeOK ==
    /\ outcome \in {"none", "start", "nodes", "shift", "error", "invalid", "valid"}
    /\ ConsistencyIdle => used = 0
    /\ ~ConsistencyIdle =>
         /\ given.log \in OldLogs
         /\ given.p \in [from_tree_size : Nat, to_tree_size : Nat, proof : Nodes]
         /\ given.old.size \in 0 .. Len(given.log) /\ given.new.size \in 0 .. Len(Log)
         /\ given.old.root = TreeHash(given.log, given.old.size)
         /\ given.new.root = TreeHash(Log, given.new.size)
    /\ Running =>
         /\ fn \in Nat /\ sn \in Nat /\ used \in 0 .. Len(given.p.proof)
         /\ given.p.from_tree_size = given.old.size
         /\ given.p.to_tree_size = given.new.size
         /\ 0 < given.old.size /\ given.old.size < given.new.size
         /\ given.p.proof # << >>

ConsistencyInv == ConsistencyTypeOK /\ Rebuilt /\ ConsistencyIsExact
=============================================================================
