--------------------------- MODULE InclusionPage ---------------------------
(***************************************************************************)
(* The verification page (client/verify.js): a user loads a document, an   *)
(* event and an inclusion proof; the page hashes its way from the event to *)
(* the root, one level of the tree at a time.                              *)
(***************************************************************************)
EXTENDS MerkleProofs

CONSTANTS
    Documents,      \* what a user may want to verify: its SHA-256,
    Entries,        \* an event
    Proofs          \* and the list of hashes in a proof

\* What a page has without files, and an event that notarizes no document has
\* in place of a payload hash.
NoPayload == [payload |-> 0]

ASSUME EntriesHavePayloads == NoPayload \notin Documents
ASSUME ProofsAreSequences ==
    \A siblings \in Proofs : siblings \in Seq({siblings[j] : j \in DOMAIN siblings})

VARIABLES
    file,           \* the document, event and proof that are loaded
    shown,          \* "none" before, "climbing" during, and the page's verdict
    r, idx, n, pi   \* the loop's: the hash so far, its position, the number
                    \* of nodes of its level, and the siblings used

inclusionVars == <<file, shown, r, idx, n, pi>>

InclusionIdle == shown = "none"

InclusionInit ==
    /\ InclusionIdle
    /\ file = NoPayload
    /\ r = EmptyRoot
    /\ idx = 0 /\ n = 0 /\ pi = 0

\* The click. The proof's size and root are those of a checkpoint of the log;
\* an index past the tree and an event without a document are refused.
VerifyInclusion(doc, entry, p) ==
    /\ file' = [doc |-> doc, entry |-> entry, p |-> p]
    /\ shown' = IF entry.payload_hash = NoPayload \/ p.log_index >= p.tree_size
                THEN "error" ELSE "climbing"
    /\ r' = HashLeaf(entry)
    /\ idx' = p.log_index
    /\ n' = p.tree_size
    /\ pi' = 0

\* A slip: a node without a right sibling is paired all the same.
PairedAlways == n > 1

\* The hash has a sibling in its level.
HasSibling == idx % 2 = 1 \/ idx < n - 1

NodesLeft == pi < Len(file.p.proof)

UpOneLevel ==
    /\ idx' = idx \div 2
    /\ n' = (n + 1) \div 2

TakeSibling ==
    /\ shown = "climbing" /\ n > 1 /\ HasSibling
    /\ NodesLeft
    /\ r' = IF idx % 2 = 1 THEN HashNode(file.p.proof[pi + 1], r)
                           ELSE HashNode(r, file.p.proof[pi + 1])
    /\ pi' = pi + 1
    /\ UpOneLevel
    /\ UNCHANGED <<file, shown>>

ProofTooShort ==
    /\ shown = "climbing" /\ n > 1 /\ HasSibling
    /\ ~NodesLeft
    /\ shown' = "error"
    /\ UNCHANGED <<file, r, idx, n, pi>>

\* The last node of a level of odd size moves up as it is.
MoveUp ==
    /\ shown = "climbing" /\ n > 1 /\ ~HasSibling
    /\ UpOneLevel
    /\ UNCHANGED <<file, shown, r, pi>>

InclusionVerdict ==
    IF NodesLeft THEN "error"
    ELSE IF r # file.p.root_hash THEN "invalid"
    ELSE IF file.doc # file.entry.payload_hash THEN "other document"
    ELSE "valid"

Compare ==
    /\ shown = "climbing" /\ n <= 1
    /\ shown' = InclusionVerdict
    /\ UNCHANGED <<file, r, idx, n, pi>>

InclusionNext ==
    \/ /\ InclusionIdle
       /\ \E doc \in Documents, entry \in Entries, siblings \in Proofs,
             i \in 0 .. Len(Log), size \in 1 .. Len(Log) :
            VerifyInclusion(doc, entry,
                            [log_index |-> i, tree_size |-> size,
                             root_hash |-> TreeHash(Log, size), proof |-> siblings])
    \/ TakeSibling \/ ProofTooShort \/ MoveUp \/ Compare

InclusionSpec == InclusionInit /\ [][InclusionNext]_inclusionVars

-----------------------------------------------------------------------------
\* The verification page accepts a document, its event and a proof for the
\* log's tree exactly when the event notarizes the document and the proof is
\* the one the proof service gives for that entry: no honest proof is refused,
\* for trees of any shape, and none is accepted for another entry, another
\* index or with its nodes cut or moved (verify.js:28-68, 106-193).
InclusionIsExact ==
    shown \notin {"none", "climbing"} =>
        (shown = "valid" <=>
            /\ file.p = InclusionProof(file.p.tree_size, file.p.log_index)
            /\ file.entry = Log[file.p.log_index + 1]
            /\ file.doc = file.entry.payload_hash)

-----------------------------------------------------------------------------
(* Why: after k levels the hash is that of the subtree of height k around  *)
(* the leaf, if all that went into it was right.                           *)

ClimbedTo(k, i, size, siblings) ==
    LET a == idx * Pow2[k]
        s == SubtreeSize(k, a, size)
        path == Siblings(i, 0)[k][a][s]
    IN  /\ a <= i /\ i < a + Pow2[k]
        /\ (n - 1) * Pow2[k] < size /\ size <= n * Pow2[k]
        /\ pi = Len(path)
        /\ r = SubtreeHash(Log, k, a, s) <=>
             /\ file.entry = Log[i + 1]
             /\ \A j \in 1 .. pi : siblings[j] = path[j]

Climbed ==
    shown = "climbing" =>
        \E k \in 0 .. file.p.tree_size :
            ClimbedTo(k, file.p.log_index, file.p.tree_size, file.p.proof)

InclusionFile ==
    [doc : Documents, entry : Entries,
     p : [log_index : 0 .. Len(Log), tree_size : 1 .. Len(Log),
          root_hash : {TreeHash(Log, size) : size \in 1 .. Len(Log)}, proof : Proofs]]

InclusionTypeOK ==
    /\ shown \in {"none", "climbing", "error", "invalid", "other document", "valid"}
    /\ idx \in Nat /\ n \in Nat /\ pi \in Nat
    /\ shown # "none" =>
         /\ file \in InclusionFile
         /\ file.p.root_hash = TreeHash(Log, file.p.tree_size)
    /\ shown = "climbing" =>
         /\ file.entry.payload_hash # NoPayload
         /\ file.p.log_index < file.p.tree_size
         /\ pi <= Len(file.p.proof)

InclusionInv == InclusionTypeOK /\ Climbed /\ InclusionIsExact
=============================================================================
