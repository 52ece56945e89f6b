--------------------------- MODULE TransparencyLog ---------------------------
(***************************************************************************)
(* What the notary promises its clients, without workers, index or         *)
(* restarts: a ledger of events that only grows, of which a published      *)
(* prefix only grows; an event enters it as the first version of a         *)
(* document or as the next version of an event already published; a        *)
(* receipt, once given, names an index and the event at that index.        *)
(***************************************************************************)
EXTENDS Integers, Sequences

CONSTANT OpeningTypes   \* the event types that open a document's history

VARIABLES
    ledger,         \* the sequence of notarized events
    published,      \* size of the tree the public checkpoint commits to
    receipts        \* the answers given: sets of [index, event]

vars == <<ledger, published, receipts>>

EventAt(i) == ledger[i + 1]

\* ev is the next version of the published event at index i.
Follows(ev, i) ==
    /\ EventAt(i).doc = ev.doc
    /\ EventAt(i).id = ev.prev
    /\ ev.ver = EventAt(i).ver + 1

Init ==
    /\ ledger = << >>
    /\ published = 0
    /\ receipts = {}

\* The one event a step adds at the end of the ledger.
Added == ledger'[Len(ledger')]

Notarize ==
    /\ Len(ledger') = Len(ledger) + 1
    /\ ledger' = Append(ledger, Added)
    /\ IF Added.type \in OpeningTypes
       THEN Added.ver = 1
       ELSE \E i \in 0 .. published - 1 : Follows(Added, i)
    /\ UNCHANGED <<published, receipts>>

Publish ==
    /\ published' \in published + 1 .. Len(ledger)
    /\ UNCHANGED <<ledger, receipts>>

GiveReceipt(i) ==
    /\ i \in 0 .. Len(ledger) - 1
    /\ receipts' = receipts \cup {[index |-> i, event |-> EventAt(i)]}
    /\ UNCHANGED <<ledger, published>>

Next ==
    \/ Notarize
    \/ Publish
    \/ \E i \in 0 .. Len(ledger) - 1 : GiveReceipt(i)

Spec == Init /\ [][Next]_vars
=============================================================================
