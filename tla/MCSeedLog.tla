----------------------------- MODULE MCSeedLog -----------------------------
(* A small instance of SeedLog: two documents, one of them with two        *)
(* UPDATEs, and another client's document.                                 *)
EXTENDS MCNotaryServer, SeedLog

CONSTANTS u5, d3

SeedWorker1 == w1
DocIDs2 == <<Plain(d1), Plain(d2)>>
Updates2 == <<2>>
ClientRequests == Creates({Plain(d3)}) \cup SeedRequests

\* Ids are drawn in this order: no action tells one unused id from another, so
\* every behaviour is one of these with its ids renamed.
DrawnInOrder == \A k \in DOMAIN log : log[k].id = Plain(<<u1, u2, u3, u4, u5>>[k])
=============================================================================
