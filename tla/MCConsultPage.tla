--------------------------- MODULE MCConsultPage ---------------------------
(* A small instance of ConsultPage. *)
EXTENDS ConsultPage, TLC

CONSTANTS s1, s2

Asking == Permutations({s1, s2})

Event(doc, t) == [doc_id |-> doc, issuer |-> "i", recorded_at |-> t]

\* The last instant of day 1, the first of day 2.
OnTwoDays == {Event("d", 3), Event("e", 4)}

Between(from, to) == [Blank EXCEPT !.date_from = from, !.date_to = to]

BlankOrDays == {Blank, Between(1, 1), Between(2, 1)}
=============================================================================
