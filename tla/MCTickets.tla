------------------------------- MODULE MCTickets -------------------------------
(* The catalogue and the receipts on small instances; see the README for each run. *)
EXTENDS ReceiptBackfill, TLC

CONSTANTS m1, m2, t1, t2, k1, k2, g1

TwoRetailers == {m1, m2}
TwoTitles    == {t1, t2}
TwoKeys      == {k1, k2}
OneCategory  == {g1}
OnePrice     == {1}
OneAlias     == {{t2}}

\* One category, and the same one twice, under itself.
SomeProposals ==
  { <<[ref |-> -1, name |-> g1, parent |-> NoId]>>,
    <<[ref |-> -1, name |-> g1, parent |-> -2], [ref |-> -2, name |-> g1, parent |-> NoId]>> }

\* Two receipts, of one retailer, of two, or of one and of none; up to three lines; a product
\* with the title that is listed at a retailer or not, or two of them.
SomeHistories ==
  [ receipts : {<<m1, m1>>, <<m1, m2>>, <<m1, NoRetailer>>},
    lines    : UNION {[1..n -> [receipt : 1..2, title : {t1}, status : {"confirmed", "needs-review"}]] : n \in 1..3},
    products : {<<>>, <<[title |-> t1, retailer |-> NoRetailer]>>, <<[title |-> t1, retailer |-> m1]>>,
                <<[title |-> t1, retailer |-> m1], [title |-> t1, retailer |-> m1]>>,
                <<[title |-> t2, retailer |-> m1], [title |-> t1, retailer |-> NoRetailer]>>,
                <<[title |-> t1, retailer |-> NoRetailer], [title |-> t1, retailer |-> NoRetailer]>>} ]

TicketSymmetry == Permutations(TwoRetailers) \cup Permutations(TwoKeys)
================================================================================
