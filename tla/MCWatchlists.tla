---------------------------- MODULE MCWatchlists ----------------------------
(* Watchlists for TLC: what documents bring, and the items of a watchlist. *)
EXTENDS Watchlists
Document(evidence, added, material, event) ==
  [evidence |-> evidence, added |-> added, material |-> material, event |-> event]
Material == {Document("current", 1, TRUE, FALSE)}
TopicOnly == {{"topic"}}
CompanyOnly == {{"company"}}
OneToThree == 1..3
=============================================================================
