---------------------------- MODULE MCIngestion ----------------------------
(* Ingestion for TLC: one or two companies and sources, the shape of the   *)
(* filings and the cadences fixed per configuration.                       *)
EXTENDS Ingestion

\* sec has two filings, ir one; unreg is configured but not registered.
TwoOne == [p \in Known \X Companies |-> IF p[1] = "sec" THEN 2 ELSE 1]
Two == [p \in Known \X Companies |-> 2]
\* Two filings of one company, one of the other.
AppleTwice == [p \in Known \X Companies |-> IF p[2] = "apple" THEN 2 ELSE 1]
Weekly == [s \in Known |-> IF s = "sec" THEN 2 ELSE 1]
Daily == [s \in Known |-> 1]
=============================================================================
