------------------------- MODULE MCRegistryCatalog -------------------------
(***************************************************************************)
(* Instances of RegistryCatalog: two declarations compete for the first     *)
(* version and a third one publishes the second.                            *)
(***************************************************************************)
EXTENDS RegistryCatalog, TLC

CONSTANTS v1, v2, d1, d2, d3, p1, p2
MCVersionOf == [d \in Declarations |-> IF d = d3 THEN v2 ELSE v1]
MCRivals == [p \in Publishers |-> IF p = p1 THEN d1 ELSE d2]
MCNeighbours == [p \in Publishers |-> IF p = p1 THEN d1 ELSE d3]
MCContents == {[d \in Declarations |-> "x"], [d \in Declarations |-> IF d = d2 THEN "y" ELSE "x"]}
MCContent == {[d \in Declarations |-> "x"]}

=============================================================================
