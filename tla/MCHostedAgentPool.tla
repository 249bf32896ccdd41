------------------------- MODULE MCHostedAgentPool -------------------------
(***************************************************************************)
(* Instances of HostedAgentPool: one turn of the first session, with one    *)
(* interaction.                                                             *)
(***************************************************************************)
EXTENDS HostedAgentPool, TLC

CONSTANTS c1, c2, s1, t1, i1
MCSessionOf == [t \in Turns |-> s1]
MCTurnOf == [i \in Interactions |-> t1]
MCUses == {<<"update", t1>>, <<"update", i1>>, <<"update", s1>>} \cap ({"get", "update"} \X Targets)
Symmetry == Permutations(Clients)

=============================================================================
