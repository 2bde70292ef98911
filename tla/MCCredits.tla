----------------------------- MODULE MCCredits -----------------------------
(* Two grants: one that expires, bought with two atoms of money and with a *)
(* gift on top, and one that lasts.                                        *)
EXTENDS Credits, TLC

CONSTANTS MCMoney

MCGrant == {1, 2}
MCKind == {1, 2}
MCQuantity == <<<<1, 2>>, <<0, 1>>>>
MCEffective == <<0, 1>>
MCExpires == <<2, 9>>
MCPaidMoney == <<MCMoney, 1>>
Symmetry == Permutations(Request) \cup Permutations(Case) \cup Permutations(Correction)
=============================================================================
